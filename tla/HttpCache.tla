------------------------------- MODULE HttpCache -------------------------------
(***************************************************************************)
(* HttpCache (fpl_engine/data/http_cache.py): one file per request under a *)
(* root, replaced as a whole and read as a whole.                          *)
(*                                                                         *)
(* An entry is a complete archive: it is staged under another name and     *)
(* becomes the entry by os.replace, so a reader, a failure or a death      *)
(* between the two sees the previous entry.  The clock is injected; it is  *)
(* read when a response is put and again, after the file, when one is got. *)
(***************************************************************************)
EXTENDS Naturals

CONSTANTS
  Requests,    \* request identities: provider, method, URL, query, body
  Lifetime,    \* the ttl its adapter gives each request
  Forever,     \* ttl None: immutable
  NoEntry      \* no file

VARIABLES
  clock,       \* the injected clock
  entries      \* the entry of each request

Never == Forever

\* put: expires_at is None for an immutable response, now + ttl otherwise.
Expiry(r, now) == IF Lifetime[r] = Forever THEN Never ELSE now + Lifetime[r]

\* Defect: an entry is still fresh at the instant it expires.
Stale_AfterExpiry(e) == e.expires # Never /\ clock > e.expires

\* get: HIT_STALE from the instant of expiry on.
Stale(e) == e.expires # Never /\ clock >= e.expires

\* os.replace of the staged archive.
Replace(r, e) == entries' = [entries EXCEPT ![r] = e]

\* invalidate unlinks the file; a missing one is no error.
Unlink(r) == entries' = [entries EXCEPT ![r] = NoEntry]

=============================================================================
