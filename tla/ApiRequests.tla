------------------------------ MODULE ApiRequests ------------------------------
(***************************************************************************)
(* The REST API behind its keys: POST /deliveries (IdempotentCreate)       *)
(* composed with the authentication of a request (deliveries/auth.py) and  *)
(* with the cabinet, where a shop makes and revokes its keys.  A key is    *)
(* asked about once, when a request begins; the note of its last use is a  *)
(* statement of its own, on the same row that a revocation writes.         *)
(***************************************************************************)
EXTENDS IdempotentCreate

CONSTANTS
  ApiKeys, \* keys that may be made
  NoApiKey \* the request is not authenticated

ASSUME ApiKeysAssumption == NoApiKey \notin ApiKeys

VARIABLES
  issued,   \* ApiKey rows: the shop of each key, NoShop without a row
  revoked,  \* keys whose revoked_at is set
  auth,     \* the key by which each worker's request came in
  noted,    \* workers that have noted the key's use
  withdrawn \* history: keys that a shop has revoked

keyVars == <<issued, revoked, auth, noted, withdrawn>>
apiVars == <<vars, keyVars>>

KeysTypeOK ==
  /\ issued \in [ApiKeys -> Owners]
  /\ revoked \subseteq ApiKeys
  /\ auth \in [Workers -> ApiKeys \cup {NoApiKey}]
  /\ noted \subseteq Workers
  /\ withdrawn \subseteq ApiKeys

ApiInit ==
  /\ Init
  /\ issued = [a \in ApiKeys |-> NoShop]
  /\ revoked = {}
  /\ auth = [w \in Workers |-> NoApiKey]
  /\ noted = {}
  /\ withdrawn = {}

-----------------------------------------------------------------------------
(* ApiKey.generate, in the cabinet. *)
Generate(s, a) ==
  /\ issued[a] = NoShop
  /\ issued' = [issued EXCEPT ![a] = s]
  /\ UNCHANGED <<vars, revoked, auth, noted, withdrawn>>

(* ApiKey.revoke: only revoked_at is saved. *)
Revoke(a) ==
  /\ issued[a] # NoShop
  /\ revoked' = revoked \cup {a}
  /\ withdrawn' = withdrawn \cup {a}
  /\ UNCHANGED <<vars, issued, auth, noted>>

(* resolve_shop: the row of an unrevoked key. Any other key: 401, no change. *)
Authenticate(w, a) ==
  /\ pc[w] = "idle" /\ auth[w] = NoApiKey
  /\ issued[a] # NoShop /\ a \notin revoked
  /\ auth' = [auth EXCEPT ![w] = a]
  /\ UNCHANGED <<vars, issued, revoked, noted, withdrawn>>

(* A slip for NoteUse: the loaded instance is saved with all its columns. *)
SaveInstance(w) ==
  /\ auth[w] # NoApiKey /\ w \notin noted
  /\ revoked' = revoked \ {auth[w]}
  /\ noted' = noted \cup {w}
  /\ UNCHANGED <<vars, issued, auth, withdrawn>>

(* ... and last_used_at alone is updated in it. *)
NoteUse(w) ==
  /\ auth[w] # NoApiKey /\ w \notin noted
  /\ noted' = noted \cup {w}
  /\ UNCHANGED <<vars, issued, revoked, auth, withdrawn>>

(* The key's shop is the user of the request. *)
Accept(w, k) ==
  /\ w \in noted
  /\ Receive(w, issued[auth[w]], k)
  /\ UNCHANGED keyVars

Leave(w) ==
  /\ auth' = [auth EXCEPT ![w] = NoApiKey]
  /\ noted' = noted \ {w}
  /\ UNCHANGED <<issued, revoked, withdrawn>>

(* The view, until its answer ends the request. *)
Handle(w) ==
  /\ Work(w)
  /\ IF pc'[w] = "idle" THEN Leave(w) ELSE UNCHANGED keyVars

Die(w) ==
  /\ auth[w] # NoApiKey
  /\ Crash(w) \/ (pc[w] = "idle" /\ UNCHANGED vars)
  /\ Leave(w)

ApiNext ==
  \/ \E w \in Workers :
       \/ \E a \in ApiKeys : Authenticate(w, a)
       \/ \E k \in Headers : Accept(w, k)
       \/ NoteUse(w) \/ Handle(w) \/ Die(w)
  \/ \E a \in ApiKeys : Revoke(a) \/ \E s \in Shops : Generate(s, a)

ApiSpec == ApiInit /\ [][ApiNext]_apiVars

-----------------------------------------------------------------------------
(***************************************************************************)
(* A revoked key opens nothing again: requests it let in before may run to *)
(* their end, no later one begins with it, although such a request writes  *)
(* to the key's row after the revocation (resolve_shop, ApiKey.revoke).    *)
(***************************************************************************)
RevokedIsFinal ==
  [][\A a \in withdrawn, w \in Workers : auth[w] # a => auth'[w] # a]_apiVars

=============================================================================
