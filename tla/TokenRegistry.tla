--------------------------- MODULE TokenRegistry ---------------------------
(***************************************************************************)
(* What the token file promises: a set of credentials that every operation *)
(* changes at once.  A credential enters with a secret of its own and      *)
(* under a name of its own; it changes secret, gains a board that nobody   *)
(* had, or goes; and a secret that went never comes back.                  *)
(***************************************************************************)
VARIABLES
  clients,   \* the credentials that work
  retired    \* the secrets that stopped working

TokensOf(some) == {x.token : x \in some}

Fresh(token) == token \notin TokensOf(clients) \cup retired

Init == clients = {} /\ retired = {}

Add(x) ==
  /\ \A y \in clients : y.name # x.name
  /\ Fresh(x.token)
  /\ clients' = clients \cup {x}
  /\ UNCHANGED retired

Remove(x) ==
  /\ clients' = clients \ {x}
  /\ retired' = retired \cup {x.token}

\* The same credential with a new secret, and perhaps a new expiry.
Rotate(x, y) ==
  /\ Fresh(y.token)
  /\ [y EXCEPT !.token = x.token, !.expiry = x.expiry] = x
  /\ clients' = (clients \ {x}) \cup {y}
  /\ retired' = retired \cup {x.token}

Grant(x, board) ==
  /\ x.kind = "account"
  /\ \A y \in clients : board \notin y.rooms
  /\ clients' = (clients \ {x}) \cup {[x EXCEPT !.rooms = @ \cup {board}]}
  /\ UNCHANGED retired

Next ==
  \/ \E x \in clients' : Add(x)
  \/ \E x \in clients :
       \/ Remove(x)
       \/ \E y \in clients' : Rotate(x, y)
       \/ \E board \in UNION {y.rooms : y \in clients'} : Grant(x, board)

Spec == Init /\ [][Next]_<<clients, retired>>
=============================================================================
