---------------------------- MODULE OwnedServer ----------------------------
(***************************************************************************)
(* What the launcher promises to whoever reads its state directories and   *)
(* uses its server, whatever guards, operators and late docker requests    *)
(* do in between.  A launch opens one account in an empty directory and    *)
(* closes it at most once.  Its server starts at most once, after the      *)
(* account was opened and while no other server is up; it is never started *)
(* once the account says STOPPED, which is said only of a server that      *)
(* ended well: with exit code 0, enough memory and no guard stopping it.   *)
(* A FAILED account is no such promise: a start whose client gave up may   *)
(* still be carried out.                                                   *)
(***************************************************************************)
CONSTANTS Attempts, Dirs, StateDir, None

VARIABLES
  book,   \* book[d]: whose launch directory d accounts for, and how it stands
  life    \* life[a]: the server of a: "none", "up", "clean" or "bad" after its end

vars == <<book, life>>

Init ==
  /\ book = [d \in Dirs |-> [of |-> None, status |-> "NONE"]]
  /\ life = [a \in Attempts |-> "none"]

Enter(a, status) == book' = [book EXCEPT ![StateDir[a]] = [of |-> a, status |-> status]]

Open(a) ==
  /\ book[StateDir[a]].of = None /\ life[a] = "none"
  /\ Enter(a, "STARTING") /\ UNCHANGED life

Start(a) ==
  /\ book[StateDir[a]].of = a /\ book[StateDir[a]].status # "STOPPED"
  /\ life[a] = "none" /\ \A b \in Attempts : life[b] # "up"
  /\ life' = [life EXCEPT ![a] = "up"] /\ UNCHANGED book

End(a) ==
  /\ life[a] = "up"
  /\ \E how \in {"clean", "bad"} : life' = [life EXCEPT ![a] = how]
  /\ UNCHANGED book

Close(a) ==
  /\ book[StateDir[a]] = [of |-> a, status |-> "STARTING"]
  /\ Enter(a, "FAILED") \/ (life[a] = "clean" /\ Enter(a, "STOPPED"))
  /\ UNCHANGED life

Next == \E a \in Attempts : Open(a) \/ Start(a) \/ End(a) \/ Close(a)

Spec == Init /\ [][Next]_vars
=============================================================================
