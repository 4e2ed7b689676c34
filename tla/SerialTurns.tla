---------------------------- MODULE SerialTurns ----------------------------
(***************************************************************************)
(* What a session promises the people prompting it: turns run one at a     *)
(* time, each is numbered one higher than the turn before it, a request is *)
(* given at most one turn, and a turn that began ends.  Who is turned away *)
(* and why, the status flag and the tasks are not part of the promise.     *)
(* SessionHandle implements it.                                            *)
(***************************************************************************)
EXTENDS Naturals

CONSTANTS Clients,   \* whoever may be given a turn
          Nobody     \* the holder of a session that runs no turn: not a client

VARIABLES holder,    \* the client whose turn is running, or Nobody
          count,     \* turns begun so far
          turn       \* the number of each client's turn, 0 while it has none

vars == <<holder, count, turn>>

TypeOK ==
    /\ holder \in Clients \cup {Nobody}
    /\ count \in Nat
    /\ turn \in [Clients -> Nat]

Init ==
    /\ holder = Nobody
    /\ count = 0
    /\ turn = [c \in Clients |-> 0]

\* c is given the next turn; nobody else may be running one.
BeginTurn(c) ==
    /\ holder = Nobody
    /\ turn[c] = 0
    /\ holder' = c
    /\ count' = count + 1
    /\ turn' = [turn EXCEPT ![c] = count + 1]

\* c's turn is over, however it ended.
EndTurn(c) ==
    /\ holder = c
    /\ holder' = Nobody
    /\ UNCHANGED <<count, turn>>

Next == \E c \in Clients : BeginTurn(c) \/ EndTurn(c)

Spec == Init /\ [][Next]_vars

FairSpec == Spec /\ \A c \in Clients : WF_vars(EndTurn(c))
=============================================================================
