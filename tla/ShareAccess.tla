----------------------------- MODULE ShareAccess -----------------------------
(***************************************************************************)
(* What the signaling server promises about access to a share, without     *)
(* connections, queues or goroutines: a share has one sharer for life and  *)
(* a bounded set of members, nobody is in two shares, a share that ended   *)
(* never starts again, and every change is one of four.                    *)
(***************************************************************************)
EXTENDS Integers, FiniteSets

CONSTANTS Client, SessionId, MaxViewers, None

VARIABLES
    active, \* the shares in progress
    owner,  \* each share's sharer, None before it starts
    members \* each share's viewers

accessVars == <<active, owner, members>>

(* In no share, as a sharer or as a viewer. *)
Free(c) ==
    /\ \A s \in active : owner[s] # c
    /\ \A s \in SessionId : c \notin members[s]

AccessInit ==
    /\ active = {}
    /\ owner = [s \in SessionId |-> None]
    /\ members = [s \in SessionId |-> {}]

Begin(c, s) ==
    /\ owner[s] = None /\ Free(c)
    /\ owner' = [owner EXCEPT ![s] = c]
    /\ active' = active \cup {s}
    /\ UNCHANGED members

Admit(c, s) ==
    /\ s \in active /\ Free(c) /\ Cardinality(members[s]) < MaxViewers
    /\ members' = [members EXCEPT ![s] = @ \cup {c}]
    /\ UNCHANGED <<active, owner>>

Depart(c, s) ==
    /\ c \in members[s]
    /\ members' = [members EXCEPT ![s] = @ \ {c}]
    /\ UNCHANGED <<active, owner>>

End(s) ==
    /\ s \in active
    /\ active' = active \ {s}
    /\ members' = [members EXCEPT ![s] = {}]
    /\ UNCHANGED owner

AccessNext ==
    \E s \in SessionId :
        End(s) \/ \E c \in Client : Begin(c, s) \/ Admit(c, s) \/ Depart(c, s)

AccessSpec == AccessInit /\ [][AccessNext]_accessVars
=============================================================================
