------------------------------ MODULE Tickets ------------------------------
(***************************************************************************)
(* What the exchange endpoint promises: a replay id is a ticket.  One      *)
(* client takes it and holds it until it lapses, which it does when the    *)
(* inbound token expires; only a holder may be issued a token, once and as *)
(* its answer; the others are refused only if somebody took it.  Anything  *)
(* may fail at any time, and whoever fails with a ticket has lost it, but  *)
(* the ticket is not free before it lapses.  Exchange.tla does this with   *)
(* handlers, a table that is purged, a process that is stopped, killed and *)
(* started again, and an audit trail.                                      *)
(***************************************************************************)
CONSTANTS Client, Id

VARIABLES id,       \* the replay id each client presents
          lapsed,   \* clients whose ticket, taken or not, has lapsed
          holders,  \* clients that have taken their id's ticket
          issued,   \* clients a token was made for
          told      \* what each client was told, once and for all

ticketVars == <<id, lapsed, holders, issued, told>>

TicketsInit ==
    /\ id \in [Client -> Id]
    /\ lapsed = {}
    /\ holders = {}
    /\ issued = {}
    /\ told = [c \in Client |-> "nothing"]

Tell(c, answer) ==
    /\ told[c] = "nothing"
    /\ told' = [told EXCEPT ![c] = answer]

Take(c) ==
    /\ told[c] = "nothing"
    /\ \A d \in holders \ lapsed : id[d] # id[c]
    /\ holders' = holders \cup {c}
    /\ UNCHANGED <<id, lapsed, issued, told>>

(* A token that was made may still be lost on the way. *)
Issue(c) ==
    /\ c \in holders \ issued
    /\ issued' = issued \cup {c}
    /\ \E answer \in {"token", "failure"} : Tell(c, answer)
    /\ UNCHANGED <<id, lapsed, holders>>

Refuse(c) ==
    /\ c \notin holders
    /\ \E d \in holders : id[d] = id[c]
    /\ Tell(c, "replay")
    /\ UNCHANGED <<id, lapsed, holders, issued>>

(* The end of a process fails all it was serving. *)
Fail(clients) ==
    /\ \A c \in clients : told[c] = "nothing"
    /\ told' = [c \in Client |-> IF c \in clients THEN "failure" ELSE told[c]]
    /\ UNCHANGED <<id, lapsed, holders, issued>>

Lapse(c) ==
    /\ lapsed' = lapsed \cup {c}
    /\ UNCHANGED <<id, holders, issued, told>>

TicketsNext ==
    \/ \E c \in Client : Take(c) \/ Issue(c) \/ Refuse(c) \/ Lapse(c)
    \/ \E clients \in SUBSET Client : Fail(clients)

TicketsSpec == TicketsInit /\ [][TicketsNext]_ticketVars
=============================================================================
