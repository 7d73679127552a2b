-------------------------------- MODULE Door --------------------------------
(***************************************************************************)
(* What serializeSession (site/app.mjs) promises its callers, and no word  *)
(* on how: a call that is made takes the next ticket; those that wait are  *)
(* admitted, or turned away, in the order of their tickets.                *)
(***************************************************************************)
EXTENDS Integers, Sequences

VARIABLES tickets,   \* calls made so far, the ones that wait for no turn included
          line,      \* tickets that wait
          served     \* tickets admitted, in that order

dvars == <<tickets, line, served>>

First(t) == t \in line /\ \A u \in line : t <= u

DInit == tickets = 0 /\ line = {} /\ served = <<>>

Take ==
  /\ tickets' = tickets + 1
  /\ line' = line \cup {tickets + 1}
  /\ UNCHANGED served

\* A call that is not one of the gated ones.
PassBy == tickets' = tickets + 1 /\ UNCHANGED <<line, served>>

Admit == \E t \in line :
  /\ First(t)
  /\ line' = line \ {t}
  /\ served' = Append(served, t)
  /\ UNCHANGED tickets

TurnAway == \E t \in line :
  /\ First(t)
  /\ line' = line \ {t}
  /\ UNCHANGED <<tickets, served>>

DNext == Take \/ PassBy \/ Admit \/ TurnAway

DSpec == DInit /\ [][DNext]_dvars
=============================================================================
