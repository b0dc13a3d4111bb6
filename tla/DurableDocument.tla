--------------------------- MODULE DurableDocument ---------------------------
(***************************************************************************)
(* What the store promises about the file it keeps: it holds one document, *)
(* whole; it moves only to documents that were asked for, in the order     *)
(* they were asked for; when the process dies or a write fails the ones    *)
(* not yet written are given up together, and the file stays as it is.     *)
(* Damage from outside is counted, so that a store which spoils its own    *)
(* file, be it for the time of one write, does not pass for a damaged one. *)
(***************************************************************************)
EXTENDS Naturals, Sequences

CONSTANTS Documents,   \* the documents that may be asked for
          Nothing,     \* no document was ever written
          Damaged      \* something other than the store spoilt the file

VARIABLES document,    \* what the file holds
          wanted,      \* the documents asked for and not yet written, in order
          damages      \* how often something else spoilt the file

docVars == <<document, wanted, damages>>

DocInit == document = Nothing /\ wanted = <<>> /\ damages = 0

Ask(d) == wanted' = Append(wanted, d) /\ UNCHANGED <<document, damages>>

Commit ==
    /\ wanted # <<>>
    /\ document' = Head(wanted)
    /\ wanted' = Tail(wanted)
    /\ UNCHANGED damages

GiveUp == wanted' = <<>> /\ UNCHANGED <<document, damages>>

\* Not a step of the store: it happens while nothing is asked for.
Damage ==
    /\ wanted = <<>>
    /\ damages' = damages + 1
    /\ document' = Damaged
    /\ UNCHANGED wanted

DocNext == (\E d \in Documents : Ask(d)) \/ Commit \/ GiveUp \/ Damage

DocSpec == DocInit /\ [][DocNext]_docVars

==============================================================================
