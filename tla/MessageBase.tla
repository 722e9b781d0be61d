----------------------------- MODULE MessageBase -----------------------------
(***************************************************************************)
(* What a message base promises to its readers: an archive.  A message     *)
(* gets the next number for good, nobody changes what it says, and when it *)
(* is deleted its number is not given to another one.  A message that is   *)
(* damaged may come without its text, and may get it back; no other may.   *)
(***************************************************************************)
EXTENDS Integers, Sequences

CONSTANTS Texts,      \* what messages say
          Base,       \* the number of the first message
          Gone        \* what is left of a message that was deleted

VARIABLES archive,    \* number, text and whether the text is shown
          damaged     \* the places of the messages that are damaged

Add(t) ==
    /\ archive' = Append(archive,
                         [num |-> Len(archive) + Base, text |-> t, shown |-> TRUE])
    /\ UNCHANGED damaged

Delete(n) ==
    /\ archive[n] # Gone
    /\ archive' = [archive EXCEPT ![n] = Gone]
    /\ UNCHANGED damaged

\* The text of a damaged message comes or goes.
Show(n) ==
    /\ archive[n] # Gone
    /\ n \in damaged'
    /\ \E b \in BOOLEAN : archive' = [archive EXCEPT ![n].shown = b]

Change(n) == UNCHANGED damaged /\ Show(n)

\* A change of the message is overtaken, or broken off.
Damage(n) == damaged' = damaged \cup {n} /\ Show(n)

Init == archive = << >> /\ damaged = {}

Next == \/ \E t \in Texts : Add(t)
        \/ \E n \in 1 .. Len(archive) : Delete(n) \/ Change(n) \/ Damage(n)

Spec == Init /\ [][Next]_<<archive, damaged>>
=============================================================================
