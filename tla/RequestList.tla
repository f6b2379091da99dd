------------------------------ MODULE RequestList ------------------------------
(***************************************************************************)
(* What the list of outstanding requests promises to the command engine of  *)
(* lib/lanplus/lanplus.c: entries are appended, a received response removes *)
(* the first entry with its sequence number and command, and closing the    *)
(* session removes them all.                                                *)
(***************************************************************************)
EXTENDS Integers, Sequences, SequencesExt

CONSTANTS Numbers, Commands

VARIABLE entries

Entries == [seq : Numbers, cmd : Commands]

\* What one transmission appends: nothing when memory is short, and two
\* entries of one number when the command is bridged.
Additions ==
    {<<>>} \cup {<<e>> : e \in Entries}
           \cup {<<e, f>> : e \in Entries, f \in Entries}

Init == entries = <<>>

Add(new) == entries' = entries \o new

\* The first entry of its kind is removed.
Take(i) ==
    /\ \A j \in 1..(i - 1) : entries[j] # entries[i]
    /\ entries' = RemoveAt(entries, i)

Clear == entries' = <<>>

Next ==
    \/ \E new \in Additions : Add(new)
    \/ \E i \in DOMAIN entries : Take(i)
    \/ Clear

Spec == Init /\ [][Next]_entries
=============================================================================
