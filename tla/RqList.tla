-------------------------------- MODULE RqList --------------------------------
(***************************************************************************)
(* The list of outstanding requests of lib/lanplus/lanplus.c as it lies in   *)
(* memory: cells linked from ipmi_req_entries, each with the buffer of its  *)
(* message, msg_data.  Cells and buffers come from malloc, which may give   *)
(* out again whatever was freed.                                            *)
(*                                                                         *)
(* Touching a cell, or freeing a buffer, that is not allocated is undefined *)
(* behaviour: it sets `undefined`, and nothing is said of what follows.     *)
(***************************************************************************)
EXTENDS Integers, Sequences, FiniteSets, SequencesExt

CONSTANTS
    Numbers,      \* sequence numbers of requests
    Cmds,         \* commands of the callers
    SendMessage,  \* command 0x34, which carries a bridged command
    Address,      \* where malloc can put a cell
    Buffer,       \* where malloc can put a message
    Null          \* the null pointer

ASSUME ListAssumption ==
    /\ 0 \in Numbers
    /\ SendMessage \notin Cmds
    /\ IsFiniteSet(Address)
    /\ Null \notin Address \cup Buffer

VARIABLES
    ipmi_req_entries,       \* the head
    ipmi_req_entries_tail,
    cell,       \* the contents of the cells; of what was freed, Blank
    cells,      \* the cells allocated
    bufs,       \* the buffers allocated
    undefined   \* undefined behaviour has occurred

list == <<ipmi_req_entries, ipmi_req_entries_tail, cell>>
vars == <<list, cells, bufs, undefined>>

Blank == [seq |-> 0, cmd |-> SendMessage, next |-> Null, msg_data |-> Null]

Init ==
    /\ ipmi_req_entries = Null
    /\ ipmi_req_entries_tail = Null
    /\ cell = [a \in Address |-> Blank]
    /\ cells = {}
    /\ bufs = {}
    /\ undefined = FALSE

\* From the head, the links next lead through the cells of path, and end.
Leads(head, cs, path) ==
    /\ head = IF path = <<>> THEN Null ELSE path[1]
    /\ \A i \in DOMAIN path : cs[path[i]].next = IF i < Len(path) THEN path[i + 1] ELSE Null

\* The cells met on a walk from the head.
Path == CHOOSE path \in BoundedSeq(Address, Cardinality(Address)) :
            Leads(ipmi_req_entries, cell, path)

Undefined == undefined' = TRUE /\ UNCHANGED <<list, cells, bufs>>

-----------------------------------------------------------------------------
(* Adding.                                                                 *)

\* ipmi_req_add_entry for each of the cells of new: the head and the tail.
Link(new) ==
    /\ ipmi_req_entries' = IF ipmi_req_entries = Null THEN Head(new) ELSE ipmi_req_entries
    /\ ipmi_req_entries_tail' = Last(new)

\* The contents of the cells of new, of which the last has the message.
Filled(new, s, cs, b) ==
    [a \in Address |->
        IF \E i \in DOMAIN new : new[i] = a
        THEN LET i == CHOOSE j \in DOMAIN new : new[j] = a
             IN  [seq |-> s, cmd |-> cs[i],
                  next |-> IF i < Len(new) THEN new[i + 1] ELSE Null,
                  msg_data |-> IF i = Len(cs) THEN b ELSE Null]
        ELSE IF ipmi_req_entries # Null /\ a = ipmi_req_entries_tail
             THEN [cell[a] EXCEPT !.next = Head(new)]
             ELSE cell[a]]

\* Adding writes to the tail, unless the list is empty.
TailIsAllocated == ipmi_req_entries = Null \/ ipmi_req_entries_tail \in cells

\* The entries of one transmission, with its message in b.
AddEntries(new, s, cs, b) ==
    /\ ~ undefined
    /\ TailIsAllocated
    /\ Link(new)
    /\ cell' = Filled(new, s, cs, b)
    /\ UNCHANGED undefined

\* ipmi_req_add_entry finds a tail that was freed.
AddToFreedTail ==
    /\ ~ undefined
    /\ ~ TailIsAllocated
    /\ Undefined

\* The commands that are listed for one: a bridged one and the Send Message.
Listings(c) == {<<c>>, <<c, SendMessage>>}

FreshCells(n) == {new \in [1..n -> Address \ cells] : IsInjective(new)}

\* ipmi_lanplus_build_v2x_ipmi_cmd, or _v15_ (with number 0), and send(): b
\* belongs to the last entry.  When send() fails ipmi_lanplus_send_payload
\* frees b.
BuildAndSend(s, c) ==
    \E cs \in Listings(c), b \in Buffer \ bufs, sent \in BOOLEAN :
        \E new \in FreshCells(Len(cs)) :
            /\ AddEntries(new, s, cs, b)
            /\ cells' = cells \cup ToSet(new)
            /\ bufs' = IF sent THEN bufs \cup {b} ELSE bufs

\* Memory runs out, or the message cannot be built: the entries added so far
\* stay in the list, without a message.
BuildFails(s, c) ==
    \E cs \in Listings(c) : \E n \in 1..Len(cs) : \E new \in FreshCells(n) :
        /\ AddEntries(new, s, cs, Null)
        /\ cells' = cells \cup ToSet(new)
        /\ UNCHANGED bufs

\* ipmi_lanplus_build_v15_ipmi_cmd, for Get Channel Authentication
\* Capabilities, when the message finds no memory: the entry is freed.
BuildV15Fails(c) ==
    \E new \in FreshCells(1) :
        /\ AddEntries(new, 0, <<c>>, Null)
        /\ UNCHANGED <<cells, bufs>>

-----------------------------------------------------------------------------
(* Removing.                                                               *)

Matches(a, s, c) == cell[a].seq = s /\ cell[a].cmd = c

\* Mutant: the head is moved behind e wherever e was.
UnlinkMovesHead(p, e) ==
    /\ cell' = [cell EXCEPT ![p].next = IF @ = cell[e].next THEN Null ELSE cell[e].next,
                            ![e] = Blank]
    /\ ipmi_req_entries' = cell[e].next
    /\ ipmi_req_entries_tail' =
           IF ipmi_req_entries_tail # e THEN ipmi_req_entries_tail
           ELSE IF p # e THEN p ELSE Null

\* ipmi_req_remove_entry takes e, which follows p (or is p: the head), out of
\* the list.
Unlink(p, e) ==
    /\ cell' = [cell EXCEPT ![p].next = IF @ = cell[e].next THEN Null ELSE cell[e].next,
                            ![e] = Blank]
    /\ ipmi_req_entries' =
           IF ipmi_req_entries # e THEN ipmi_req_entries
           ELSE IF p # e THEN p ELSE cell[e].next
    /\ ipmi_req_entries_tail' =
           IF ipmi_req_entries_tail # e THEN ipmi_req_entries_tail
           ELSE IF p # e THEN p ELSE Null

\* The buffers of the entries es, each of which is freed.
Messages(es) == {cell[e].msg_data : e \in es} \ {Null}

FreedOnce(es) ==
    /\ Messages(es) \subseteq bufs
    /\ \A e \in es, f \in es :
          e # f /\ cell[e].msg_data # Null => cell[e].msg_data # cell[f].msg_data

\* The first entry that matches is entry i of the walk.
FirstMatch(i, s, c) ==
    /\ Matches(Path[i], s, c)
    /\ \A j \in 1..(i - 1) : ~ Matches(Path[j], s, c)

\* ipmi_req_lookup_entry found an entry for a response; it is removed.
RemoveEntry(s, c) ==
    \E i \in DOMAIN Path :
        /\ ~ undefined
        /\ FirstMatch(i, s, c)
        /\ LET e == Path[i]
               p == IF i = 1 THEN e ELSE Path[i - 1]
           IN  IF \A j \in 1..i : Path[j] \in cells /\ FreedOnce({e})
               THEN /\ Unlink(p, e)
                    /\ cells' = cells \ {e}
                    /\ bufs' = bufs \ Messages({e})
                    /\ UNCHANGED undefined
               ELSE Undefined

\* Mutant: the messages of the entries are not freed, as before v2.8.5.
ClearKeepsMessages ==
    /\ ~ undefined
    /\ IF ToSet(Path) \subseteq cells
       THEN /\ ipmi_req_entries' = Null
            /\ cells' = cells \ ToSet(Path)
            /\ cell' = [a \in Address |-> IF a \in ToSet(Path) THEN Blank ELSE cell[a]]
            /\ UNCHANGED <<ipmi_req_entries_tail, bufs, undefined>>
       ELSE Undefined

\* ipmi_req_clear_entries, called by ipmi_lanplus_close: the tail is left as
\* it is.
ClearEntries ==
    /\ ~ undefined
    /\ IF ToSet(Path) \subseteq cells /\ FreedOnce(ToSet(Path))
       THEN /\ ipmi_req_entries' = Null
            /\ cells' = cells \ ToSet(Path)
            /\ bufs' = bufs \ Messages(ToSet(Path))
            /\ cell' = [a \in Address |-> IF a \in ToSet(Path) THEN Blank ELSE cell[a]]
            /\ UNCHANGED <<ipmi_req_entries_tail, undefined>>
       ELSE Undefined

-----------------------------------------------------------------------------

Next ==
    \/ \E s \in Numbers, c \in Cmds : BuildAndSend(s, c) \/ BuildFails(s, c)
    \/ \E c \in Cmds : BuildV15Fails(c)
    \/ AddToFreedTail
    \/ \E s \in Numbers, c \in Cmds \cup {SendMessage} : RemoveEntry(s, c)
    \/ ClearEntries

Spec == Init /\ [][Next]_vars

-----------------------------------------------------------------------------
(* Properties.                                                             *)

TypeOK ==
    /\ ipmi_req_entries \in Address \cup {Null}
    /\ ipmi_req_entries_tail \in Address \cup {Null}
    /\ cell \in [Address -> [seq : Numbers, cmd : Cmds \cup {SendMessage},
                             next : Address \cup {Null}, msg_data : Buffer \cup {Null}]]
    /\ cells \subseteq Address
    /\ bufs \subseteq Buffer
    /\ undefined \in BOOLEAN

\* The linked cells are the list that the command engine relies on, as long as
\* nothing undefined happens: whichever cell is removed, and although a clear
\* leaves the tail pointing to memory that malloc gives out again
\* (ipmi_req_add_entry, ipmi_req_remove_entry, ipmi_req_clear_entries).
ListOf(path) == [i \in DOMAIN path |-> [seq |-> cell[path[i]].seq, cmd |-> cell[path[i]].cmd]]
Requests == INSTANCE RequestList
                WITH entries <- ListOf(Path), Commands <- Cmds \cup {SendMessage}
IsRequestList == Requests!Spec

\* What is allocated is in the list, so that a removal or a clear will free it.
\* (And the variables have their types.)
NoLeak ==
    /\ TypeOK
    /\ cells \subseteq ToSet(Path)
    /\ bufs \subseteq Messages(ToSet(Path))

\* Addresses are interchangeable.
Symmetry == Permutations(Address) \cup Permutations(Buffer)

=============================================================================
