------------------------------ MODULE RoomFeed ------------------------------
(* What a page's feed promises its reader (the comments marked R1 and R10 in *)
(* App.tsx and delta.ts): the room's events are numbered without holes, the  *)
(* page knows how far it has read, and it never says it has read past an     *)
(* event the reader may see without having shown it.  The one exception is   *)
(* said aloud: a backlog too large to replay is dropped as a whole.          *)
EXTENDS Naturals, Sequences

CONSTANTS
    Kinds,      \* kinds of event
    Secret      \* the kinds this reader is never shown

VARIABLES
    log,        \* the room's events, in commit order
    through,    \* the reader has read the log up to here
    base,       \* history up to here was read elsewhere, or dropped
    lines       \* the revisions shown

vars == <<log, through, base, lines>>

Revisions == 1..Len(log)
Visible   == {r \in Revisions : log[r] \notin Secret}

Init ==
    /\ log \in Seq(Kinds)
    /\ through \in 0..Len(log)
    /\ base = through
    /\ lines = {}

(* The room goes on; nobody has read that yet. *)
Publish ==
    /\ log' \in Seq(Kinds)
    /\ Len(log) <= Len(log')
    /\ \A r \in Revisions : log'[r] = log[r]
    /\ UNCHANGED <<through, base, lines>>

(* Lines are added, and the mark moves over nothing that is not shown. *)
Read ==
    /\ through' \in through..Len(log)
    /\ lines \subseteq lines' /\ lines' \subseteq lines \cup Visible
    /\ \A r \in Visible : through < r /\ r <= through' => r \in lines'
    /\ UNCHANGED <<log, base>>

(* The backlog is dropped, with the lines shown so far: the page starts anew *)
(* at a later revision.                                                      *)
Replace ==
    /\ through' \in through..Len(log)
    /\ base' = through'
    /\ lines' = {}
    /\ UNCHANGED log

Next == Publish \/ Read \/ Replace

Spec == Init /\ [][Next]_vars

(* Every event up to the mark that the reader may see is on the page, or     *)
(* belongs to the history it started from (App.tsx 366-369: the watermark is *)
(* committed only after every page has been consumed).                       *)
NoHole == \A r \in Visible : base < r /\ r <= through => r \in lines

=============================================================================
