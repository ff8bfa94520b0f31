--------------------------- MODULE MarkdownMemory ---------------------------
(***************************************************************************)
(* The Markdown memory backend: one file of "## id" sections (level 1), or *)
(* a directory with a file for each id (level 2).  Each operation runs in  *)
(* a thread; nothing locks the files, and a file is rewritten by           *)
(* truncating it first.                                                    *)
(*                                                                         *)
(* A section is [uid, id, at]: the write that made it, its heading or file *)
(* name, and the number of the operation that gave it its body, 0 where    *)
(* the file is empty.  A body with a heading of its own reads back as two  *)
(* sections, <<o, 1>> and <<o, 2>>.                                        *)
(***************************************************************************)
EXTENDS Integers, Sequences, SequencesExt, FiniteSets

CONSTANTS
    Writes, Updates,
    Names,        \* safe memory_ids
    Stamp,        \* what _now_iso() returns: it holds ':' and '+'
    NoName,       \* no memory_id was given
    MaxCrashes

Ops == Writes \cup Updates

VARIABLES
    level,
    key,          \* the memory_id of an operation
    headed,       \* operations whose body has a heading
    pc,
    text,         \* what an update has read
    doc,          \* the file's sections, or the directory's files
    place, at,    \* the section an operation wrote, and when
    clock,        \* operations that have written
    overlapped,   \* operations under way when another one was
    torn,         \* a rewriting ended, or was read, between its truncation and its write
    crashes

vars == <<level, key, headed, pc, text, doc, place, at, clock, overlapped, torn, crashes>>
inputs == <<level, key, headed>>

SafeFilename(id) == id \in Names
Heading == CHOOSE n \in Names : TRUE
UnderWay == {o \in Ops : pc[o] \in {"read", "truncated"}}
HalfWritten == \E o \in Ops : pc[o] = "truncated"
Overlaps(o) == IF UnderWay \ {o} = {} THEN {} ELSE UnderWay \cup {o}

MemoryId(o) == IF key[o] = NoName THEN Stamp ELSE key[o]

(* _parse_sections of what an operation writes under a heading *)
Block(o, uid, id) ==
    <<[uid |-> uid, id |-> id, at |-> clock + 1]>> \o
    (IF o \in headed THEN <<[uid |-> <<o, 2>>, id |-> Heading, at |-> clock + 1]>> ELSE <<>>)

(* The sections of that name, and the first of them *)
Named(sections, id) == {k \in DOMAIN sections : sections[k].id = id}
Position(sections, id) ==
    CHOOSE k \in Named(sections, id) : \A j \in Named(sections, id) : k <= j

(* search(""): every section, or every file *)
Found == ToSet(doc)

Init ==
    /\ level \in {1, 2}
    /\ key \in {f \in [Ops -> Names \cup {NoName}] : \A u \in Updates : f[u] # NoName}
    /\ headed \in SUBSET (IF level = 1 THEN Ops ELSE {})
    /\ pc = [o \in Ops |-> "idle"]
    /\ text = [o \in Ops |-> <<>>]
    /\ doc = <<>>
    /\ place = [o \in Ops |-> <<o, 1>>] /\ at = [o \in Ops |-> 0]
    /\ clock = 0
    /\ overlapped = {} /\ torn = FALSE /\ crashes = 0

Ends(o, how) == pc' = [pc EXCEPT ![o] = how]

(* Operation o has written its body to the section uid. *)
Wrote(o, uid) ==
    /\ place' = [place EXCEPT ![o] = uid]
    /\ at' = [at EXCEPT ![o] = clock + 1]
    /\ clock' = clock + 1
    /\ Ends(o, "done")

-----------------------------------------------------------------------------
(* Level 1 write: appended to the file, whatever that holds by now *)
Append1(o) ==
    /\ level = 1 /\ o \in Writes /\ pc[o] = "idle"
    /\ overlapped' = overlapped \cup Overlaps(o)
    /\ \/ doc' = doc \o Block(o, <<o, 1>>, MemoryId(o)) /\ Wrote(o, <<o, 1>>)
       \/ Ends(o, "failed") /\ UNCHANGED <<doc, place, at, clock>>
    /\ UNCHANGED <<inputs, text, torn, crashes>>

(* Slip: the update starts from an older text of the file. *)
Read1_Cached(o) ==
    /\ level = 1 /\ o \in Updates /\ pc[o] = "idle"
    /\ overlapped' = overlapped \cup Overlaps(o)
    /\ \/ Named(doc, key[o]) = {} /\ Ends(o, "unknown") /\ UNCHANGED text
       \/ /\ Named(doc, key[o]) # {} /\ Ends(o, "read")
          /\ text' = [text EXCEPT ![o] = SubSeq(doc, 1, Position(doc, key[o]))]
    /\ torn' = (torn \/ HalfWritten)
    /\ UNCHANGED <<inputs, doc, place, at, clock, crashes>>

(* Level 1 update: read, and None if there is no such section *)
Read1(o) ==
    /\ level = 1 /\ o \in Updates /\ pc[o] = "idle"
    /\ overlapped' = overlapped \cup Overlaps(o)
    /\ \/ Named(doc, key[o]) = {} /\ Ends(o, "unknown") /\ UNCHANGED text
       \/ /\ Named(doc, key[o]) # {} /\ Ends(o, "read")
          /\ text' = [text EXCEPT ![o] = doc]
    /\ torn' = (torn \/ HalfWritten)
    /\ UNCHANGED <<inputs, doc, place, at, clock, crashes>>

(* write_text opens the file with "w", *)
Truncate1(o) ==
    /\ level = 1 /\ pc[o] = "read"
    /\ \/ doc' = <<>> /\ Ends(o, "truncated")
       \/ Ends(o, "failed") /\ UNCHANGED doc
    /\ UNCHANGED <<inputs, text, place, at, clock, overlapped, torn, crashes>>

(* and writes from its start: what was appended meanwhile is overwritten. *)
Rewrite1(o) ==
    /\ level = 1 /\ pc[o] = "truncated"
    /\ LET k == Position(text[o], key[o])
           s == text[o][k]
       IN  /\ doc' = SubSeq(text[o], 1, k - 1) \o Block(o, s.uid, s.id)
                        \o SubSeq(text[o], k + 1, Len(text[o]))
           /\ Wrote(o, s.uid)
    /\ UNCHANGED <<inputs, text, overlapped, torn, crashes>>

(* Level 2: both operations check the name, an update also that the file   *)
(* is there.                                                               *)
Check2(o) ==
    /\ level = 2 /\ pc[o] = "idle"
    /\ Ends(o, CASE ~ SafeFilename(MemoryId(o)) -> "failed"
                 [] o \in Updates /\ Named(doc, key[o]) = {} -> "unknown"
                 [] OTHER -> "read")
    /\ overlapped' = overlapped \cup Overlaps(o)
    /\ UNCHANGED <<inputs, text, doc, place, at, clock, torn, crashes>>

(* write_text of a file that is there or not, and may fail to open it *)
Truncate2(o) ==
    /\ level = 2 /\ pc[o] = "read"
    /\ LET uid   == IF o \in Updates THEN doc[Position(doc, key[o])].uid ELSE <<o, 1>>
           empty == [uid |-> uid, id |-> key[o], at |-> 0]
       IN  \/ /\ doc' = IF Named(doc, key[o]) = {} THEN Append(doc, empty)
                        ELSE [doc EXCEPT ![Position(doc, key[o])] = empty]
              /\ place' = [place EXCEPT ![o] = uid]
              /\ Ends(o, "truncated")
           \/ Ends(o, "failed") /\ UNCHANGED <<doc, place>>
    /\ UNCHANGED <<inputs, text, at, clock, overlapped, torn, crashes>>

Rewrite2(o) ==
    /\ level = 2 /\ pc[o] = "truncated"
    /\ doc' = [k \in DOMAIN doc |->
                  IF doc[k].id = key[o] THEN [doc[k] EXCEPT !.at = clock + 1] ELSE doc[k]]
    /\ Wrote(o, place[o])
    /\ UNCHANGED <<inputs, text, overlapped, torn, crashes>>

(* The write fails when the file is empty by now: returns None *)
FailToWrite(o) ==
    /\ pc[o] = "truncated"
    /\ Ends(o, "failed")
    /\ torn' = TRUE
    /\ UNCHANGED <<inputs, text, doc, place, at, clock, overlapped, crashes>>

Crash ==
    /\ crashes < MaxCrashes
    /\ crashes' = crashes + 1
    /\ torn' = (torn \/ HalfWritten)
    /\ pc' = [o \in Ops |-> IF o \in UnderWay THEN "ended" ELSE pc[o]]
    /\ UNCHANGED <<inputs, text, doc, place, at, clock, overlapped>>

Next ==
    \/ \E o \in Ops :
          \/ Append1(o) \/ Read1(o) \/ Truncate1(o) \/ Rewrite1(o)
          \/ Check2(o) \/ Truncate2(o) \/ Rewrite2(o)
          \/ FailToWrite(o)
    \/ Crash

Spec == Init /\ [][Next]_vars

-----------------------------------------------------------------------------
Section == [uid : Ops \X {1, 2}, id : Names \cup {Stamp}, at : 0..clock]

TypeOK ==
    /\ level \in {1, 2}
    /\ pc \in [Ops -> {"idle", "read", "truncated", "done", "failed", "unknown", "ended"}]
    /\ ToSet(doc) \subseteq Section
    /\ at \in [Ops -> 0..clock]
    /\ level = 2 => \A j, k \in DOMAIN doc : doc[j].id = doc[k].id => j = k

(* What a write or an update has returned stays: its section is in the     *)
(* store with that body or a later one, whatever else is written, and also *)
(* after a crash.  Excepted are operations that overlapped another one,    *)
(* and all of them once a rewriting broke off or an update has read the     *)
(* file that another one was rewriting; at level 2 also a file that        *)
(* another write() of the same name replaced.                              *)
Replaced(o) ==
    level = 2 /\ \E w \in Writes : w # o /\ key[w] = key[o] /\ pc[w] # "idle"

ReturnedStays ==
    ~ torn /\ ~ HalfWritten =>
        \A o \in Ops \ overlapped :
            pc[o] = "done" /\ ~ Replaced(o) =>
                \E s \in Found : s.uid = place[o] /\ s.at >= at[o]

(* "If no memory_id kwarg is supplied, a timestamp is used automatically." *)
NamelessIsWritten ==
    \A w \in Writes : key[w] = NoName /\ level = 2 => pc[w] # "failed"

(* "update rewrites the body of a section": one that returned None has     *)
(* left the other sections alone.                                          *)
FailedUpdateKeepsOthers ==
    \A u \in Updates \ overlapped :
        pc[u] = "failed" /\ crashes = 0 =>
            \A w \in Writes \ overlapped :
                level = 1 /\ pc[w] = "done" => \E s \in Found : s.uid = <<w, 1>>
=============================================================================
