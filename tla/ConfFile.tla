------------------------------ MODULE ConfFile ------------------------------
(***************************************************************************)
(* A configuration file and the handles programs have on it                *)
(* (src/radconffile.c).  A handle is a copy of the file in memory; a flush *)
(* rewrites the file under a lock, an open reads it without.  The lock is  *)
(* a link in the working directory of the program; the programs here have  *)
(* the same one.  The header text is one line, and a comment a line that   *)
(* starts with # and ends with the line.                                   *)
(***************************************************************************)
EXTENDS Integers, Sequences, SequencesExt, FiniteSetsExt

CONSTANTS
  Handle,   \* handles, each of a process of its own
  Entry,    \* what the program of each handle calls radCfPutEntry with
  Searcher, \* handles whose programs also search, and put comments
  MaxLines  \* lines in memory before a call that adds one

ASSUME ConfAssumption == "nobody" \notin Handle

VARIABLES
  disk,     \* the lines of the file
  locker,   \* who made the lock link, or "nobody"
  cf,       \* per handle: CF_INFO_TYPE and where its calls are
  saved,    \* history: the lines the last flush set out to write
  torn      \* history: the last flush ended with an error in writing

confVars == <<disk, locker, cf, saved, torn>>

(* A NULL pointer for an instance or a comment, and no text. *)
NULL == "NULL"
Empty == ""

Comment(text) == [type |-> "comment", text |-> text]
Note == Comment("note")
Header == Comment("header")

(* radCfOpen reads what radCfFlush wrote of a line: the value of an entry  *)
(* is the next word after the delimiters, among them the # of the comment. *)
ReadBack(line) ==
  IF line.type = "entry" /\ line.value = Empty /\ line.comment # Empty
  THEN [line EXCEPT !.value = line.comment, !.comment = Empty]
  ELSE line

ClosedFile == [phase |-> "closed", lines |-> <<>>, pos |-> 0, lastSearchNode |-> 0,
               undisturbed |-> FALSE]

ConfInit ==
  /\ disk = <<>> /\ saved = <<>> /\ torn = FALSE
  /\ locker = "nobody"
  /\ cf = [h \in Handle |-> ClosedFile]

Is(h, phase) == cf[h].phase = phase

-----------------------------------------------------------------------------
(* Open: the file is made if there is none, and read line by line.  At the *)
(* end of the file the handle is ready; a line without a buffer ends it.   *)
radCfOpen(h) ==
  /\ Is(h, "closed")
  /\ cf' = [cf EXCEPT ![h] = [ClosedFile EXCEPT !.phase = "reading", !.pos = 1,
                                            !.undisturbed = locker = "nobody"]]
  /\ UNCHANGED <<disk, locker, saved, torn>>

ReadLine(h) ==
  /\ Is(h, "reading")
  /\ LET pos == cf[h].pos
     IN  cf' = [cf EXCEPT ![h] =
           IF pos > Len(disk)
           THEN [cf[h] EXCEPT !.phase = "open", !.pos = 0, !.undisturbed = FALSE]
           ELSE [cf[h] EXCEPT !.pos = pos + 1,
                              !.lines = Append(cf[h].lines, ReadBack(disk[pos]))]]
  /\ UNCHANGED <<disk, locker, saved, torn>>

radCfClose(h) ==
  /\ Is(h, "open") \/ Is(h, "reading")
  /\ cf' = [cf EXCEPT ![h] = ClosedFile]
  /\ UNCHANGED <<disk, locker, saved, torn>>

-----------------------------------------------------------------------------
(* Mutant: an error of symlink is not looked at. *)
LockAnyway(h) ==
  /\ Is(h, "open")
  /\ locker' = h
  /\ cf' = [g \in Handle |-> IF g = h THEN [cf[g] EXCEPT !.phase = "locked"]
                             ELSE [cf[g] EXCEPT !.undisturbed = FALSE]]
  /\ UNCHANGED <<disk, saved, torn>>

(* Flush.  The link is made, or the flush answers ERROR.                   *)
radCfLockFile(h) ==
  /\ Is(h, "open")
  /\ locker = "nobody"
  /\ locker' = h
  /\ cf' = [g \in Handle |-> IF g = h THEN [cf[g] EXCEPT !.phase = "locked"]
                             ELSE [cf[g] EXCEPT !.undisturbed = FALSE]]
  /\ UNCHANGED <<disk, saved, torn>>

NeedsHeader(lines) == lines = <<>> \/ lines[1].type # "comment"

(* The file is opened and loses its contents; the header is put in front   *)
(* of the lines in memory.                                                 *)
Truncate(h) ==
  /\ Is(h, "locked")
  /\ disk' = <<>>
  /\ LET node == cf[h].lastSearchNode
         lines == cf[h].lines
         new == NeedsHeader(lines)
         all == IF new THEN <<Header>> \o lines ELSE lines
     IN  /\ cf' = [cf EXCEPT ![h] =
               [cf[h] EXCEPT !.phase = "writing", !.pos = 1, !.lines = all,
                             !.lastSearchNode = IF new /\ node # 0 THEN node + 1 ELSE node]]
         /\ saved' = all
  /\ torn' = FALSE
  /\ UNCHANGED locker

(* The file cannot be opened for writing. *)
TruncateFails(h) ==
  /\ Is(h, "locked")
  /\ cf' = [cf EXCEPT ![h].phase = "open"]
  /\ locker' = "nobody"
  /\ UNCHANGED <<disk, saved, torn>>

WriteLine(h) ==
  /\ Is(h, "writing")
  /\ cf[h].pos <= Len(cf[h].lines)
  /\ disk' = Append(disk, cf[h].lines[cf[h].pos])
  /\ cf' = [cf EXCEPT ![h].pos = @ + 1]
  /\ UNCHANGED <<locker, saved, torn>>

(* Mutant: after an error the file is closed as if nothing had happened. *)
WriteSkips(h) ==
  /\ Is(h, "writing")
  /\ cf[h].pos <= Len(cf[h].lines)
  /\ cf' = [cf EXCEPT ![h].pos = @ + 1]
  /\ UNCHANGED <<disk, locker, saved, torn>>

(* The disk takes no more.  At a comment the flush answers ERROR, at an    *)
(* entry or at the close of the file it does not look, and answers OK.     *)
WriteFails(h) ==
  /\ Is(h, "writing")
  /\ cf[h].pos <= Len(cf[h].lines)
  /\ cf' = [cf EXCEPT ![h].phase = "open", ![h].pos = 0]
  /\ locker' = "nobody"
  /\ torn' = TRUE /\ saved' = <<>>
  /\ UNCHANGED disk

radCfUnlockFile(h) ==
  /\ Is(h, "writing")
  /\ cf[h].pos > Len(cf[h].lines)
  /\ cf' = [cf EXCEPT ![h].phase = "open", ![h].pos = 0]
  /\ locker' = "nobody"
  /\ UNCHANGED <<disk, saved, torn>>

(* The process dies; the link stays, and every later flush answers ERROR.  *)
(* (A death at another time leaves what radCfClose leaves.)                *)
Crash(h) ==
  /\ Is(h, "locked") \/ Is(h, "writing")
  /\ cf' = [cf EXCEPT ![h] = ClosedFile]
  /\ torn' = TRUE /\ saved' = <<>>
  /\ UNCHANGED <<disk, locker>>

-----------------------------------------------------------------------------
(* The calls on the lines in memory. *)
EntriesOf(lines, id) == {k \in DOMAIN lines : lines[k].type = "entry" /\ lines[k].id = id}

(* radCfFindEntryNode: the first entry; without an instance, any is right. *)
Matches(lines, id, instance) ==
  {k \in EntriesOf(lines, id) : instance = NULL \/ lines[k].instance = instance}

Becomes(h, state) ==
  /\ Is(h, "open")
  /\ cf' = [cf EXCEPT ![h] = state]
  /\ UNCHANGED <<disk, locker, saved, torn>>

OrEmpty(text) == IF text = NULL THEN Empty ELSE text

(* An entry that is found gets the value, and the comment if there is one; *)
(* else there is a new entry at the end.                                   *)
radCfPutEntry(h, e) ==
  LET lines == cf[h].lines
      found == Matches(lines, e.id, e.instance)
      k == Min(found)
      new == [type |-> "entry", id |-> e.id, instance |-> OrEmpty(e.instance),
              value |-> e.value, comment |-> OrEmpty(e.comment)]
      changed == [lines[k] EXCEPT !.value = e.value,
                                  !.comment = IF e.comment = NULL THEN @ ELSE e.comment]
  IN  IF found = {}
      THEN Len(lines) < MaxLines
           /\ Becomes(h, [cf[h] EXCEPT !.lines = Append(lines, new)])
      ELSE Becomes(h, [cf[h] EXCEPT !.lines[k] = changed])

radCfPutComment(h) ==
  /\ Len(cf[h].lines) < MaxLines
  /\ Becomes(h, [cf[h] EXCEPT !.lines = Append(@, Note)])

(* A comment in front of an entry; the last search stays at its node.      *)
radCfPutCommentBefore(h, id, instance) ==
  LET found == Matches(cf[h].lines, id, instance)
  IN  /\ found # {} /\ Len(cf[h].lines) < MaxLines
      /\ Becomes(h, [cf[h] EXCEPT !.lines = InsertAt(@, Min(found), Note),
                                  !.lastSearchNode = IF @ >= Min(found) THEN @ + 1 ELSE @])

(* radCfGetNextEntry from a node: the next entry of the ID; without one    *)
(* the answer is ERROR, and the last search stays where it was.            *)
Searched(state, id, node) ==
  LET after == {k \in EntriesOf(state.lines, id) : k > node}
  IN  [state EXCEPT !.lastSearchNode = IF after = {} THEN node ELSE Min(after)]

radCfGetFirstEntry(h, id) == Becomes(h, Searched(cf[h], id, 0))
radCfGetNextEntry(h, id) == Becomes(h, Searched(cf[h], id, cf[h].lastSearchNode))

ConfNext ==
  \E h \in Handle :
    \/ radCfOpen(h) \/ ReadLine(h) \/ radCfClose(h)
    \/ radCfLockFile(h) \/ Truncate(h) \/ TruncateFails(h) \/ WriteLine(h) \/ WriteFails(h)
    \/ radCfUnlockFile(h) \/ Crash(h)
    \/ \E e \in Entry[h] : radCfPutEntry(h, e)
    \/ h \in Searcher /\ radCfPutComment(h)
    \/ h \in Searcher /\ \E e \in Entry[h] :
         radCfPutCommentBefore(h, e.id, e.instance)
         \/ radCfGetFirstEntry(h, e.id) \/ radCfGetNextEntry(h, e.id)

ConfSpec == ConfInit /\ [][ConfNext]_confVars

-----------------------------------------------------------------------------
(* One program at a time rewrites the file, and when none does and the     *)
(* last one came to its end the file holds all lines of one handle, though *)
(* several flush it and read it at any time.  (radCfFlush.)                *)
ConfWhole ==
  /\ \A h \in Handle : Is(h, "locked") \/ Is(h, "writing") => locker = h
  /\ locker = "nobody" /\ ~ torn => disk = saved

(* A program that opens the file while nobody writes reads what the last   *)
(* complete flush had in memory, but that an entry without a value takes   *)
(* its comment for the value.  (radCfOpen on what radCfFlush wrote.)       *)
ConfReadsBack ==
  \A h \in Handle : Is(h, "reading") /\ cf[h].undisturbed /\ ~ torn =>
    \A k \in DOMAIN cf[h].lines :
      LET was == saved[k]
      IN  cf[h].lines[k] = was \/ (was.type = "entry" /\ was.value = Empty /\ was.comment # Empty)

=============================================================================
