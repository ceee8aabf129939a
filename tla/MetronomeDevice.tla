--------------------------- MODULE MetronomeDevice ---------------------------
(***************************************************************************)
(* The readers of the metronome's two devices: io_read, the open control    *)
(* blocks it works on, and the set command that changes what one of them    *)
(* says.  main's thread runs one handler at a time, and it alone reads and  *)
(* writes what is used here.                                                *)
(*                                                                          *)
(* A text is an id and its strlen.  The open, lseek and close handlers are  *)
(* the library's.  malloc succeeds; a read refused by iofunc_read_verify or *)
(* for its xtype changes nothing.                                           *)
(***************************************************************************)
EXTENDS Integers, Sequences

CONSTANTS
  Settings,     (* what the status can say, as records [id, len]            *)
  Help,         (* the help text, alike                                     *)
  Readers,
  Sizes,        (* the numbers of bytes readers ask for                     *)
  Offsets,      (* where they lseek to                                      *)
  MaxGot        (* bound: bytes a reader collects; more than any text has   *)

ASSUME MetronomeDeviceAssumption ==
  /\ Sizes \subseteq Nat \ {0} /\ Offsets \subseteq Nat
  /\ \A t \in Settings \cup {Help} : t.len \in Nat \ {0} /\ t.len < MaxGot
  /\ MaxGot \in Nat

VARIABLES
  attr,     (* bpm and time signature, as the text they make                *)
  ocb,      (* each reader's open control block                             *)
  last,     (* what its last read replied: from where in a buffer, how much *)
  got,      (* history: the bytes it has read since it opened or moved      *)
  since     (* history: what happened since it opened: nothing, a set, or   *)
            (* its own move                                                 *)

vars == <<attr, ocb, last, got, since>>

-----------------------------------------------------------------------------
Devices == {"metronome", "help"}
NULL == [id |-> "null", len |-> 0]

Closed == [name |-> "closed", buffer |-> NULL, bufsize |-> 0, offset |-> 0]

IsOpen(r) == ocb[r].name # "closed"
NoRead    == [from |-> 0, n |-> 0, size |-> 0]

Text(name) == IF name = "metronome" THEN attr ELSE Help

(* The characters of a text and its NUL, which is read like them.           *)
Bytes(t) == [i \in 1..(t.len + 1) |-> <<t.id, IF i <= t.len THEN i ELSE 0>>]

-----------------------------------------------------------------------------
mtm_ocb_calloc(r) ==
  /\ ~IsOpen(r)
  /\ \E name \in Devices : ocb' = [ocb EXCEPT ![r] = [Closed EXCEPT !.name = name]]
  /\ last' = [last EXCEPT ![r] = NoRead] /\ got' = [got EXCEPT ![r] = <<>>]
  /\ since' = [since EXCEPT ![r] = "nothing"]
  /\ UNCHANGED attr

mtm_ocb_free(r) ==
  /\ IsOpen(r) /\ ocb' = [ocb EXCEPT ![r] = Closed]
  /\ last' = [last EXCEPT ![r] = NoRead] /\ got' = [got EXCEPT ![r] = <<>>]
  /\ since' = [since EXCEPT ![r] = "nothing"]
  /\ UNCHANGED attr

(* A slip: the text is put into the buffer when it is allocated.            *)
FillOnce(o) == IF o.buffer = NULL THEN Text(o.name) ELSE o.buffer

Fill(o) == Text(o.name)

(* A slip: the NUL is not counted.                                          *)
StrLen(buffer) == buffer.len

BufSize(buffer) == buffer.len + 1

(* Slips: no test of the offset, where the difference wraps; the offset     *)
(* taken for the number of bytes of the last read.                          *)
CountUnchecked(offset, bufsize, size) ==
  IF offset <= bufsize /\ bufsize - offset < size THEN bufsize - offset ELSE size

Count(offset, bufsize, size) ==
  IF offset > bufsize THEN 0
  ELSE IF bufsize - offset < size THEN bufsize - offset ELSE size

NextOffsetSet(offset, nb) == IF nb > 0 THEN nb ELSE offset

NextOffset(offset, nb) == offset + nb

io_read(r, size) ==
  /\ IsOpen(r) /\ Len(got[r]) <= MaxGot
  /\ LET o       == ocb[r]
         buffer  == Fill(o)
         bufsize == BufSize(buffer)
         nb      == Count(o.offset, bufsize, size)
     IN /\ ocb' = [ocb EXCEPT ![r] = [name |-> o.name, buffer |-> buffer, bufsize |-> bufsize,
                                        offset |-> NextOffset(o.offset, nb)]]
        /\ last' = [last EXCEPT ![r] = [from |-> o.offset, n |-> nb, size |-> size]]
        /\ got' = [got EXCEPT ![r] =
             @ \o SubSeq(Bytes(buffer), o.offset + 1,
                         IF o.offset + nb < bufsize THEN o.offset + nb ELSE bufsize)]
  /\ UNCHANGED <<attr, since>>

(* A reader moves at most once per open: the bound on its moves.            *)
lseek(r) ==
  /\ IsOpen(r) /\ since[r] # "moved"
  /\ \E offset \in Offsets : ocb' = [ocb EXCEPT ![r].offset = offset]
  /\ last' = [last EXCEPT ![r] = NoRead] /\ got' = [got EXCEPT ![r] = <<>>]
  /\ since' = [since EXCEPT ![r] = "moved"]
  /\ UNCHANGED attr

(* The set command, as far as a reader sees it.                             *)
Set ==
  /\ attr' \in Settings
  /\ since' = [r \in Readers |->
       IF IsOpen(r) /\ since[r] = "nothing" THEN "set" ELSE since[r]]
  /\ UNCHANGED <<ocb, last, got>>

-----------------------------------------------------------------------------
Init ==
  /\ attr \in Settings
  /\ ocb = [r \in Readers |-> Closed] /\ last = [r \in Readers |-> NoRead]
  /\ got = [r \in Readers |-> <<>>] /\ since = [r \in Readers |-> "nothing"]

Reads(r) == \E size \in Sizes : io_read(r, size)

Next ==
  \/ Set
  \/ \E r \in Readers : mtm_ocb_calloc(r) \/ Reads(r) \/ lseek(r) \/ mtm_ocb_free(r)

Spec == Init /\ [][Next]_vars

(* A reader that has opened a device goes on reading.                       *)
FairSpec == Spec /\ \A r \in Readers : WF_vars(Reads(r))

-----------------------------------------------------------------------------
Chars == {t.id : t \in Settings \cup {Help}} \X Nat

TypeOK ==
  /\ attr \in Settings
  /\ ocb \in [Readers -> [name : Devices \cup {"closed"}, buffer : Settings \cup {Help, NULL},
                          bufsize : Nat, offset : Nat]]
  /\ last \in [Readers -> [from : Nat, n : Nat, size : Nat]]
  /\ got \in [Readers -> Seq(Chars)]
  /\ since \in [Readers -> {"nothing", "set", "moved"}]

(* No read replies bytes from behind the buffer, however far the offset is  *)
(* from lseek, or from a text that was longer before set.                   *)
InBuffer ==
  \A r \in Readers : last[r].n > 0 => last[r].from + last[r].n <= ocb[r].bufsize

AtEnd(r) == last[r].size > 0 /\ last[r].n = 0

(* A reader who reads to the end, while nothing is set and it does not      *)
(* move, has read the text of its device and the NUL, in any sizes.         *)
WholeText ==
  \A r \in Readers : AtEnd(r) /\ since[r] = "nothing" => got[r] = Bytes(Text(ocb[r].name))

(* A reader who goes on reading comes to an end, whatever is set meanwhile. *)
ReadersEnd == \A r \in Readers : IsOpen(r) ~> AtEnd(r) \/ ~IsOpen(r)

(* Readers see the text itself at their place: buffers are not seen, they   *)
(* neither mix devices nor keep a text that set has replaced.               *)
File == INSTANCE TextFile WITH
          Files   <- Devices,
          Texts   <- {Bytes(t) : t \in Settings \cup {Help}},
          Places  <- Offsets,
          content <- [d \in Devices |-> Bytes(Text(d))],
          file    <- [r \in Readers |-> ocb[r].name],
          place   <- [r \in Readers |-> ocb[r].offset]

ImplementsTextFile == File!Spec
=============================================================================
