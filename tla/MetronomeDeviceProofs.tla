------------------------- MODULE MetronomeDeviceProofs -------------------------
(***************************************************************************)
(* The metronome's devices for any texts, any readers and any sizes: reads  *)
(* stay in the buffer, an undisturbed reader gets the whole text, the       *)
(* buffers implement the text file, and every read gets on.                 *)
(***************************************************************************)
EXTENDS MetronomeDevice, TLAPS, SequenceTheorems

(* What a reader of an open device reads from.                              *)
Content(r) == Bytes(Text(ocb[r].name))

(* The bytes of a text are a sequence, one longer than the text.            *)
LEMMA BytesType ==
  ASSUME NEW t \in Settings \cup {Help}
  PROVE  /\ Bytes(t) \in Seq(Chars) /\ Len(Bytes(t)) = t.len + 1 /\ t.len \in Nat
<1>1. t.len \in Nat
  BY MetronomeDeviceAssumption
<1>2. Bytes(t) \in [1..(t.len + 1) -> Chars]
  BY <1>1 DEF Bytes, Chars
<1>3. Bytes(t) \in Seq(Chars)
  BY <1>1, <1>2, SeqDef
<1>4. DOMAIN Bytes(t) = 1..(t.len + 1) /\ DOMAIN Bytes(t) = 1..Len(Bytes(t)) /\ Len(Bytes(t)) \in Nat
  BY <1>2, <1>3, LenProperties
<1> QED BY <1>1, <1>3, <1>4

(* Every device has one of the texts, also as it is while nothing is open.  *)
LEMMA TextType == ASSUME TypeOK, NEW name PROVE Text(name) \in Settings \cup {Help}
  BY DEF TypeOK, Text

(* The bytes from a place on, at most so many.                              *)
LEMMA FromType ==
  ASSUME NEW text \in Seq(Chars), NEW at \in Nat, NEW n \in Nat
  PROVE  /\ File!From(text, at, n) \in Seq(Chars)
         /\ Len(File!From(text, at, n)) =
              IF at >= Len(text) THEN 0 ELSE IF at + n < Len(text) THEN n ELSE Len(text) - at
<1> DEFINE end == IF at + n < Len(text) THEN at + n ELSE Len(text)
<1>1. Len(text) \in Nat /\ end \in Int
  BY LenProperties
<1>2. \A k \in (at + 1)..end : text[k] \in Chars
  BY <1>1, ElementOfSeq
<1>3. /\ SubSeq(text, at + 1, end) \in Seq(Chars)
      /\ Len(SubSeq(text, at + 1, end)) = IF at + 1 <= end THEN end - (at + 1) + 1 ELSE 0
  <2>1. at + 1 \in Int  OBVIOUS
  <2> HIDE DEF end
  <2> QED BY <1>1, <1>2, <2>1, SubSeqProperties
<1> QED BY <1>1, <1>3 DEF File!From

(* How many bytes there are behind the offset, with io_read's tests.        *)
LEMMA CountIs ==
  ASSUME NEW o \in Nat, NEW bs \in Nat, NEW size \in Nat \ {0}
  PROVE  /\ Count(o, bs, size) \in Nat
         /\ Count(o, bs, size) = IF o >= bs THEN 0 ELSE IF o + size < bs THEN size ELSE bs - o
         /\ o <= bs =>
              (IF o + size < bs THEN o + size ELSE bs) = o + Count(o, bs, size)
  BY DEF Count

(* What io_read computes with its signed and unsigned tests is that.        *)
LEMMA ReadIsFrom ==
  ASSUME TypeOK, NEW r \in Readers, NEW size \in Sizes, io_read(r, size)
  PROVE  LET o  == ocb[r].offset
             nb == Count(o, BufSize(Fill(ocb[r])), size)
         IN /\ nb \in Nat /\ o \in Nat
            /\ Len(File!From(Content(r), o, size)) = nb
            /\ got' = [got EXCEPT ![r] = @ \o File!From(Content(r), o, size)]
            /\ ocb' = [ocb EXCEPT ![r] = [name |-> ocb[r].name, buffer |-> Fill(ocb[r]),
                                          bufsize |-> BufSize(Fill(ocb[r])), offset |-> o + nb]]
            /\ last' = [last EXCEPT ![r] = [from |-> o, n |-> nb, size |-> size]]
<1> DEFINE o  == ocb[r].offset
           bs == BufSize(Fill(ocb[r]))
           nb == Count(o, bs, size)
<1>1. o \in Nat /\ size \in Nat \ {0} /\ ocb[r] \in [name : Devices \cup {"closed"},
        buffer : Settings \cup {Help, NULL}, bufsize : Nat, offset : Nat]
  BY MetronomeDeviceAssumption DEF TypeOK
<1>2. Content(r) \in Seq(Chars) /\ Len(Content(r)) = bs /\ bs \in Nat
  BY TextType, BytesType DEF Content, Fill, BufSize
<1>c. nb \in Nat /\ nb = IF o >= bs THEN 0 ELSE IF o + size < bs THEN size ELSE bs - o
  BY <1>1, <1>2, CountIs
<1>4. Len(File!From(Content(r), o, size)) = nb
  <2> HIDE DEF nb, bs, o
  <2>1. Len(File!From(Content(r), o, size)) =
          IF o >= bs THEN 0 ELSE IF o + size < bs THEN size ELSE bs - o
    BY <1>1, <1>2, FromType
  <2> QED BY <1>c, <2>1
<1>5. (IF o + nb < bs THEN o + nb ELSE bs) = IF o + size < bs THEN o + size ELSE bs
  <2> HIDE DEF nb, bs, o
  <2> QED BY <1>1, <1>2, <1>c
<1>6. got' = [got EXCEPT ![r] = @ \o File!From(Content(r), o, size)]
  <2>1. got' = [got EXCEPT ![r] = @ \o SubSeq(Bytes(Fill(ocb[r])), o + 1,
                                              IF o + nb < bs THEN o + nb ELSE bs)]
    BY DEF io_read
  <2>2. Content(r) = Bytes(Fill(ocb[r]))
    BY DEF Content, Fill
  <2>3. File!From(Content(r), o, size)
          = SubSeq(Content(r), o + 1, IF o + nb < bs THEN o + nb ELSE bs)
    BY <1>2, <1>5 DEF File!From
  <2> QED BY <2>1, <2>2, <2>3
<1>7. ocb' = [ocb EXCEPT ![r] = [name |-> ocb[r].name, buffer |-> Fill(ocb[r]),
                                  bufsize |-> bs, offset |-> o + nb]]
  BY <1>1 DEF io_read, NextOffset, TypeOK
<1>8. last' = [last EXCEPT ![r] = [from |-> o, n |-> nb, size |-> size]]
  BY DEF io_read
<1> QED BY <1>1, <1>c, <1>4, <1>6, <1>7, <1>8

-----------------------------------------------------------------------------
(* While nothing is set and the reader does not move, it has read what is   *)
(* before its offset, and at the end that is all.                           *)
ReadSoFar ==
  \A r \in Readers : since[r] = "nothing" =>
    /\ ocb[r].offset <= Len(Content(r))
    /\ got[r] = SubSeq(Content(r), 1, ocb[r].offset)
    /\ AtEnd(r) => ocb[r].offset = Len(Content(r))

(* The inductive invariant.                                                 *)
IInv == TypeOK /\ InBuffer /\ ReadSoFar

(* Nothing has been read from offset 0.                                     *)
LEMMA AtStart ==
  ASSUME NEW t \in Settings \cup {Help}
  PROVE  0 <= Len(Bytes(t)) /\ SubSeq(Bytes(t), 1, 0) = <<>>
  BY BytesType, SubSeqEmpty

LEMMA InitIInv == Init => IInv
<1> SUFFICES ASSUME Init PROVE IInv OBVIOUS
<1>1. TypeOK
  BY EmptySeq DEF Init, TypeOK, Closed, NoRead
<1>2. InBuffer
  BY DEF Init, InBuffer, NoRead
<1>3. ReadSoFar
  BY <1>1, TextType, AtStart DEF Init, ReadSoFar, Closed, NoRead, AtEnd, Content
<1> QED BY <1>1, <1>2, <1>3 DEF IInv

(* Opening and closing begin again at the start of a text,                  *)
LEMMA FreshIInv ==
  ASSUME IInv, NEW r \in Readers, mtm_ocb_calloc(r) \/ mtm_ocb_free(r)
  PROVE  IInv'
<1> USE DEF IInv
<1>0. PICK name \in Devices \cup {"closed"} :
        /\ ocb' = [ocb EXCEPT ![r] = [name |-> name, buffer |-> NULL, bufsize |-> 0, offset |-> 0]]
        /\ last' = [last EXCEPT ![r] = NoRead] /\ got' = [got EXCEPT ![r] = <<>>]
        /\ since' = [since EXCEPT ![r] = "nothing"] /\ attr' = attr
  BY DEF mtm_ocb_calloc, mtm_ocb_free, Closed
<1>1. TypeOK'
  BY <1>0, EmptySeq DEF TypeOK, NoRead
<1>2. InBuffer'
  BY <1>0 DEF TypeOK, InBuffer, NoRead
<1>3. \A d : Text(d)' = Text(d)
  BY <1>0 DEF Text
<1>4. ReadSoFar'
  <2> SUFFICES ASSUME NEW q \in Readers, since'[q] = "nothing"
               PROVE  /\ ocb'[q].offset <= Len(Content(q)')
                      /\ got'[q] = SubSeq(Content(q)', 1, ocb'[q].offset)
                      /\ AtEnd(q)' => ocb'[q].offset = Len(Content(q)')
    BY DEF ReadSoFar
  <2>1. CASE q = r
    BY <2>1, <1>0, <1>3, TextType, AtStart DEF TypeOK, Content, AtEnd, NoRead
  <2>2. CASE q # r
    BY <2>2, <1>0, <1>3 DEF TypeOK, ReadSoFar, Content, AtEnd
  <2> QED BY <2>1, <2>2
<1> QED BY <1>1, <1>2, <1>4

(* moving and setting end what is promised,                                 *)
LEMMA DisturbIInv == ASSUME IInv, Set \/ \E r \in Readers : lseek(r) PROVE IInv'
<1> USE DEF IInv
<1>1. CASE Set
  <2>1. TypeOK'  BY <1>1 DEF Set, TypeOK
  <2>2. InBuffer'  BY <1>1 DEF Set, InBuffer
  <2>3. ReadSoFar'
    <3> SUFFICES ASSUME NEW q \in Readers, since'[q] = "nothing"
                 PROVE  /\ ocb'[q].offset <= Len(Content(q)')
                        /\ got'[q] = SubSeq(Content(q)', 1, ocb'[q].offset)
                        /\ AtEnd(q)' => ocb'[q].offset = Len(Content(q)')
      BY DEF ReadSoFar
    <3>1. ocb[q].name = "closed" /\ since[q] = "nothing"
      BY <1>1 DEF Set, IsOpen
    <3>2. Content(q)' = Content(q)
      BY <1>1, <3>1 DEF Set, Content, Text
    <3> QED BY <1>1, <3>1, <3>2 DEF Set, ReadSoFar, AtEnd
  <2> QED BY <2>1, <2>2, <2>3
<1>2. ASSUME NEW r \in Readers, lseek(r) PROVE IInv'
  <2>1. PICK offset \in Nat :
          /\ ocb' = [ocb EXCEPT ![r].offset = offset] /\ attr' = attr
          /\ last' = [last EXCEPT ![r] = NoRead] /\ got' = [got EXCEPT ![r] = <<>>]
          /\ since' = [since EXCEPT ![r] = "moved"]
    BY <1>2, MetronomeDeviceAssumption DEF lseek
  <2>2. TypeOK'  BY <2>1, EmptySeq DEF TypeOK, NoRead
  <2>3. InBuffer'  BY <2>1 DEF TypeOK, InBuffer, NoRead
  <2>4. ReadSoFar'
    BY <2>1 DEF TypeOK, ReadSoFar, Content, Text, AtEnd
  <2> QED BY <2>2, <2>3, <2>4
<1> QED BY <1>1, <1>2

(* and a read goes on where the last one ended.                             *)
LEMMA ReadIInv == ASSUME IInv, NEW r \in Readers, Reads(r) PROVE IInv'
<1> USE DEF IInv
<1> PICK size \in Sizes : io_read(r, size)
  BY DEF Reads
<1> DEFINE o     == ocb[r].offset
           nb    == Count(o, BufSize(Fill(ocb[r])), size)
           bytes == File!From(Content(r), o, size)
<1>0. /\ nb \in Nat /\ o \in Nat /\ Len(bytes) = nb
      /\ got' = [got EXCEPT ![r] = @ \o bytes]
      /\ ocb' = [ocb EXCEPT ![r] = [name |-> ocb[r].name, buffer |-> Fill(ocb[r]),
                                    bufsize |-> BufSize(Fill(ocb[r])), offset |-> o + nb]]
      /\ last' = [last EXCEPT ![r] = [from |-> o, n |-> nb, size |-> size]]
      /\ UNCHANGED <<attr, since>>
  BY ReadIsFrom DEF io_read
<1>s. size \in Nat \ {0}
  BY MetronomeDeviceAssumption
<1>t. Fill(ocb[r]) \in Settings \cup {Help} /\ Content(r) = Bytes(Fill(ocb[r]))
  BY TextType DEF Fill, Content
<1>b. /\ BufSize(Fill(ocb[r])) \in Nat /\ Len(Content(r)) = BufSize(Fill(ocb[r]))
      /\ Content(r) \in Seq(Chars) /\ bytes \in Seq(Chars)
  <2>1. BufSize(Fill(ocb[r])) \in Nat /\ Len(Content(r)) = BufSize(Fill(ocb[r]))
        /\ Content(r) \in Seq(Chars)
    BY <1>t, BytesType DEF BufSize
  <2> QED BY <1>0, <1>s, <2>1, FromType
<1> HIDE DEF nb, bytes
<1>1. TypeOK'
  <2>1. got[r] \o bytes \in Seq(Chars)
    BY <1>b, ConcatProperties DEF TypeOK
  <2>2. [name |-> ocb[r].name, buffer |-> Fill(ocb[r]), bufsize |-> BufSize(Fill(ocb[r])),
         offset |-> o + nb] \in [name : Devices \cup {"closed"},
           buffer : Settings \cup {Help, NULL}, bufsize : Nat, offset : Nat]
    BY <1>0, <1>t, <1>b DEF TypeOK
  <2> QED BY <1>0, <1>s, <2>1, <2>2 DEF TypeOK
<1>2. InBuffer'
  <2>1. nb > 0 => o + nb <= BufSize(Fill(ocb[r]))
    BY <1>0, <1>s, <1>b, CountIs DEF nb
  <2> QED BY <1>0, <2>1 DEF TypeOK, InBuffer
<1>3. ReadSoFar'
  <2> SUFFICES ASSUME NEW q \in Readers, since'[q] = "nothing"
               PROVE  /\ ocb'[q].offset <= Len(Content(q)')
                      /\ got'[q] = SubSeq(Content(q)', 1, ocb'[q].offset)
                      /\ AtEnd(q)' => ocb'[q].offset = Len(Content(q)')
    BY DEF ReadSoFar
  <2>1. since[q] = "nothing" /\ Content(q)' = Content(q)
    BY <1>0 DEF TypeOK, Content, Text
  <2>2. CASE q # r
    BY <1>0, <2>1, <2>2 DEF TypeOK, ReadSoFar, AtEnd
  <2>3. CASE q = r
    <3>1. o <= Len(Content(r)) /\ got[r] = SubSeq(Content(r), 1, o)
      BY <2>1, <2>3 DEF ReadSoFar
    <3>2. o + nb <= Len(Content(r)) /\ (nb = 0 => o = Len(Content(r)))
      <4>1. nb = IF o >= Len(Content(r)) THEN 0
                 ELSE IF o + size < Len(Content(r)) THEN size ELSE Len(Content(r)) - o
        BY <1>0, <1>s, <1>b, CountIs DEF nb
      <4>2. Len(Content(r)) \in Nat
        BY <1>b
      <4> HIDE DEF o
      <4> QED BY <1>0, <1>s, <3>1, <4>1, <4>2
    <3>3. bytes = SubSeq(Content(r), o + 1, o + nb)
      <4>1. (IF o + size < Len(Content(r)) THEN o + size ELSE Len(Content(r))) = o + nb
        BY <1>0, <1>s, <1>b, <3>1, CountIs DEF nb
      <4> QED BY <4>1 DEF bytes, File!From
    <3>4. SubSeq(Content(r), 1, o) \o SubSeq(Content(r), o + 1, o + nb)
            = SubSeq(Content(r), 1, o + nb)
      <4>1. 1 \in 1..(Len(Content(r)) + 1) /\ o \in (1 - 1)..Len(Content(r))
            /\ o + nb \in o..Len(Content(r))
        BY <1>0, <1>b, <3>1, <3>2
      <4> QED BY <1>b, <4>1, ConcatAdjacentSubSeq
    <3>5. ocb'[r].offset = o + nb /\ got'[r] = SubSeq(Content(r), 1, o + nb)
      BY <1>0, <3>1, <3>3, <3>4 DEF TypeOK
    <3>6. AtEnd(r)' => o + nb = Len(Content(r))
      BY <1>0, <3>2 DEF TypeOK, AtEnd
    <3> QED BY <2>1, <2>3, <3>2, <3>5, <3>6
  <2> QED BY <2>2, <2>3
<1> QED BY <1>1, <1>2, <1>3

LEMMA Invariance == Spec => []IInv
<1>1. IInv /\ UNCHANGED vars => IInv'
  BY DEF vars, IInv, TypeOK, InBuffer, ReadSoFar, Content, Text, AtEnd
<1>2. IInv /\ [Next]_vars => IInv'
  BY <1>1, FreshIInv, DisturbIInv, ReadIInv DEF Next
<1> QED BY InitIInv, <1>2, PTL DEF Spec

THEOREM TypeCorrect == Spec => []TypeOK
<1>1. IInv => TypeOK  BY DEF IInv
<1> QED BY Invariance, <1>1, PTL

THEOREM ReadsInBuffer == Spec => []InBuffer
<1>1. IInv => InBuffer  BY DEF IInv
<1> QED BY Invariance, <1>1, PTL

(* A reader whom nothing disturbs gets all of the text, in any sizes.       *)
THEOREM WholeTextRead == Spec => []WholeText
<1>1. IInv => WholeText
  <2> SUFFICES ASSUME IInv, NEW r \in Readers, AtEnd(r), since[r] = "nothing"
               PROVE  got[r] = Content(r)
    BY DEF WholeText, Content
  <2>1. Content(r) \in Seq(Chars)
    BY TextType, BytesType DEF IInv, Content
  <2>2. got[r] = SubSeq(Content(r), 1, Len(Content(r)))
    BY DEF IInv, ReadSoFar
  <2> QED BY <2>1, <2>2, SubSeqFull
<1> QED BY Invariance, <1>1, PTL

-----------------------------------------------------------------------------
(* The buffers implement the text file: each handler is one of its steps.   *)
LEMMA InitFile == Init => File!Init
<1> SUFFICES ASSUME Init PROVE File!Init OBVIOUS
<1>1. \A d : Text(d) \in Settings \cup {Help}
  BY DEF Init, Text
<1> QED BY <1>1 DEF Init, Closed, File!Init, File!Closed

LEMMA OpenIsOpen ==
  ASSUME TypeOK, NEW r \in Readers, mtm_ocb_calloc(r)
  PROVE  \E f \in Devices : File!Open(r, f)
<1> PICK f \in Devices : ocb' = [ocb EXCEPT ![r] = [name |-> f, buffer |-> NULL,
                                                   bufsize |-> 0, offset |-> 0]]
  BY DEF mtm_ocb_calloc, Closed
<1>1. \A d : Text(d)' = Text(d)
  BY DEF mtm_ocb_calloc, Text
<1> QED BY <1>1 DEF mtm_ocb_calloc, IsOpen, TypeOK, File!Open, File!Closed

LEMMA FreeIsClose ==
  ASSUME TypeOK, NEW r \in Readers, mtm_ocb_free(r)
  PROVE  File!Close(r)
<1>1. \A d : Text(d)' = Text(d)
  BY DEF mtm_ocb_free, Text
<1> QED BY <1>1 DEF mtm_ocb_free, IsOpen, Closed, TypeOK, File!Close, File!Closed

LEMMA SeekIsMove ==
  ASSUME TypeOK, NEW r \in Readers, lseek(r)
  PROVE  \E to \in Offsets : File!Move(r, to)
<1> PICK to \in Offsets : ocb' = [ocb EXCEPT ![r].offset = to]
  BY DEF lseek
<1>1. \A d : Text(d)' = Text(d)
  BY DEF lseek, Text
<1> QED BY <1>1 DEF lseek, IsOpen, TypeOK, File!Move, File!Closed

LEMMA IoReadIsRead ==
  ASSUME TypeOK, NEW r \in Readers, NEW size \in Sizes, io_read(r, size)
  PROVE  File!Read(r, size)
<1>1. \A d : Text(d)' = Text(d)
  BY DEF io_read, Text
<1>2. ocb[r].name \in Devices
  BY DEF io_read, IsOpen, TypeOK
<1> DEFINE bytes == File!From(Content(r), ocb[r].offset, size)
           nb    == Count(ocb[r].offset, BufSize(Fill(ocb[r])), size)
           bs    == BufSize(Fill(ocb[r]))
<1>3. /\ Len(bytes) = nb
      /\ got' = [got EXCEPT ![r] = @ \o bytes]
      /\ ocb' = [ocb EXCEPT ![r] = [name |-> ocb[r].name, buffer |-> Fill(ocb[r]),
                                    bufsize |-> bs, offset |-> ocb[r].offset + nb]]
  BY ReadIsFrom
<1> HIDE DEF bytes, nb, bs
<1>4. [q \in Readers |-> ocb[q].name]' = [q \in Readers |-> ocb[q].name]
  BY <1>3 DEF TypeOK
<1>5. [q \in Readers |-> ocb[q].offset]'
        = [[q \in Readers |-> ocb[q].offset] EXCEPT ![r] = @ + Len(bytes)]
  BY <1>3 DEF TypeOK
<1>6. [d \in Devices |-> Bytes(Text(d))]' = [d \in Devices |-> Bytes(Text(d))]
  BY <1>1
<1>7. [d \in Devices |-> Bytes(Text(d))][[q \in Readers |-> ocb[q].name][r]] = Content(r)
  BY <1>2 DEF Content
<1>8. [q \in Readers |-> ocb[q].offset][r] = ocb[r].offset
  OBVIOUS
<1>9. [q \in Readers |-> ocb[q].name][r] # "closed"
  BY DEF io_read, IsOpen
<1> QED BY <1>3, <1>4, <1>5, <1>6, <1>7, <1>8, <1>9 DEF bytes, File!Read, File!Closed

LEMMA SetIsReplace == ASSUME TypeOK, Set PROVE File!Replace("metronome")
<1>1. [d \in Devices |-> Bytes(Text(d))]'
        = [[d \in Devices |-> Bytes(Text(d))] EXCEPT !["metronome"] = Bytes(attr')]
  BY DEF Devices, Text
<1> QED BY <1>1 DEF Set, File!Replace

THEOREM ImplementsTheTextFile == Spec => ImplementsTextFile
<1>1. ASSUME IInv, Next PROVE File!Next
  <2>1. CASE Set
    BY <1>1, <2>1, SetIsReplace DEF IInv, File!Next, Devices
  <2>2. ASSUME NEW r \in Readers,
               mtm_ocb_calloc(r) \/ Reads(r) \/ lseek(r) \/ mtm_ocb_free(r)
        PROVE  File!Next
    BY <1>1, <2>2, OpenIsOpen, SeekIsMove, IoReadIsRead, FreeIsClose
       DEF IInv, Reads, File!Next
  <2> QED BY <1>1, <2>1, <2>2 DEF Next
<1>2. ASSUME UNCHANGED vars PROVE UNCHANGED File!fvars
  BY <1>2 DEF vars, File!fvars, Text
<1>3. IInv /\ [Next]_vars => [File!Next]_(File!fvars)
  BY <1>1, <1>2
<1> QED BY InitFile, Invariance, <1>3, PTL DEF Spec, ImplementsTextFile, File!Spec

-----------------------------------------------------------------------------
(* Every read of a reader that is not at the end brings it nearer to the    *)
(* end of the text of that moment and not past it; with nothing behind its  *)
(* place it is told so and stays.                                           *)
ReadAdvances ==
  [][\A r \in Readers : Reads(r) =>
       IF ocb[r].offset < BufSize(Fill(ocb[r]))
       THEN ~AtEnd(r)' /\ ocb'[r].offset \in (ocb[r].offset + 1)..BufSize(Fill(ocb[r]))
       ELSE AtEnd(r)' /\ ocb'[r].offset = ocb[r].offset]_vars

(* So a reader comes to the end in at most as many reads as the text has    *)
(* bytes: with its reads going on, ReadersEnd.                              *)
THEOREM EveryReadAdvances == Spec => ReadAdvances
<1>1. ASSUME TypeOK, NEW r \in Readers, Reads(r)
      PROVE  IF ocb[r].offset < BufSize(Fill(ocb[r]))
             THEN ~AtEnd(r)' /\ ocb'[r].offset \in (ocb[r].offset + 1)..BufSize(Fill(ocb[r]))
             ELSE AtEnd(r)' /\ ocb'[r].offset = ocb[r].offset
  <2>1. PICK size \in Sizes : io_read(r, size)
    BY <1>1 DEF Reads
  <2> DEFINE o  == ocb[r].offset
             bs == BufSize(Fill(ocb[r]))
             nb == Count(o, bs, size)
  <2>2. /\ nb \in Nat /\ o \in Nat
        /\ ocb' = [ocb EXCEPT ![r] = [name |-> ocb[r].name, buffer |-> Fill(ocb[r]),
                                      bufsize |-> bs, offset |-> o + nb]]
        /\ last' = [last EXCEPT ![r] = [from |-> o, n |-> nb, size |-> size]]
    BY <1>1, <2>1, ReadIsFrom
  <2>3. ocb'[r].offset = o + nb /\ last'[r].n = nb /\ last'[r].size = size
    BY <1>1, <2>2 DEF TypeOK
  <2>4. bs \in Nat /\ size \in Nat \ {0}
    BY <1>1, TextType, BytesType, MetronomeDeviceAssumption DEF Fill, BufSize
  <2>5. nb = IF o >= bs THEN 0 ELSE IF o + size < bs THEN size ELSE bs - o
    BY <2>2, <2>4, CountIs
  <2>6. AtEnd(r)' <=> nb = 0
    BY <2>3, <2>4 DEF AtEnd
  <2> HIDE DEF o, bs, nb
  <2>7. IF o < bs THEN nb # 0 /\ o + nb \in (o + 1)..bs ELSE nb = 0 /\ o + nb = o
    BY <2>2, <2>4, <2>5
  <2> USE DEF o, bs
  <2> QED BY <2>3, <2>6, <2>7
<1>2. IInv /\ [Next]_vars =>
        [\A r \in Readers : Reads(r) =>
           IF ocb[r].offset < BufSize(Fill(ocb[r]))
           THEN ~AtEnd(r)' /\ ocb'[r].offset \in (ocb[r].offset + 1)..BufSize(Fill(ocb[r]))
           ELSE AtEnd(r)' /\ ocb'[r].offset = ocb[r].offset]_vars
  BY <1>1 DEF IInv
<1> QED BY Invariance, <1>2, PTL DEF Spec, ReadAdvances
=============================================================================
