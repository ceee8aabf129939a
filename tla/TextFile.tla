------------------------------- MODULE TextFile -------------------------------
(***************************************************************************)
(* What the metronome's devices promise a reader, without buffers: a text   *)
(* that may be replaced at any time, and readers that each have a place in  *)
(* it.  A read gives the bytes of the text of that moment that follow the   *)
(* place, as many as were asked for; behind the text there is nothing.      *)
(***************************************************************************)
EXTENDS Integers, Sequences

CONSTANTS Readers, Files,
          Texts,    (* sequences of bytes                                    *)
          Places, Sizes

VARIABLES content,  (* of each file *)
          file,     (* what each reader has open, or Closed *)
          place,
          got       (* the bytes each reader has read since it opened or moved *)

fvars == <<content, file, place, got>>

Closed == "closed"

From(text, at, n) == SubSeq(text, at + 1, IF at + n < Len(text) THEN at + n ELSE Len(text))

Open(r, f) ==
  /\ file[r] = Closed
  /\ file' = [file EXCEPT ![r] = f]
  /\ place' = [place EXCEPT ![r] = 0] /\ got' = [got EXCEPT ![r] = <<>>]
  /\ UNCHANGED content

Move(r, to) ==
  /\ file[r] # Closed
  /\ place' = [place EXCEPT ![r] = to] /\ got' = [got EXCEPT ![r] = <<>>]
  /\ UNCHANGED <<content, file>>

Read(r, n) ==
  /\ file[r] # Closed
  /\ LET bytes == From(content[file[r]], place[r], n)
     IN /\ got' = [got EXCEPT ![r] = @ \o bytes]
        /\ place' = [place EXCEPT ![r] = @ + Len(bytes)]
  /\ UNCHANGED <<content, file>>

Close(r) ==
  /\ file[r] # Closed /\ file' = [file EXCEPT ![r] = Closed]
  /\ place' = [place EXCEPT ![r] = 0] /\ got' = [got EXCEPT ![r] = <<>>]
  /\ UNCHANGED content

Replace(f) ==
  /\ \E text \in Texts : content' = [content EXCEPT ![f] = text]
  /\ UNCHANGED <<file, place, got>>

Init ==
  /\ content \in [Files -> Texts]
  /\ file = [r \in Readers |-> Closed]
  /\ place = [r \in Readers |-> 0] /\ got = [r \in Readers |-> <<>>]

Next ==
  \/ \E r \in Readers :
       \/ \E f \in Files : Open(r, f)
       \/ \E to \in Places : Move(r, to)
       \/ \E n \in Sizes : Read(r, n)
       \/ Close(r)
  \/ \E f \in Files : Replace(f)

Spec == Init /\ [][Next]_fvars
=============================================================================
