--------------------------- MODULE OtaUpdateProofs ---------------------------
(***************************************************************************)
(* The firmware upload, for every size of the sector, the header, the      *)
(* chunks and the image.                                                   *)
(*                                                                         *)
(* What the runs check is not inductive: that nothing is lost or counted   *)
(* twice rests on which of _error and _size says where the upload is, and  *)
(* that a rejected image touches no flash on what the processor has        *)
(* already looked at.                                                      *)
(***************************************************************************)
EXTENDS OtaUpdate, TLAPS

LEMMA SizesTyped ==
  /\ Sector \in Nat /\ Line \in Nat /\ Blob \in Nat /\ MinHeader \in Nat
  /\ MaxChunk \in Nat /\ Space \in Nat
  /\ Sector > 0 /\ Line > 0 /\ Blob > 0
  /\ Line <= MinHeader /\ MaxChunk < Sector
  /\ \A i \in Images : i.size \in Nat /\ i.head \in Nat
<1>1. \A n \in {Sector, Line, Blob, MinHeader, MaxChunk, Space} : n \in Nat /\ n > 0
  BY SizesAssumption
<1>2. \A i \in Images : i.size \in Nat /\ i.head \in 0 .. Line + Blob
  BY SizesAssumption DEF Images
<1> QED
  BY <1>1, <1>2, SizesAssumption

USE SizesTyped

(* Where the loop task is tells whether an update runs and what is left    *)
(* of a chunk; _error and a running update exclude each other.             *)
Control ==
  /\ error => ~running
  /\ pc = "upload" => error \/ running
  /\ pc \in {"write", "buffer", "program"} => running
  /\ pc \in {"idle", "upload", "activate", "select", "answer"} => chunk = 0
  /\ ending => chunk = 0 /\ pc \in {"buffer", "program"}
  /\ chunk <= sent
  /\ postHeader => running

(* How much of the header was used up, from where this image met the       *)
(* processors.                                                             *)
HeaderAccounted ==
  /\ running /\ stage \in {"DEVICE", "INIT"} => progress = 0 /\ image.head = Line + Blob
  /\ running /\ stage = "RFC" => progress + (Blob - blobAt) = image.head
  /\ running /\ stage = "POST" /\ ~postHeader => progress = image.head
  /\ running /\ ~postHeader => progressFlash = 0

(* What the processor has passed did not reject the image. *)
HeaderPassed ==
  /\ running /\ stage = "INIT" => image.rejectedAt # "DEVICE"
  /\ running /\ stage = "RFC" => image.rejectedAt \notin {"DEVICE", "INIT"}
  /\ running /\ stage = "POST" => image.rejectedAt \notin {"DEVICE", "INIT", "RFC"}
  /\ postHeader => stage = "POST" /\ image.rejectedAt = "never"
  /\ pc = "program" => postHeader

(* What the answer is going to be. *)
Answers ==
  /\ pc = "answer" /\ ~error => boot = "other"
  /\ answer = "ok" => pc = "restart"

IInv ==
  /\ TypeOK /\ BytesAccounted /\ MixtureNotBootable /\ OkMeansActivated
  /\ Control /\ HeaderAccounted /\ HeaderPassed /\ Answers

-----------------------------------------------------------------------------
(* TypeOK in two parts: the flags, and the rest.                           *)

Flags ==
  /\ ending \in BOOLEAN /\ armed \in BOOLEAN
  /\ error \in BOOLEAN /\ running \in BOOLEAN /\ postHeader \in BOOLEAN

Values ==
  /\ pc \in {"idle", "upload", "write", "buffer", "program", "activate",
             "select", "answer", "restart"}
  /\ image \in Images
  /\ sent \in 0 .. image.size
  /\ chunk \in 0 .. MaxChunk
  /\ progress \in Nat /\ progressFlash \in Nat
  /\ bufferLen \in 0 .. Sector
  /\ stage \in Stages /\ blobAt \in 0 .. Blob
  /\ partition \in [old : BOOLEAN, new : Nat, magic : BOOLEAN]
  /\ boot \in {"running", "other"}
  /\ answer \in {"none", "ok", "fail"}

LEMMA TypeParts ==
  /\ TypeOK <=> Flags /\ Values
  /\ TypeOK' <=> Flags' /\ Values'
BY DEF TypeOK, Flags, Values

LEMMA InitInvariant == Init => IInv
<1> SUFFICES ASSUME Init PROVE IInv
  OBVIOUS
<1>1. TypeOK
  <2>1. Flags
    BY DEF Init, Flags
  <2>2. Values
    BY DEF Init, Values, Stages
  <2> QED
    BY <2>1, <2>2, TypeParts
<1>2. BytesAccounted /\ MixtureNotBootable /\ OkMeansActivated
  BY DEF Init, BytesAccounted, MixtureNotBootable, OkMeansActivated
<1>3. Control /\ HeaderAccounted /\ HeaderPassed /\ Answers
  BY DEF Init, Control, HeaderAccounted, HeaderPassed, Answers
<1> QED
  BY <1>1, <1>2, <1>3 DEF IInv

(* What is offered has the header that the processors still want, and is   *)
(* rejected by none of the stages behind them.                             *)
LEMMA OfferedFits ==
  ASSUME stage \in Stages, blobAt \in 0 .. Blob, NEW i \in Offered
  PROVE  /\ i \in Images /\ i.size \in Nat
         /\ stage \in {"DEVICE", "INIT"} => i.head = Line + Blob
         /\ stage = "RFC" => i.head = Blob - blobAt
         /\ stage = "POST" => i.head = 0
         /\ stage = "INIT" => i.rejectedAt # "DEVICE"
         /\ stage = "RFC" => i.rejectedAt \notin {"DEVICE", "INIT"}
         /\ stage = "POST" => i.rejectedAt \notin {"DEVICE", "INIT", "RFC"}
<1>1. i \in Images /\ i.head = Head /\ i.rejectedAt \in Ahead \cup {"never"}
  BY DEF Offered
<1>2. /\ stage \in {"DEVICE", "INIT"} => Head = Line + Blob
      /\ stage = "RFC" => Head = Blob - blobAt
      /\ stage = "POST" => Head = 0
  BY DEF Head
<1>3. /\ stage = "INIT" => Ahead = Stages \ {"DEVICE"}
      /\ stage = "RFC" => Ahead = {"RFC", "POST"}
      /\ stage = "POST" => Ahead = {"POST"}
  BY DEF Ahead
<1> QED
  BY <1>1, <1>2, <1>3

LEMMA PayloadTyped ==
  image \in Images => Payload \in Nat
BY DEF Images, Payload

-----------------------------------------------------------------------------
(* The steps, one lemma for each group of actions.                         *)

LEMMA StartPreserves == IInv /\ UploadStart => IInv'
<1> SUFFICES ASSUME IInv, UploadStart PROVE IInv'
  OBVIOUS
<1> USE DEF IInv, httpVars, updVars, headVars, flash
<1>1. /\ stage \in Stages /\ chunk = 0 /\ sent' = 0
      /\ pc' = "upload" /\ UNCHANGED <<ending, chunk, stage, blobAt, boot>>
  BY DEF UploadStart, TypeOK, Control
<1>2. /\ partition' \in [old : BOOLEAN, new : Nat, magic : BOOLEAN]
      /\ partition'.new = 0
  <2>1. partition.old \in BOOLEAN /\ partition.magic \in BOOLEAN
    BY DEF TypeOK
  <2> QED
    BY <2>1 DEF UploadStart, Complete
<1>3. /\ image' \in Images /\ image'.size \in Nat
      /\ stage \in {"DEVICE", "INIT"} => image'.head = Line + Blob
      /\ stage = "RFC" => image'.head = Blob - blobAt
      /\ stage = "POST" => image'.head = 0
      /\ stage = "INIT" => image'.rejectedAt # "DEVICE"
      /\ stage = "RFC" => image'.rejectedAt \notin {"DEVICE", "INIT"}
      /\ stage = "POST" => image'.rejectedAt \notin {"DEVICE", "INIT", "RFC"}
  BY <1>1, OfferedFits DEF UploadStart, TypeOK
<1>4. CASE Begin
  <2>1. TypeOK'
    <3>1. Flags'
      BY <1>1, <1>4, TypeParts DEF Begin, Flags
    <3>2. Values'
      BY <1>1, <1>2, <1>3, <1>4, TypeParts DEF Begin, Values
    <3> QED
      BY <3>1, <3>2, TypeParts
  <2>2. BytesAccounted' /\ MixtureNotBootable' /\ OkMeansActivated' /\ Answers'
    BY <1>1, <1>2, <1>4 DEF Begin, UploadStart, BytesAccounted, MixtureNotBootable,
       OkMeansActivated, Answers
  <2>3. Control'
    BY <1>1, <1>4 DEF Begin, Control
  <2>4. HeaderAccounted' /\ HeaderPassed'
    BY <1>1, <1>3, <1>4 DEF Begin, HeaderAccounted, HeaderPassed, TypeOK
  <2> QED
    BY <2>1, <2>2, <2>3, <2>4
<1>5. CASE Refuse
  <2>1. TypeOK'
    <3>1. Flags'
      BY <1>1, <1>5, TypeParts DEF Refuse, Reset, Flags
    <3>2. Values'
      BY <1>1, <1>2, <1>3, <1>5, TypeParts DEF Refuse, Reset, Values
    <3> QED
      BY <3>1, <3>2, TypeParts
  <2>2. BytesAccounted' /\ MixtureNotBootable' /\ OkMeansActivated' /\ Answers'
    BY <1>1, <1>5 DEF Refuse, Reset, BytesAccounted, MixtureNotBootable, OkMeansActivated,
       Answers
  <2>3. Control'
    <3>1. ~ending
      BY DEF UploadStart, Control
    <3> QED
      BY <1>1, <1>5, <3>1 DEF Refuse, Reset, Control
  <2>4. HeaderAccounted' /\ HeaderPassed'
    BY <1>1, <1>5 DEF Refuse, Reset, HeaderAccounted, HeaderPassed
  <2> QED
    BY <2>1, <2>2, <2>3, <2>4
<1> QED
  BY <1>4, <1>5 DEF UploadStart

(* The web server's other callbacks. *)
LEMMA WebServerPreserves == IInv /\ WebServer => IInv'
<1> SUFFICES ASSUME IInv, WebServer PROVE IInv'
  OBVIOUS
<1>a. Flags /\ Values /\ BytesAccounted /\ MixtureNotBootable /\ Control /\ HeaderAccounted
        /\ HeaderPassed /\ OkMeansActivated /\ Answers
  BY TypeParts DEF IInv
<1> USE <1>a DEF httpVars, updVars, headVars, flash
<1>1. ASSUME UploadWrite PROVE IInv'
  <2>0. PICK n \in 1 .. MaxChunk :
          /\ sent + n <= image.size
          /\ sent' = sent + n
          /\ \/ error /\ UNCHANGED <<pc, chunk, updVars, answer>>
             \/ /\ ~error /\ Overfills(n)
                /\ Reset(TRUE) /\ answer' = "fail"
                /\ pc' = "restart" /\ UNCHANGED chunk
             \/ /\ ~error /\ ~Overfills(n)
                /\ pc' = "write" /\ chunk' = n
                /\ UNCHANGED <<updVars, answer>>
    BY <1>1 DEF UploadWrite
  <2>a. /\ pc = "upload" /\ chunk = 0 /\ ~ending
        /\ UNCHANGED <<ending, image, armed, stage, blobAt, partition, boot>>
    BY <1>1 DEF UploadWrite, Control
  <2>b. CASE error
    <3>1. UNCHANGED <<pc, chunk, error, running, progress, bufferLen, postHeader, progressFlash, answer>>
      BY <2>0, <2>b
    <3> QED
      BY <2>0, <2>a, <2>b, <3>1, TypeParts DEF IInv, Flags, Values, BytesAccounted,
         MixtureNotBootable, Control, HeaderAccounted, HeaderPassed, OkMeansActivated, Answers
  <2>c. CASE ~error /\ Overfills(n)
    <3>1. Reset(TRUE) /\ answer' = "fail" /\ pc' = "restart" /\ UNCHANGED chunk
      BY <2>0, <2>c
    <3>2. Flags'
      BY <2>a, <3>1 DEF Reset, Flags
    <3>3. Values'
      BY <2>0, <2>a, <3>1 DEF Reset, Values
    <3>4. BytesAccounted' /\ MixtureNotBootable' /\ OkMeansActivated' /\ Answers'
      BY <2>a, <3>1 DEF Reset, BytesAccounted, MixtureNotBootable, OkMeansActivated, Answers
    <3>5. Control' /\ HeaderAccounted' /\ HeaderPassed'
      BY <2>0, <2>a, <3>1 DEF Reset, Values, Control, HeaderAccounted, HeaderPassed
    <3> QED
      BY <3>2, <3>3, <3>4, <3>5, TypeParts DEF IInv
  <2>d. CASE ~error /\ ~Overfills(n)
    <3>1. /\ pc' = "write" /\ chunk' = n
          /\ UNCHANGED <<error, running, progress, bufferLen, postHeader, progressFlash, answer>>
      BY <2>0, <2>d
    <3>2. running
      BY <2>a, <2>d DEF Control
    <3>3. Flags' /\ Values'
      BY <2>0, <2>a, <3>1 DEF Flags, Values
    <3>4. BytesAccounted' /\ MixtureNotBootable'
      BY <2>0, <2>a, <3>1, <3>2 DEF Values, BytesAccounted, MixtureNotBootable
    <3>5. Control'
      BY <2>0, <2>a, <2>d, <3>1, <3>2 DEF Values, Control
    <3>6. HeaderAccounted' /\ HeaderPassed' /\ OkMeansActivated' /\ Answers'
      BY <2>0, <2>a, <3>1, <3>2 DEF HeaderAccounted, HeaderPassed, OkMeansActivated, Answers
    <3> QED
      BY <3>3, <3>4, <3>5, <3>6, TypeParts DEF IInv
  <2> QED
    BY <2>b, <2>c, <2>d
<1>2. ASSUME UploadEnd PROVE IInv'
  <2>1. Flags'
    <3>1. CASE error \/ ~running
      BY <1>2, <3>1 DEF UploadEnd, Reset, Flags
    <3>2. CASE ~(error \/ ~running)
      <4>1. ending' \in BOOLEAN
        BY <1>2, <3>2 DEF UploadEnd
      <4> QED
        BY <1>2, <3>2, <4>1 DEF UploadEnd, Flags
    <3> QED
      BY <3>1, <3>2
  <2>2. Values'
    BY <1>2 DEF UploadEnd, Reset, Control, Values
  <2>3. BytesAccounted' /\ MixtureNotBootable'
    BY <1>2 DEF UploadEnd, Reset, Control, Values, BytesAccounted, MixtureNotBootable
  <2>4. Control'
    BY <1>2 DEF UploadEnd, Reset, Control, Values
  <2>5. HeaderAccounted' /\ HeaderPassed'
    BY <1>2 DEF UploadEnd, Reset, Control, Values, HeaderAccounted, HeaderPassed
  <2>6. OkMeansActivated' /\ Answers'
    BY <1>2 DEF UploadEnd, Reset, OkMeansActivated, Answers
  <2> QED
    BY <2>1, <2>2, <2>3, <2>4, <2>5, <2>6, TypeParts DEF IInv
<1>3. ASSUME UploadAborted PROVE IInv'
  <2>1. Flags'
    BY <1>3 DEF UploadAborted, Reset, Flags
  <2>2. Values'
    BY <1>3 DEF UploadAborted, Reset, Control, Values
  <2>3. BytesAccounted' /\ MixtureNotBootable'
    BY <1>3 DEF UploadAborted, Reset, Control, Values, BytesAccounted, MixtureNotBootable
  <2>4. Control'
    BY <1>3 DEF UploadAborted, Reset, Control, Values
  <2>5. HeaderAccounted' /\ HeaderPassed'
    BY <1>3 DEF UploadAborted, Reset, Control, Values, HeaderAccounted, HeaderPassed
  <2>6. OkMeansActivated' /\ Answers'
    BY <1>3 DEF UploadAborted, Reset, OkMeansActivated, Answers
  <2> QED
    BY <2>1, <2>2, <2>3, <2>4, <2>5, <2>6, TypeParts DEF IInv
<1>4. ASSUME FormFails PROVE IInv'
  <2>1. Flags'
    BY <1>4 DEF FormFails, Flags
  <2>2. Values'
    BY <1>4 DEF FormFails, Control, Values
  <2>3. BytesAccounted' /\ MixtureNotBootable'
    BY <1>4 DEF FormFails, Control, Values, BytesAccounted, MixtureNotBootable
  <2>4. Control'
    BY <1>4 DEF FormFails, Control, Values
  <2>5. HeaderAccounted' /\ HeaderPassed'
    BY <1>4 DEF FormFails, Control, Values, HeaderAccounted, HeaderPassed
  <2>6. OkMeansActivated' /\ Answers'
    BY <1>4 DEF FormFails, OkMeansActivated, Answers
  <2> QED
    BY <2>1, <2>2, <2>3, <2>4, <2>5, <2>6, TypeParts DEF IInv
<1> QED
  BY <1>1, <1>2, <1>3, <1>4 DEF WebServer

(* write() and the header passes of _writeBuffer(). *)
LEMMA HeaderPreserves == IInv /\ (WritePass \/ Header) => IInv'
<1> SUFFICES ASSUME IInv, (WritePass \/ Header) PROVE IInv'
  OBVIOUS
<1>a. Flags /\ Values /\ BytesAccounted /\ MixtureNotBootable /\ Control /\ HeaderAccounted
        /\ HeaderPassed /\ OkMeansActivated /\ Answers
  BY TypeParts DEF IInv
<1> USE <1>a DEF httpVars, updVars, headVars, flash
<1>1. ASSUME WritePass PROVE IInv'
  <2>1. Flags'
    BY <1>1 DEF WritePass, Flags
  <2>2. Values'
    BY <1>1 DEF WritePass, Control, Values
  <2>3. BytesAccounted' /\ MixtureNotBootable'
    BY <1>1 DEF WritePass, Control, Values, BytesAccounted, MixtureNotBootable
  <2>4. Control'
    BY <1>1 DEF WritePass, Control, Values
  <2>5. HeaderAccounted' /\ HeaderPassed'
    BY <1>1 DEF WritePass, Control, Values, HeaderAccounted, HeaderPassed
  <2>6. OkMeansActivated' /\ Answers'
    BY <1>1 DEF WritePass, OkMeansActivated, Answers
  <2> QED
    BY <2>1, <2>2, <2>3, <2>4, <2>5, <2>6, TypeParts DEF IInv
<1>2. ASSUME TooShort PROVE IInv'
  <2>1. Flags'
    BY <1>2 DEF TooShort, HeaderPass, Consumed, BufferDone, Flags
  <2>2. Values'
    BY <1>2 DEF TooShort, HeaderPass, Consumed, BufferDone, Control, Values
  <2>3. BytesAccounted' /\ MixtureNotBootable'
        BY <1>2 DEF TooShort, HeaderPass, Consumed, BufferDone, Control, Values, BytesAccounted,
       MixtureNotBootable
  <2>4. Control'
    BY <1>2 DEF TooShort, HeaderPass, Consumed, BufferDone, Control, Values
  <2>5. HeaderAccounted' /\ HeaderPassed'
        BY <1>2 DEF TooShort, HeaderPass, Consumed, BufferDone, Control, Values,
       HeaderAccounted, HeaderPassed
  <2>6. OkMeansActivated' /\ Answers'
    BY <1>2 DEF TooShort, HeaderPass, Consumed, BufferDone, OkMeansActivated, Answers
  <2> QED
    BY <2>1, <2>2, <2>3, <2>4, <2>5, <2>6, TypeParts DEF IInv
<1>3. ASSUME HeaderLine PROVE IInv'
  <2>1. Flags'
    BY <1>3 DEF HeaderLine, HeaderPass, Consumed, BufferDone, Stages, Flags
  <2>2. Values'
    BY <1>3 DEF HeaderLine, HeaderPass, Consumed, BufferDone, Control, Stages, Values
  <2>3. BytesAccounted' /\ MixtureNotBootable'
        BY <1>3 DEF HeaderLine, HeaderPass, Consumed, BufferDone, Control, Stages, Values,
       BytesAccounted, MixtureNotBootable
  <2>4. Control'
    BY <1>3 DEF HeaderLine, HeaderPass, Consumed, BufferDone, Control, Stages, Values
  <2>5. HeaderAccounted' /\ HeaderPassed'
        BY <1>3 DEF HeaderLine, HeaderPass, Consumed, BufferDone, Control, Stages, Values,
       HeaderAccounted, HeaderPassed
  <2>6. OkMeansActivated' /\ Answers'
    BY <1>3 DEF HeaderLine, HeaderPass, Consumed, BufferDone, Stages, OkMeansActivated, Answers
  <2> QED
    BY <2>1, <2>2, <2>3, <2>4, <2>5, <2>6, TypeParts DEF IInv
<1>4. ASSUME Signature PROVE IInv'
  <2>1. Flags'
    BY <1>4 DEF Signature, HeaderPass, Consumed, BufferDone, Stages, Flags
  <2>2. Values'
    BY <1>4 DEF Signature, HeaderPass, Consumed, BufferDone, Control, Stages, Values
  <2>3. BytesAccounted' /\ MixtureNotBootable'
        BY <1>4 DEF Signature, HeaderPass, Consumed, BufferDone, Control, Stages, Values,
       BytesAccounted, MixtureNotBootable
  <2>4. Control'
    BY <1>4 DEF Signature, HeaderPass, Consumed, BufferDone, Control, Stages, Values
  <2>5. HeaderAccounted' /\ HeaderPassed'
        BY <1>4 DEF Signature, HeaderPass, Consumed, BufferDone, Control, Stages, Values,
       HeaderAccounted, HeaderPassed
  <2>6. OkMeansActivated' /\ Answers'
    BY <1>4 DEF Signature, HeaderPass, Consumed, BufferDone, Stages, OkMeansActivated, Answers
  <2> QED
    BY <2>1, <2>2, <2>3, <2>4, <2>5, <2>6, TypeParts DEF IInv
<1>5. ASSUME MagicByte PROVE IInv'
  <2>1. Flags'
    BY <1>5 DEF MagicByte, HeaderPass, BufferDone, Flags
  <2>2. Values'
    BY <1>5 DEF MagicByte, HeaderPass, BufferDone, Control, Values
  <2>3. BytesAccounted' /\ MixtureNotBootable'
    <3>1. running /\ stage = "POST" /\ progress = image.head /\ progressFlash = 0
      BY <1>5 DEF MagicByte, HeaderPass, Control, HeaderAccounted
    <3> QED
            BY <1>5, <3>1 DEF MagicByte, HeaderPass, BufferDone, Values, BytesAccounted,
         MixtureNotBootable
  <2>4. Control'
    BY <1>5 DEF MagicByte, HeaderPass, BufferDone, Control, Values
  <2>5. HeaderAccounted' /\ HeaderPassed'
    <3>1. running /\ image.rejectedAt = "never"
      BY <1>5 DEF MagicByte, HeaderPass, Control, HeaderPassed, Values, Images, Stages
    <3> QED
      BY <1>5, <3>1 DEF MagicByte, BufferDone, HeaderAccounted, HeaderPassed
  <2>6. OkMeansActivated' /\ Answers'
    BY <1>5 DEF MagicByte, HeaderPass, BufferDone, OkMeansActivated, Answers
  <2> QED
    BY <2>1, <2>2, <2>3, <2>4, <2>5, <2>6, TypeParts DEF IInv
<1>6. ASSUME HeaderRejected PROVE IInv'
  <2>1. Flags'
    BY <1>6 DEF HeaderRejected, HeaderPass, BufferFails, Reset, Flags
  <2>2. Values'
    <3>1. stage' \in Stages /\ blobAt' \in 0 .. Blob
      BY <1>6 DEF HeaderRejected, Values, Stages
    <3> QED
      BY <1>6, <3>1 DEF HeaderRejected, HeaderPass, BufferFails, Reset, Control, Values
  <2>3. BytesAccounted' /\ MixtureNotBootable'
        BY <1>6 DEF HeaderRejected, HeaderPass, BufferFails, Reset, Control, Values,
       BytesAccounted, MixtureNotBootable
  <2>4. Control'
    BY <1>6 DEF HeaderRejected, HeaderPass, BufferFails, Reset, Control, Values
  <2>5. HeaderAccounted' /\ HeaderPassed'
        BY <1>6 DEF HeaderRejected, HeaderPass, BufferFails, Reset, Control, Values,
       HeaderAccounted, HeaderPassed
  <2>6. OkMeansActivated' /\ Answers'
    BY <1>6 DEF HeaderRejected, HeaderPass, BufferFails, Reset, OkMeansActivated, Answers
  <2> QED
    BY <2>1, <2>2, <2>3, <2>4, <2>5, <2>6, TypeParts DEF IInv
<1>7. ASSUME SignatureOnFullBuffer PROVE IInv'
  <2>1. Flags'
    BY <1>7 DEF SignatureOnFullBuffer, HeaderPass, BufferFails, Reset, Flags
  <2>2. Values'
    BY <1>7 DEF SignatureOnFullBuffer, HeaderPass, BufferFails, Reset, Control, Stages, Values
  <2>3. BytesAccounted' /\ MixtureNotBootable'
    BY <1>7 DEF SignatureOnFullBuffer, HeaderPass, BufferFails, Reset, Control, Values,
       BytesAccounted, MixtureNotBootable
  <2>4. Control'
    BY <1>7 DEF SignatureOnFullBuffer, HeaderPass, BufferFails, Reset, Control, Values
  <2>5. HeaderAccounted' /\ HeaderPassed'
    BY <1>7 DEF SignatureOnFullBuffer, HeaderPass, BufferFails, Reset, HeaderAccounted,
       HeaderPassed
  <2>6. OkMeansActivated' /\ Answers'
    BY <1>7 DEF SignatureOnFullBuffer, HeaderPass, BufferFails, Reset, OkMeansActivated,
       Answers
  <2> QED
    BY <2>1, <2>2, <2>3, <2>4, <2>5, <2>6, TypeParts DEF IInv
<1> QED
  BY <1>1, <1>2, <1>3, <1>4, <1>5, <1>6, <1>7 DEF Header

(* The flash. *)
LEMMA FlashPreserves == IInv /\ (SectorErased \/ EraseFails \/ SectorWritten \/ SectorFails) => IInv'
<1> SUFFICES ASSUME IInv, (SectorErased \/ EraseFails \/ SectorWritten \/ SectorFails) PROVE IInv'
  OBVIOUS
<1>a. Flags /\ Values /\ BytesAccounted /\ MixtureNotBootable /\ Control /\ HeaderAccounted
        /\ HeaderPassed /\ OkMeansActivated /\ Answers
  BY TypeParts DEF IInv
<1> USE <1>a DEF httpVars, updVars, headVars, flash
<1>1. ASSUME SectorErased PROVE IInv'
  <2>1. Flags'
    BY <1>1 DEF SectorErased, Erased, Flags
  <2>2. Values'
    BY <1>1 DEF SectorErased, Erased, Control, Values
  <2>3. BytesAccounted' /\ MixtureNotBootable'
    BY <1>1 DEF SectorErased, Erased, Control, Values, BytesAccounted, MixtureNotBootable
  <2>4. Control'
    BY <1>1 DEF SectorErased, Erased, Control, Values
  <2>5. HeaderAccounted' /\ HeaderPassed'
    BY <1>1 DEF SectorErased, Erased, Control, Values, HeaderAccounted, HeaderPassed
  <2>6. OkMeansActivated' /\ Answers'
    BY <1>1 DEF SectorErased, Erased, OkMeansActivated, Answers
  <2> QED
    BY <2>1, <2>2, <2>3, <2>4, <2>5, <2>6, TypeParts DEF IInv
<1>2. ASSUME EraseFails PROVE IInv'
  <2>1. Flags'
    BY <1>2 DEF EraseFails, Erased, BufferFails, Reset, Flags
  <2>2. Values'
    <3>1. partition' \in [old : BOOLEAN, new : Nat, magic : BOOLEAN]
      <4>1. /\ partition.new \in Nat /\ partition.magic \in BOOLEAN
            /\ (partition.magic /\ progressFlash > 0) \in BOOLEAN
        BY DEF Values
      <4>2. Erased(partition) \in [old : BOOLEAN, new : Nat, magic : BOOLEAN]
        BY <4>1 DEF Erased
      <4> QED
        BY <1>2, <4>2 DEF EraseFails, Values
    <3> QED
      BY <1>2, <3>1 DEF EraseFails, BufferFails, Reset, Values
  <2>3. BytesAccounted' /\ MixtureNotBootable'
        BY <1>2 DEF EraseFails, Erased, BufferFails, Reset, Control, Values, BytesAccounted,
       MixtureNotBootable
  <2>4. Control'
    BY <1>2 DEF EraseFails, Erased, BufferFails, Reset, Control, Values
  <2>5. HeaderAccounted' /\ HeaderPassed'
        BY <1>2 DEF EraseFails, Erased, BufferFails, Reset, Control, Values, HeaderAccounted,
       HeaderPassed
  <2>6. OkMeansActivated' /\ Answers'
    BY <1>2 DEF EraseFails, Erased, BufferFails, Reset, OkMeansActivated, Answers
  <2> QED
    BY <2>1, <2>2, <2>3, <2>4, <2>5, <2>6, TypeParts DEF IInv
<1>3. ASSUME SectorWritten PROVE IInv'
  <2>1. Flags'
    BY <1>3 DEF SectorWritten, BufferDone, Flags
  <2>2. Values'
    BY <1>3 DEF SectorWritten, BufferDone, Control, Values
  <2>3. BytesAccounted' /\ MixtureNotBootable'
    BY <1>3 DEF SectorWritten, BufferDone, Control, Values, BytesAccounted, MixtureNotBootable
  <2>4. Control'
    BY <1>3 DEF SectorWritten, BufferDone, Control, Values
  <2>5. HeaderAccounted' /\ HeaderPassed'
    BY <1>3 DEF SectorWritten, BufferDone, Control, Values, HeaderAccounted, HeaderPassed
  <2>6. OkMeansActivated' /\ Answers'
    BY <1>3 DEF SectorWritten, BufferDone, OkMeansActivated, Answers
  <2> QED
    BY <2>1, <2>2, <2>3, <2>4, <2>5, <2>6, TypeParts DEF IInv
<1>4. ASSUME SectorFails PROVE IInv'
  <2>1. Flags'
    BY <1>4 DEF SectorFails, BufferFails, Reset, Flags
  <2>2. Values'
    BY <1>4 DEF SectorFails, BufferFails, Reset, Control, Values
  <2>3. BytesAccounted' /\ MixtureNotBootable'
        BY <1>4 DEF SectorFails, BufferFails, Reset, Control, Values, BytesAccounted,
       MixtureNotBootable
  <2>4. Control'
    BY <1>4 DEF SectorFails, BufferFails, Reset, Control, Values
  <2>5. HeaderAccounted' /\ HeaderPassed'
    BY <1>4 DEF SectorFails, BufferFails, Reset, Control, Values, HeaderAccounted, HeaderPassed
  <2>6. OkMeansActivated' /\ Answers'
    BY <1>4 DEF SectorFails, BufferFails, Reset, OkMeansActivated, Answers
  <2> QED
    BY <2>1, <2>2, <2>3, <2>4, <2>5, <2>6, TypeParts DEF IInv
<1> QED
  BY <1>1, <1>2, <1>3, <1>4

(* The activation, the answer and the reboot. *)
LEMMA ActivationPreserves == IInv /\ (MagicRestored \/ ActivateFails \/ BootSelected \/ Answer) => IInv'
<1> SUFFICES ASSUME IInv, (MagicRestored \/ ActivateFails \/ BootSelected \/ Answer) PROVE IInv'
  OBVIOUS
<1>a. Flags /\ Values /\ BytesAccounted /\ MixtureNotBootable /\ Control /\ HeaderAccounted
        /\ HeaderPassed /\ OkMeansActivated /\ Answers
  BY TypeParts DEF IInv
<1> USE <1>a DEF httpVars, updVars, headVars, flash
<1>1. ASSUME MagicRestored PROVE IInv'
  <2>1. Flags'
    BY <1>1 DEF MagicRestored, Flags
  <2>2. Values'
    BY <1>1 DEF MagicRestored, Control, Values
  <2>3. BytesAccounted' /\ MixtureNotBootable'
    BY <1>1 DEF MagicRestored, Control, Values, BytesAccounted, MixtureNotBootable
  <2>4. Control'
    BY <1>1 DEF MagicRestored, Control, Values
  <2>5. HeaderAccounted' /\ HeaderPassed'
    BY <1>1 DEF MagicRestored, Control, Values, HeaderAccounted, HeaderPassed
  <2>6. OkMeansActivated' /\ Answers'
    BY <1>1 DEF MagicRestored, OkMeansActivated, Answers
  <2> QED
    BY <2>1, <2>2, <2>3, <2>4, <2>5, <2>6, TypeParts DEF IInv
<1>2. ASSUME ActivateFails PROVE IInv'
  <2>1. Flags'
    BY <1>2 DEF ActivateFails, Reset, Flags
  <2>2. Values'
    BY <1>2 DEF ActivateFails, Reset, Control, Values
  <2>3. BytesAccounted' /\ MixtureNotBootable'
    BY <1>2 DEF ActivateFails, Reset, Control, Values, BytesAccounted, MixtureNotBootable
  <2>4. Control'
    BY <1>2 DEF ActivateFails, Reset, Control, Values
  <2>5. HeaderAccounted' /\ HeaderPassed'
    BY <1>2 DEF ActivateFails, Reset, Control, Values, HeaderAccounted, HeaderPassed
  <2>6. OkMeansActivated' /\ Answers'
    BY <1>2 DEF ActivateFails, Reset, OkMeansActivated, Answers
  <2> QED
    BY <2>1, <2>2, <2>3, <2>4, <2>5, <2>6, TypeParts DEF IInv
<1>3. ASSUME BootSelected PROVE IInv'
  <2>1. Flags'
    BY <1>3 DEF BootSelected, Reset, Flags
  <2>2. Values'
    BY <1>3 DEF BootSelected, Reset, Control, Values
  <2>3. BytesAccounted' /\ MixtureNotBootable'
    BY <1>3 DEF BootSelected, Reset, Control, Values, BytesAccounted, MixtureNotBootable
  <2>4. Control'
    BY <1>3 DEF BootSelected, Reset, Control, Values
  <2>5. HeaderAccounted' /\ HeaderPassed'
    BY <1>3 DEF BootSelected, Reset, Control, Values, HeaderAccounted, HeaderPassed
  <2>6. OkMeansActivated' /\ Answers'
    BY <1>3 DEF BootSelected, Reset, OkMeansActivated, Answers
  <2> QED
    BY <2>1, <2>2, <2>3, <2>4, <2>5, <2>6, TypeParts DEF IInv
<1>4. ASSUME Answer PROVE IInv'
  <2>1. Flags'
    BY <1>4 DEF Answer, Flags
  <2>2. Values'
    BY <1>4 DEF Answer, Control, Values
  <2>3. BytesAccounted' /\ MixtureNotBootable'
    BY <1>4 DEF Answer, Control, Values, BytesAccounted, MixtureNotBootable
  <2>4. Control'
    BY <1>4 DEF Answer, Control, Values
  <2>5. HeaderAccounted' /\ HeaderPassed'
    BY <1>4 DEF Answer, Control, Values, HeaderAccounted, HeaderPassed
  <2>6. OkMeansActivated' /\ Answers'
    BY <1>4 DEF Answer, OkMeansActivated, Answers
  <2> QED
    BY <2>1, <2>2, <2>3, <2>4, <2>5, <2>6, TypeParts DEF IInv
<1> QED
  BY <1>1, <1>2, <1>3, <1>4

LEMMA BootPreserves == IInv /\ (UploadTimeout \/ Boot) => IInv'
<1> SUFFICES ASSUME IInv, (UploadTimeout \/ Boot) PROVE IInv'
  OBVIOUS
<1>a. Flags /\ Values /\ BytesAccounted /\ MixtureNotBootable /\ Control /\ HeaderAccounted
        /\ HeaderPassed /\ OkMeansActivated /\ Answers
  BY TypeParts DEF IInv
<1> USE <1>a DEF httpVars, updVars, headVars, flash
<1>1. ASSUME UploadTimeout PROVE IInv'
  <2>1. Flags'
    BY <1>1 DEF UploadTimeout, Flags
  <2>2. Values'
    BY <1>1 DEF UploadTimeout, Control, Values
  <2>3. BytesAccounted' /\ MixtureNotBootable'
    BY <1>1 DEF UploadTimeout, Control, Values, BytesAccounted, MixtureNotBootable
  <2>4. Control'
    BY <1>1 DEF UploadTimeout, Control, Values
  <2>5. HeaderAccounted' /\ HeaderPassed'
    BY <1>1 DEF UploadTimeout, Control, Values, HeaderAccounted, HeaderPassed
  <2>6. OkMeansActivated' /\ Answers'
    BY <1>1 DEF UploadTimeout, OkMeansActivated, Answers
  <2> QED
    BY <2>1, <2>2, <2>3, <2>4, <2>5, <2>6, TypeParts DEF IInv
<1>2. ASSUME Boot PROVE IInv'
  <2>1. Flags'
    BY <1>2 DEF Boot, Reset, Complete, Stages, Flags
  <2>2. Values'
    <3>1. partition' \in [old : BOOLEAN, new : Nat, magic : BOOLEAN]
      <4>1. partition.old \in BOOLEAN /\ partition.magic \in BOOLEAN
        BY DEF Values
      <4>2. CASE boot = "other"
        BY <1>2, <4>2 DEF Boot
      <4>3. CASE boot # "other"
        BY <1>2, <4>1, <4>3 DEF Boot, Complete, Values
      <4> QED
        BY <4>2, <4>3
    <3>2. image.size \in Nat
      BY DEF Values
    <3> QED
      BY <1>2, <3>1, <3>2 DEF Boot, Reset, Stages, Values
  <2>3. BytesAccounted' /\ MixtureNotBootable'
    BY <1>2 DEF Boot, Reset, Complete, Stages, Values, BytesAccounted, MixtureNotBootable
  <2>4. Control'
    BY <1>2 DEF Boot, Reset, Complete, Stages, Values, Control
  <2>5. HeaderAccounted' /\ HeaderPassed'
    BY <1>2 DEF Boot, Reset, Complete, Stages, Values, HeaderAccounted, HeaderPassed
  <2>6. OkMeansActivated' /\ Answers'
    BY <1>2 DEF Boot, Reset, Complete, Stages, OkMeansActivated, Answers
  <2> QED
    BY <2>1, <2>2, <2>3, <2>4, <2>5, <2>6, TypeParts DEF IInv
<1> QED
  BY <1>1, <1>2

-----------------------------------------------------------------------------
LEMMA StepInvariant == IInv /\ [Next]_vars => IInv'
<1> SUFFICES ASSUME IInv, [Next]_vars PROVE IInv'
  OBVIOUS
<1>1. CASE UploadStart
  BY <1>1, StartPreserves
<1>2. CASE WebServer
  BY <1>2, WebServerPreserves
<1>3. CASE LoopTask
  <2>1. CASE WritePass \/ Header
    BY <2>1, HeaderPreserves
  <2>2. CASE SectorErased \/ EraseFails \/ SectorWritten \/ SectorFails
    BY <2>2, FlashPreserves
  <2>3. CASE MagicRestored \/ ActivateFails \/ BootSelected \/ Answer
    BY <2>3, ActivationPreserves
  <2>4. CASE UploadTimeout \/ Restart
    BY <2>4, BootPreserves DEF Restart
  <2> QED
    BY <1>3, <2>1, <2>2, <2>3, <2>4 DEF LoopTask, WriteBuffer
<1>4. CASE PowerLoss
  BY <1>4, BootPreserves DEF PowerLoss
<1>5. CASE UNCHANGED vars
  <2>1. TypeOK' /\ Control'
    BY <1>5 DEF vars, httpVars, updVars, headVars, flash, IInv, TypeOK, Control
  <2>2. BytesAccounted' /\ MixtureNotBootable' /\ OkMeansActivated'
    BY <1>5 DEF vars, httpVars, updVars, headVars, flash, IInv, BytesAccounted,
       MixtureNotBootable, OkMeansActivated
  <2>3. HeaderAccounted' /\ HeaderPassed' /\ Answers'
    BY <1>5 DEF vars, httpVars, updVars, headVars, flash, IInv, HeaderAccounted,
       HeaderPassed, Answers
  <2> QED
    BY <2>1, <2>2, <2>3 DEF IInv
<1> QED
  BY <1>1, <1>2, <1>3, <1>4, <1>5 DEF Next

LEMMA Invariant == Spec => []IInv
BY InitInvariant, StepInvariant, PTL DEF Spec

(***************************************************************************)
(* The variables of an upload have their types; no pass of write() fills   *)
(* the buffer beyond its sector.                                           *)
(***************************************************************************)
THEOREM TypeCorrect == Spec => []TypeOK
BY Invariant, PTL DEF IInv

(***************************************************************************)
(* Every byte that was received is in the buffer, in the header or on the  *)
(* flash, exactly once.                                                    *)
(***************************************************************************)
THEOREM BytesCorrect == Spec => []BytesAccounted
BY Invariant, PTL DEF IInv

(***************************************************************************)
(* A power loss during the writes leaves no bootable mixture of two        *)
(* firmwares.                                                              *)
(***************************************************************************)
THEOREM PowerLossSafe == Spec => []MixtureNotBootable
BY Invariant, PTL DEF IInv

(***************************************************************************)
(* The client is told "OK" only when the other partition will be booted.   *)
(***************************************************************************)
THEOREM OkCorrect == Spec => []OkMeansActivated
BY Invariant, PTL DEF IInv

(***************************************************************************)
(* An image that a stage of the processors rejects does not touch the      *)
(* firmware on the second partition, in whatever state an earlier upload   *)
(* has left them.                                                          *)
(***************************************************************************)
THEOREM RejectedSafe == Spec => RejectedKeepsFirmware
<1>1. IInv /\ [Next]_vars =>
        (image.rejectedAt # "never" => (partition.old => partition'.old))
  <2> SUFFICES ASSUME IInv, [Next]_vars, image.rejectedAt # "never", partition.old
               PROVE  partition'.old
    OBVIOUS
  <2>1. ~postHeader
    BY DEF IInv, HeaderPassed
  <2>2. pc # "program"
    BY <2>1 DEF IInv, HeaderPassed
  <2>3. CASE partition' = partition
    BY <2>3
  <2>4. CASE UploadStart
    BY <2>4 DEF UploadStart
  <2>5. CASE MagicRestored
    BY <2>5 DEF MagicRestored, IInv, TypeOK
  <2>6. CASE Boot
    BY <2>6 DEF Boot, IInv, TypeOK
  <2>7. CASE WebServer
    BY <2>3, <2>7 DEF WebServer, UploadWrite, UploadEnd, UploadAborted, FormFails, flash
  <2>8. CASE Header
    BY <2>3, <2>8 DEF Header, TooShort, HeaderLine, Signature, MagicByte, SignatureOnFullBuffer, HeaderRejected, flash
  <2>9. CASE UploadTimeout \/ WritePass \/ ActivateFails \/ BootSelected \/ Answer \/ UNCHANGED vars
    BY <2>3, <2>9 DEF UploadTimeout, WritePass, ActivateFails, BootSelected, Answer, vars, flash
  <2> QED
    BY <2>1, <2>2, <2>4, <2>5, <2>6, <2>7, <2>8, <2>9
       DEF Next, LoopTask, WriteBuffer, Restart, PowerLoss, SectorErased, EraseFails,
           SectorWritten, SectorFails
<1> QED
  BY <1>1, Invariant, PTL DEF Spec, RejectedKeepsFirmware

-----------------------------------------------------------------------------
(***************************************************************************)
(* An upload implements Firmware.  IInv lacks what ties the selection of a *)
(* partition to the place in the code: only a partition with its magic     *)
(* byte is selected, and after that nothing but the answer follows.        *)
(***************************************************************************)
Selection ==
  /\ pc = "select" => partition.magic
  /\ boot = "other" => pc \in {"answer", "restart"}

RInv == IInv /\ Selection

LEMMA SelectionInvariant == Spec => []RInv
<1>1. Init => Selection
  BY DEF Init, Selection
<1>2. ASSUME IInv, Selection, [Next]_vars PROVE Selection'
  <2> USE <1>2 DEF IInv, Selection, flash
  <2>1. CASE UploadStart
    BY <2>1 DEF UploadStart
  <2>2. CASE WebServer
    BY <2>2 DEF WebServer, UploadWrite, UploadEnd, UploadAborted, FormFails
  <2>3. CASE UploadTimeout \/ WritePass
    BY <2>3 DEF UploadTimeout, WritePass
  <2>4. CASE Header
    BY <2>4 DEF Header, TooShort, HeaderLine, Signature, MagicByte, SignatureOnFullBuffer, HeaderRejected,
       HeaderPass, Consumed, BufferDone, BufferFails
  <2>5. CASE SectorErased \/ EraseFails
    BY <2>5 DEF SectorErased, EraseFails, BufferFails
  <2>6. CASE SectorWritten \/ SectorFails
    BY <2>6 DEF SectorWritten, SectorFails, BufferDone, BufferFails
  <2>7. CASE MagicRestored
    BY <2>7 DEF MagicRestored, TypeOK
  <2>8. CASE ActivateFails \/ BootSelected \/ Answer
    BY <2>8 DEF ActivateFails, BootSelected, Answer
  <2>9. CASE Boot
    BY <2>9 DEF Boot
  <2>10. CASE UNCHANGED vars
    BY <2>10 DEF vars
  <2> QED
    BY <2>1, <2>2, <2>3, <2>4, <2>5, <2>6, <2>7, <2>8, <2>9, <2>10
       DEF Next, LoopTask, WriteBuffer, Restart, PowerLoss
<1>3. RInv /\ [Next]_vars => Selection'
  BY <1>2 DEF RInv
<1> QED
  BY <1>1, <1>3, Invariant, PTL DEF Spec, RInv

(* What a partition is for Firmware depends on three facts about it. *)
LEMMA SpareCases ==
  ASSUME partition.magic \in BOOLEAN
  PROVE  /\ ~partition.magic => Spare = "unbootable"
         /\ partition.magic /\ (partition.old \/ Complete) => Spare = "firmware"
         /\ partition.magic /\ ~(partition.old \/ Complete) => Spare = "mixture"
BY DEF Spare

LEMMA SpareCasesNext ==
  ASSUME partition'.magic \in BOOLEAN
  PROVE  /\ ~partition'.magic => Spare' = "unbootable"
         /\ partition'.magic /\ (partition'.old \/ Complete') => Spare' = "firmware"
         /\ partition'.magic /\ ~(partition'.old \/ Complete') => Spare' = "mixture"
BY DEF Spare

(* A partition keeps what it is while only the counting starts again. *)
LEMMA SpareKept ==
  ASSUME TypeOK,
         partition' = [old |-> partition.old \/ Complete, new |-> 0, magic |-> partition.magic]
  PROVE  Spare' = Spare
<1>1. ~Complete'
  BY DEF Complete
<1>2. partition.magic \in BOOLEAN /\ partition.old \in BOOLEAN
  BY DEF TypeOK
<1> QED
  BY <1>1, <1>2, SpareCases, SpareCasesNext

LEMMA SpareSame ==
  ASSUME UNCHANGED <<partition, image>>
  PROVE  Spare' = Spare
BY DEF Spare, Complete, Payload

LEMMA InitImplements == Init => Promise!Init
<1> SUFFICES ASSUME Init PROVE Promise!Init
  OBVIOUS
<1>1. ~Complete
  BY DEF Init, Complete
<1>2. Spare \in {"firmware", "unbootable"}
  BY <1>1, SpareCases DEF Init
<1>3. Phase = "idle"
  BY DEF Init, Phase
<1> QED
  BY <1>2, <1>3 DEF Init, Promise!Init

(* The steps between the first and the last byte of an upload. *)
LEMMA ReceiveImplements ==
  ASSUME RInv, WebServer \/ WritePass \/ WriteBuffer
  PROVE  Promise!Receive
<1> USE DEF flash
<1>1. pc \in {"upload", "write", "buffer", "program"}
  BY DEF WebServer, UploadWrite, UploadEnd, UploadAborted, FormFails, WritePass, WriteBuffer,
     Header, TooShort, HeaderLine, Signature, MagicByte, SignatureOnFullBuffer, HeaderRejected, HeaderPass,
     SectorErased, EraseFails, SectorWritten, SectorFails
<1>2. pc' \in {"idle", "upload", "write", "buffer", "program", "activate", "answer", "restart"}
  BY <1>1 DEF WebServer, UploadWrite, UploadEnd, UploadAborted, FormFails, WritePass, WriteBuffer,
     Header, TooShort, HeaderLine, Signature, MagicByte, SignatureOnFullBuffer, HeaderRejected, HeaderPass,
     SectorErased, EraseFails, SectorWritten, SectorFails, Consumed, BufferDone, BufferFails
<1>3. answer' \in {answer, "fail"}
  BY DEF WebServer, UploadWrite, UploadEnd, UploadAborted, FormFails, WritePass, WriteBuffer,
     Header, TooShort, HeaderLine, Signature, MagicByte, SignatureOnFullBuffer, HeaderRejected, HeaderPass, httpVars,
     SectorErased, EraseFails, SectorWritten, SectorFails, Consumed, BufferDone, BufferFails
<1>4. UNCHANGED <<image, boot>>
  BY DEF WebServer, UploadWrite, UploadEnd, UploadAborted, FormFails, WritePass, WriteBuffer,
     Header, TooShort, HeaderLine, Signature, MagicByte, SignatureOnFullBuffer, HeaderRejected, httpVars,
     SectorErased, EraseFails, SectorWritten, SectorFails
<1>5. Spare' = Spare \/ (image.rejectedAt = "never" /\ Spare' = "unbootable")
  <2>0. partition \in [old : BOOLEAN, new : Nat, magic : BOOLEAN]
    BY DEF RInv, IInv, TypeOK
  <2>1. CASE WebServer \/ WritePass \/ Header \/ SectorFails
    <3>1. partition' = partition
      BY <2>1 DEF WebServer, UploadWrite, UploadEnd, UploadAborted, FormFails, WritePass,
         Header, TooShort, HeaderLine, Signature, MagicByte, SignatureOnFullBuffer, HeaderRejected, SectorFails
    <3> QED
      BY <3>1, <1>4, SpareSame
  <2>2. CASE SectorErased \/ EraseFails
    <3>1. image.rejectedAt = "never" /\ running /\ pc = "buffer"
      BY <2>2 DEF SectorErased, EraseFails, RInv, IInv, HeaderPassed, Control
    <3>2. CASE partition' = partition
      BY <3>2, <1>4, SpareSame
    <3>3. CASE partition' = Erased(partition)
      <4>1. partition'.magic = FALSE
        BY <2>0, <3>1, <3>3 DEF Erased, RInv, IInv, TypeOK, MixtureNotBootable
      <4> QED
        BY <3>1, <4>1, SpareCasesNext
    <3> QED
      BY <2>2, <3>2, <3>3 DEF SectorErased, EraseFails
  <2>3. CASE SectorWritten
    <3>1. partition.magic = FALSE /\ partition'.magic = FALSE
      BY <2>0, <2>3 DEF SectorWritten, RInv, IInv, MixtureNotBootable
    <3> QED
      BY <3>1, SpareCases, SpareCasesNext
  <2> QED
    BY <2>1, <2>2, <2>3 DEF WriteBuffer
<1>6. Phase = "upload" /\ Phase' \in {"idle", "upload", "over"}
  <2>1. Phase = "upload"
    BY <1>1 DEF Phase
  <2>2. Phase' \in {"idle", "upload", "over"}
    BY <1>2 DEF Phase
  <2> QED
    BY <2>1, <2>2
<1> QED
  BY <1>3, <1>4, <1>5, <1>6 DEF Promise!Receive, Promise!Fails

(* The steps after it. *)
LEMMA ActivationImplements ==
  ASSUME RInv, MagicRestored \/ ActivateFails \/ BootSelected \/ Answer
  PROVE  [Promise!Next]_Promise!vars
<1> USE DEF flash
<1>1. Phase = "over" /\ Phase' = "over"
  <2>1. pc \in {"activate", "select", "answer"} /\ pc' \in {"select", "answer", "restart"}
    BY DEF MagicRestored, ActivateFails, BootSelected, Answer
  <2> QED
    BY <2>1 DEF Phase
<1>2. /\ UNCHANGED image
      /\ partition \in [old : BOOLEAN, new : Nat, magic : BOOLEAN]
      /\ boot \in {"running", "other"}
  BY DEF MagicRestored, ActivateFails, BootSelected, Answer, httpVars, RInv, IInv, TypeOK
<1>3. CASE MagicRestored
  <2>1. boot = "running" /\ UNCHANGED <<boot, answer>>
    BY <1>2, <1>3 DEF MagicRestored, RInv, Selection, httpVars
  <2>2. partition' = [partition EXCEPT !.magic = TRUE] /\ partition'.magic
    BY <1>2, <1>3 DEF MagicRestored
  <2>3. CASE partition.magic
    <3>1. partition' = partition
      BY <1>2, <2>2, <2>3
    <3>2. Spare' = Spare
      BY <1>2, <3>1, SpareSame
    <3> QED
      BY <1>1, <1>2, <2>1, <3>2 DEF Promise!vars
  <2>4. CASE ~partition.magic
    <3>1. Spare = "unbootable"
      BY <1>2, <2>4, SpareCases
    <3>2. Spare' \in {"firmware", "mixture"}
      BY <2>2, SpareCasesNext
    <3> QED
      BY <1>1, <1>2, <2>1, <3>1, <3>2 DEF Promise!Next, Promise!Activate
  <2> QED
    BY <1>2, <2>3, <2>4
<1>4. CASE ActivateFails
  <2>1. UNCHANGED <<partition, boot, answer>>
    BY <1>4 DEF ActivateFails, httpVars
  <2> QED
    BY <1>1, <1>2, <2>1, SpareSame DEF Promise!vars
<1>5. CASE BootSelected
  <2>1. partition.magic /\ (partition.old \/ Complete) /\ UNCHANGED <<partition, answer>>
    BY <1>5 DEF BootSelected, RInv, Selection, httpVars
  <2>2. Spare = "firmware" /\ Spare' = Spare
    BY <1>2, <2>1, SpareCases, SpareSame
  <2> QED
    BY <1>1, <1>2, <1>5, <2>1, <2>2 DEF BootSelected, Promise!Next, Promise!Select
<1>6. CASE Answer
  <2>1. UNCHANGED <<partition, boot>>
    BY <1>6 DEF Answer
  <2>2. Spare' = Spare
    BY <1>2, <2>1, SpareSame
  <2>3. answer' = "fail" \/ (answer' = "ok" /\ boot = "other")
    BY <1>6 DEF Answer, RInv, IInv, Answers
  <2> QED
    BY <1>1, <1>2, <2>1, <2>2, <2>3 DEF Promise!Next, Promise!Tell
<1> QED
  BY <1>3, <1>4, <1>5, <1>6

LEMMA BootImplements ==
  ASSUME RInv, Boot
  PROVE  Promise!Reboot
<1>1. /\ partition \in [old : BOOLEAN, new : Nat, magic : BOOLEAN]
      /\ boot \in {"running", "other"}
  BY DEF RInv, IInv, TypeOK
<1>2. Spare' = IF boot = "other" THEN "firmware" ELSE Spare
  <2>1. CASE boot = "other"
    <3>1. partition'.old /\ partition'.magic
      BY <2>1 DEF Boot
    <3> QED
      BY <2>1, <3>1, SpareCasesNext
  <2>2. CASE boot # "other"
    <3>1. partition' = [old |-> partition.old \/ Complete, new |-> 0, magic |-> partition.magic]
      BY <1>1, <2>2 DEF Boot
    <3> QED
      BY <2>2, <3>1, SpareKept DEF RInv, IInv
  <2> QED
    BY <2>1, <2>2
<1>3. Phase' = "idle"
  BY DEF Boot, Phase
<1> QED
  BY <1>2, <1>3 DEF Boot, Promise!Reboot

(***************************************************************************)
(* For every size of the sector, the header, the chunks and the uploads,   *)
(* and with a power loss anywhere, the handlers keep what Firmware         *)
(* promises of an update.                                                  *)
(***************************************************************************)
THEOREM UpdatesImplementFirmware == Spec => ImplementsFirmware
<1>1. ASSUME RInv, [Next]_vars PROVE [Promise!Next]_Promise!vars
  <2> USE <1>1
  <2>1. CASE UploadStart
    <3>1. Spare' = Spare
      BY <2>1, SpareKept DEF UploadStart, RInv, IInv
    <3>2. Phase = "idle" /\ Phase' = "upload"
      BY <2>1 DEF UploadStart, Phase
    <3>3. boot = "running" /\ boot' = boot
      BY <2>1 DEF UploadStart, RInv, IInv, TypeOK, Selection
    <3>4. answer' \in {answer, "fail"}
      BY <2>1 DEF UploadStart, Begin, Refuse
    <3> QED
      BY <3>1, <3>2, <3>3, <3>4 DEF Promise!Next, Promise!Offer, Promise!Fails
  <2>2. CASE WebServer \/ WritePass \/ WriteBuffer
    BY <2>2, ReceiveImplements DEF Promise!Next
  <2>3. CASE MagicRestored \/ ActivateFails \/ BootSelected \/ Answer
    BY <2>3, ActivationImplements
  <2>4. CASE UploadTimeout
    <3>1. UNCHANGED <<image, partition, boot, answer>>
      BY <2>4 DEF UploadTimeout, httpVars, flash
    <3>2. Phase = "idle" /\ Phase' = "over"
      BY <2>4 DEF UploadTimeout, Phase
    <3> QED
      BY <3>1, <3>2, SpareSame DEF Promise!Next, Promise!TimeOut
  <2>5. CASE Restart \/ PowerLoss
    BY <2>5, BootImplements DEF Restart, PowerLoss, Promise!Next
  <2>6. CASE UNCHANGED vars
    <3>1. UNCHANGED <<pc, image, partition, boot, answer>>
      BY <2>6 DEF vars, httpVars, flash
    <3>2. Phase' = Phase
      BY <3>1 DEF Phase
    <3> QED
      BY <3>1, <3>2, SpareSame DEF Promise!vars
  <2> QED
    BY <2>1, <2>2, <2>3, <2>4, <2>5, <2>6 DEF Next, LoopTask
<1>2. RInv /\ [Next]_vars => [Promise!Next]_Promise!vars
  BY <1>1
<1> QED
  BY <1>2, InitImplements, SelectionInvariant, PTL DEF Spec, ImplementsFirmware, Promise!Spec
=============================================================================
