------------------------------ MODULE OtaUpdate ------------------------------
(***************************************************************************)
(* A firmware upload: the handlers of lib/service_ota/service_ota.cpp, the *)
(* UpdateClassEx of lib/Update and the chain of processors that checks the *)
(* head of the image.                                                      *)
(*                                                                         *)
(* All of it runs in the Arduino loop task, inside one call of             *)
(* handleClient() as long as the client keeps sending.  One action is what *)
(* happens between two effects that a power loss can separate: a callback  *)
(* of the web server, a pass of write(), a header pass of _writeBuffer(),  *)
(* the erasure and the programming of a flash sector.                      *)
(*                                                                         *)
(* An image is a header line, a signature blob and the payload, counted in *)
(* units of data.  What the processors remember survives an upload: their  *)
(* reset() does nothing or is not called.  An image that meets them in the *)
(* middle of a header need not have what they have already seen.           *)
(* process_payload() and process_end() of DeviceCheckProcessor return OK   *)
(* whatever they are given, and nobody calls those of the RFC 3161 one.    *)
(***************************************************************************)
EXTENDS Naturals

CONSTANTS
  Sector,      \* SPI_FLASH_SEC_SIZE, the size of _buffer
  Line, Blob,  \* header line, RFC 3161 blob
  MinHeader,   \* kMaxHeaderLength: less than that is not looked at
  MaxChunk,    \* the most data in one UPLOAD_FILE_WRITE
  Space,       \* _size of a running update: max_sketch_size(), a sector less
               \* than the partition
  Sizes        \* of uploads

ASSUME SizesAssumption ==
  /\ {Sector, Line, Blob, MinHeader, MaxChunk, Space} \subseteq Nat \ {0}
  /\ Line <= MinHeader /\ MinHeader < Sector /\ MaxChunk < Sector
  /\ Sector < Space
  /\ Sizes \subseteq Nat \ {0}

VARIABLES
  pc,             \* where the loop task is in the upload
  ending,         \* _writeBuffer() was called by end()
  image,          \* the upload: its size, what of it is header, and the stage
                  \* that will reject it
  sent,           \* what the client has sent of it
  chunk,          \* what write() has not yet copied of it
  armed,          \* m_uploadTimeout # 0
  error, running, progress, bufferLen, postHeader,   \* _error, _size > 0, ...
  progressFlash,
  stage, blobAt,  \* m_headerProcessed and _state; _rfc3161_at
  partition,      \* the partition that does not run
  boot,           \* which partition the dock will boot
  answer          \* the last response of the web server

httpVars == <<image, sent, chunk, armed, answer>>
updVars  == <<error, running, progress, bufferLen, postHeader, progressFlash>>
headVars == <<stage, blobAt>>
flash    == <<partition, boot>>
vars == <<pc, ending, httpVars, updVars, headVars, flash>>

\* DEVICE: the header line is not checked; then _state says what is next.
Stages == {"DEVICE", "INIT", "RFC", "POST"}
Images == [size : Sizes, head : 0 .. Line + Blob, rejectedAt : Stages \cup {"never"}]

Payload == IF image.size > image.head THEN image.size - image.head ELSE 0

\* The image written last is all there.
Complete == Payload > 0 /\ partition.new = Payload

(* The dock starts with an empty or a complete second partition. *)
Init ==
  /\ pc = "idle" /\ ending = FALSE
  /\ image \in Images /\ image.head = Line + Blob
  /\ sent = 0 /\ chunk = 0 /\ armed = FALSE
  /\ error = FALSE /\ running = FALSE /\ progress = 0 /\ bufferLen = 0
  /\ postHeader = FALSE /\ progressFlash = 0
  /\ stage = "DEVICE" /\ blobAt = 0
  /\ \E b \in BOOLEAN : partition = [old |-> b, new |-> 0, magic |-> b]
  /\ boot = "running"
  /\ answer = "none"

(* _reset(); the reset() of DeviceCheckProcessor does nothing. *)
Reset(err) ==
  /\ error' = err
  /\ running' = FALSE /\ progress' = 0 /\ bufferLen' = 0
  /\ postHeader' = FALSE /\ progressFlash' = 0

-----------------------------------------------------------------------------
(* The callbacks of the web server.                                        *)

(* What an image has to offer to the processors as they are.  An upload    *)
(* can be made for any of it.                                              *)
Head ==
  CASE stage \in {"DEVICE", "INIT"} -> Line + Blob
    [] stage = "RFC"  -> Blob - blobAt
    [] stage = "POST" -> 0

Ahead ==
  CASE stage = "DEVICE" -> Stages
    [] stage = "INIT"   -> Stages \ {"DEVICE"}
    [] stage = "RFC"    -> {"RFC", "POST"}
    [] stage = "POST"   -> {"POST"}

Offered ==
  {i \in Images : i.head = Head /\ i.rejectedAt \in Ahead \cup {"never"}}

(* Mutant: the upload timeout is not started. *)
BeginUnarmed ==
  /\ ~running
  /\ error' = FALSE
  /\ running' = TRUE /\ progress' = 0 /\ bufferLen' = 0
  /\ postHeader' = FALSE /\ progressFlash' = 0
  /\ UNCHANGED <<armed, answer>>

(* UPLOAD_FILE_START, accepted: begin(max_sketch_size()). *)
Begin ==
  /\ ~running
  /\ error' = FALSE
  /\ running' = TRUE /\ progress' = 0 /\ bufferLen' = 0
  /\ postHeader' = FALSE /\ progressFlash' = 0
  /\ armed' = TRUE
  /\ UNCHANGED answer

(* No or too much content, no memory, or "already running". *)
Refuse ==
  /\ Reset(TRUE)
  /\ answer' = "fail"
  /\ UNCHANGED armed

UploadStart ==
  /\ pc = "idle"
  /\ Begin \/ Refuse
  /\ image' \in Offered
  /\ pc' = "upload" /\ sent' = 0
  /\ partition' = [old   |-> partition.old \/ Complete,
                   new   |-> 0,
                   magic |-> partition.magic]
  /\ UNCHANGED <<ending, chunk, headVars, boot>>

(* remaining() is _size - _progress, unsigned: it is huge once the last    *)
(* buffer has taken _progress beyond _size.                                *)
Overfills(n) == progress <= Space /\ n > Space - progress
FillsUp(n)   == progress <= Space /\ n = Space - progress

(* UPLOAD_FILE_WRITE; ignored after an error.  "Overfill" aborts. *)
UploadWrite ==
  /\ pc = "upload"
  /\ \E n \in 1 .. MaxChunk :
       /\ sent + n <= image.size
       /\ sent' = sent + n
       /\ \/ error /\ UNCHANGED <<pc, chunk, updVars, answer>>
          \/ /\ ~error /\ Overfills(n)
             /\ Reset(TRUE) /\ answer' = "fail"
             /\ pc' = "restart" /\ UNCHANGED chunk
          \/ /\ ~error /\ ~Overfills(n)
             /\ pc' = "write" /\ chunk' = n
             /\ UNCHANGED <<updVars, answer>>
  /\ UNCHANGED <<ending, image, armed, headVars, flash>>

(* UPLOAD_FILE_END: end(true) *)
UploadEnd ==
  /\ pc = "upload"
  /\ sent = image.size
  /\ armed' = FALSE
  /\ IF error \/ ~running
       THEN Reset(TRUE) /\ pc' = "answer" /\ UNCHANGED ending
       ELSE /\ ending' = (bufferLen > 0)
            /\ pc' = IF bufferLen > 0 THEN "buffer" ELSE "activate"
            /\ UNCHANGED updVars
  /\ UNCHANGED <<image, sent, chunk, answer, headVars, flash>>

(* UPLOAD_FILE_ABORTED *)
UploadAborted ==
  /\ pc = "upload"
  /\ IF error THEN UNCHANGED updVars ELSE Reset(TRUE)
  /\ answer' = "fail"
  /\ pc' = "restart"
  /\ UNCHANGED <<ending, image, sent, chunk, armed, headVars, flash>>

(* The web server gives up on a malformed form without a callback. *)
FormFails ==
  /\ pc = "upload"
  /\ pc' = "idle"
  /\ UNCHANGED <<ending, httpVars, updVars, headVars, flash>>

(* loop(): "File upload timeout due to no data received: Rebooting" *)
UploadTimeout ==
  /\ pc = "idle" /\ armed
  /\ pc' = "restart"
  /\ UNCHANGED <<ending, httpVars, updVars, headVars, flash>>

-----------------------------------------------------------------------------
(* write() and _writeBuffer().                                             *)

(* Mutant: the chunk is not cut at the end of the buffer. *)
WritePassOverruns ==
  /\ pc = "write"
  /\ bufferLen' = bufferLen + chunk
  /\ chunk' = 0
  /\ IF bufferLen' >= Sector \/ FillsUp(bufferLen')
       THEN pc' = "buffer" /\ UNCHANGED armed
       ELSE pc' = "upload" /\ armed' = TRUE
  /\ UNCHANGED <<ending, image, sent, answer, error, running, progress, postHeader, progressFlash, headVars, flash>>

(* A pass of write(): copy what fits, look at a full buffer, or one that   *)
(* fills the space.                                                        *)
WritePass ==
  /\ pc = "write"
  /\ LET room == Sector - bufferLen
         n    == IF chunk < room THEN chunk ELSE room
     IN /\ bufferLen' = bufferLen + n
        /\ chunk' = chunk - n
        /\ IF n = room \/ FillsUp(bufferLen')
             THEN pc' = "buffer" /\ UNCHANGED armed
             ELSE pc' = "upload" /\ armed' = TRUE
  /\ UNCHANGED <<ending, image, sent, answer, error, running, progress, postHeader, progressFlash, headVars, flash>>

(* _writeBuffer() returns true, to write() or to end(). *)
BufferDone ==
  /\ ending' = FALSE
  /\ pc' = IF ending THEN "activate" ELSE IF chunk > 0 THEN "write" ELSE "upload"
  /\ armed' = (armed \/ (~ending /\ chunk = 0))
  /\ UNCHANGED answer

(* It aborts the update and returns false.  end() does not look, nor does  *)
(* the handler when the whole chunk had been copied.                       *)
BufferFails ==
  /\ Reset(TRUE)
  /\ ending' = FALSE
  /\ pc' = IF ending THEN "activate" ELSE IF chunk > 0 THEN "restart" ELSE "upload"
  /\ answer' = IF ~ending /\ chunk > 0 THEN "fail" ELSE answer
  /\ armed' = (armed \/ (~ending /\ chunk = 0))

HeaderPass == pc = "buffer" /\ ~postHeader

(* Data of the header was used up: more is needed (AGAIN). *)
Consumed(n) ==
  /\ bufferLen' = bufferLen - n
  /\ progress' = progress + n
  /\ BufferDone
  /\ UNCHANGED <<error, running, postHeader, progressFlash>>

TooShort ==
  /\ HeaderPass
  /\ stage \in {"DEVICE", "INIT"} /\ bufferLen < MinHeader
  /\ Consumed(0)
  /\ UNCHANGED <<image, sent, chunk, headVars, flash>>

(* DeviceCheckProcessor hands a line it accepts to the other processor in  *)
(* the same call, and looks at no line after that.                         *)
HeaderLine ==
  /\ HeaderPass
  /\ stage \in {"DEVICE", "INIT"} /\ bufferLen >= MinHeader
  /\ image.rejectedAt \notin {"DEVICE", "INIT"}
  /\ stage' = "RFC" /\ blobAt' = 0
  /\ Consumed(Line)
  /\ UNCHANGED <<image, sent, chunk, flash>>

Signature ==
  /\ HeaderPass
  /\ stage = "RFC"
  /\ LET rest == Blob - blobAt
         n    == IF bufferLen < rest THEN bufferLen ELSE rest
     IN /\ n < rest \/ image.rejectedAt # "RFC"
        /\ bufferLen - n < Sector
        /\ blobAt' = blobAt + n
        /\ stage' = IF n = rest THEN "POST" ELSE "RFC"
        /\ Consumed(n)
  /\ UNCHANGED <<image, sent, chunk, flash>>

(* A signature that failed for want of memory is verified now, but AGAIN   *)
(* with a full buffer is an error.                                         *)
SignatureOnFullBuffer ==
  /\ HeaderPass
  /\ stage = "RFC" /\ blobAt = Blob /\ bufferLen = Sector
  /\ image.rejectedAt # "RFC"
  /\ stage' = "POST"
  /\ BufferFails
  /\ UNCHANGED <<image, sent, chunk, blobAt, flash>>

(* Mutant: the pass that finds the end of the header takes the buffer. *)
MagicByteDrops ==
  /\ HeaderPass
  /\ stage = "POST"
  /\ image.rejectedAt # "POST"
  /\ postHeader' = TRUE
  /\ bufferLen' = 0
  /\ BufferDone
  /\ UNCHANGED <<error, running, progress, progressFlash, image, sent, chunk, headVars, flash>>

(* The payload begins with the magic byte of an ESP image. *)
MagicByte ==
  /\ HeaderPass
  /\ stage = "POST"
  /\ image.rejectedAt # "POST"
  /\ postHeader' = TRUE
  /\ BufferDone
  /\ UNCHANGED <<error, running, progress, bufferLen, progressFlash, image, sent, chunk, headVars, flash>>

(* Mutant: a rejected header is taken for none at all. *)
HeaderRejectedSkips ==
  /\ HeaderPass
  /\ stage = image.rejectedAt
  /\ postHeader' = TRUE
  /\ BufferDone
  /\ UNCHANGED <<error, running, progress, bufferLen, progressFlash, image, sent, chunk, headVars, flash>>

(* The stage that rejects this image has all it needs to do so.  A line    *)
(* that only the RFC 3161 processor rejects has passed the device check.   *)
HeaderRejected ==
  /\ HeaderPass
  /\ \/ /\ stage \in {"DEVICE", "INIT"} /\ bufferLen >= MinHeader
        /\ image.rejectedAt \in {"DEVICE", "INIT"}
        /\ stage' = image.rejectedAt /\ UNCHANGED blobAt
     \/ /\ stage = "RFC" /\ bufferLen >= Blob - blobAt
        /\ image.rejectedAt = "RFC"
        /\ blobAt' = Blob /\ UNCHANGED stage
     \/ /\ stage = "POST"
        /\ image.rejectedAt = "POST"
        /\ UNCHANGED headVars
  /\ BufferFails
  /\ UNCHANGED <<image, sent, chunk, flash>>

Header ==
  \/ TooShort \/ HeaderLine \/ Signature \/ SignatureOnFullBuffer
  \/ MagicByte \/ HeaderRejected

\* What the partition holds once a sector is erased.
Erased(p) ==
  [old   |-> FALSE,
   new   |-> p.new,
   magic |-> p.magic /\ progressFlash > 0]

(* Only whole sectors of the partition can be erased. *)
SectorErased ==
  /\ pc = "buffer" /\ postHeader
  /\ progressFlash % Sector = 0 /\ progressFlash <= Space
  /\ partition' = Erased(partition)
  /\ pc' = "program"
  /\ UNCHANGED <<ending, httpVars, updVars, headVars, boot>>

EraseFails ==
  /\ pc = "buffer" /\ postHeader
  /\ partition' \in {partition, Erased(partition)}
  /\ BufferFails
  /\ UNCHANGED <<image, sent, chunk, headVars, boot>>

(* Mutant: the magic byte is written at once. *)
SectorWrittenWithMagic ==
  /\ pc = "program"
  /\ partition' = [old |-> FALSE, new |-> progressFlash + bufferLen, magic |-> TRUE]
  /\ progressFlash' = progressFlash + bufferLen
  /\ progress' = progress + bufferLen
  /\ bufferLen' = 0
  /\ BufferDone
  /\ UNCHANGED <<error, running, postHeader, image, sent, chunk, headVars, boot>>

(* The first byte of the image is replaced: "this ensures that partially   *)
(* written firmware will not be bootable".                                 *)
SectorWritten ==
  /\ pc = "program"
  /\ partition' = [partition EXCEPT !.new = progressFlash + bufferLen]
  /\ progressFlash' = progressFlash + bufferLen
  /\ progress' = progress + bufferLen
  /\ bufferLen' = 0
  /\ BufferDone
  /\ UNCHANGED <<error, running, postHeader, image, sent, chunk, headVars, boot>>

SectorFails ==
  /\ pc = "program"
  /\ BufferFails
  /\ UNCHANGED <<image, sent, chunk, headVars, flash>>

WriteBuffer ==
  Header \/ SectorErased \/ EraseFails \/ SectorWritten \/ SectorFails

-----------------------------------------------------------------------------
(* After end(true) has returned true: activate(), the answer, the reboot.  *)

MagicRestored ==
  /\ pc = "activate"
  /\ partition' = [partition EXCEPT !.magic = TRUE]
  /\ pc' = "select"
  /\ UNCHANGED <<ending, httpVars, updVars, headVars, boot>>

(* Mutant: a failed activation is only logged. *)
ActivateFailsQuietly ==
  /\ pc \in {"activate", "select"}
  /\ Reset(error)
  /\ pc' = "answer"
  /\ UNCHANGED <<ending, httpVars, headVars, flash>>

(* The flash cannot be read or written, or ESP-IDF refuses the image. *)
ActivateFails ==
  /\ pc \in {"activate", "select"}
  /\ Reset(TRUE)
  /\ pc' = "answer"
  /\ UNCHANGED <<ending, httpVars, headVars, flash>>

(* esp_ota_set_boot_partition() verifies the image. *)
BootSelected ==
  /\ pc = "select"
  /\ partition.old \/ Complete
  /\ boot' = "other"
  /\ Reset(error)
  /\ pc' = "answer"
  /\ UNCHANGED <<ending, httpVars, headVars, partition>>

(* The handler of the POST request. *)
Answer ==
  /\ pc = "answer"
  /\ answer' = IF error THEN "fail" ELSE "ok"
  /\ pc' = "restart"
  /\ UNCHANGED <<ending, image, sent, chunk, armed, updVars, headVars, flash>>

(* The dock boots the selected partition; the one it ran is now the other. *)
Boot ==
  /\ pc' = "idle" /\ ending' = FALSE
  /\ sent' = 0 /\ chunk' = 0 /\ armed' = FALSE
  /\ Reset(FALSE)
  /\ stage' = "DEVICE" /\ blobAt' = 0
  /\ partition' = IF boot = "other" THEN [old |-> TRUE, new |-> 0, magic |-> TRUE]
                                    ELSE [partition EXCEPT !.old = @ \/ Complete, !.new = 0]
  /\ boot' = "running"
  /\ answer' = "none"
  /\ UNCHANGED image

Restart == pc = "restart" /\ Boot

PowerLoss == pc \notin {"idle", "restart"} /\ Boot

LoopTask ==
  \/ UploadTimeout \/ WritePass \/ WriteBuffer
  \/ MagicRestored \/ ActivateFails \/ BootSelected \/ Answer \/ Restart

WebServer ==
  UploadWrite \/ UploadEnd \/ UploadAborted \/ FormFails

Next == UploadStart \/ WebServer \/ LoopTask \/ PowerLoss

(***************************************************************************)
(* The loop task goes on, and the web server waits no longer than          *)
(* HTTP_MAX_POST_WAIT for more data.  A client may start another upload    *)
(* before the timeout of the last one is over, but not for ever.           *)
(***************************************************************************)
Fairness ==
  /\ WF_vars(LoopTask \/ WebServer)
  /\ SF_vars(UploadTimeout)

Spec == Init /\ [][Next]_vars /\ Fairness

-----------------------------------------------------------------------------
(* Types; the buffer is never longer than a sector. *)
TypeOK ==
  /\ pc \in {"idle", "upload", "write", "buffer", "program", "activate",
             "select", "answer", "restart"}
  /\ ending \in BOOLEAN
  /\ image \in Images
  /\ sent \in 0 .. image.size
  /\ chunk \in 0 .. MaxChunk
  /\ armed \in BOOLEAN
  /\ error \in BOOLEAN /\ running \in BOOLEAN /\ postHeader \in BOOLEAN
  /\ progress \in Nat /\ progressFlash \in Nat
  /\ bufferLen \in 0 .. Sector
  /\ stage \in Stages /\ blobAt \in 0 .. Blob
  /\ partition \in [old : BOOLEAN, new : Nat, magic : BOOLEAN]
  /\ boot \in {"running", "other"}
  /\ answer \in {"none", "ok", "fail"}

(***************************************************************************)
(* While an update runs, all that was received is in the buffer, used up   *)
(* by the header or on the flash, once, and the payload is on the flash    *)
(* without a gap.                                                          *)
(***************************************************************************)
BytesAccounted ==
  running =>
    /\ progress + bufferLen + chunk = sent
    /\ postHeader => progress = image.head + progressFlash
    /\ partition.new = progressFlash

(***************************************************************************)
(* While an update runs, a power loss leaves no bootable mixture of two    *)
(* firmwares: from the first erasure until the activation the partition    *)
(* has no magic byte.                                                      *)
(***************************************************************************)
MixtureNotBootable ==
  /\ running /\ pc # "select" /\ progressFlash > 0 => ~partition.magic
  /\ pc = "program" => ~partition.magic

(***************************************************************************)
(* "Update: OK!" is answered only if another partition will be booted.     *)
(***************************************************************************)
OkMeansActivated == answer = "ok" => boot = "other"

(***************************************************************************)
(* An image that a stage of the processors rejects costs the dock nothing: *)
(* the firmware on the second partition stays, also where an earlier       *)
(* upload has left the processors in the middle of a header.  What they    *)
(* accept there is a matter of its own.                                    *)
(***************************************************************************)
RejectedKeepsFirmware ==
  [][image.rejectedAt # "never" => (partition.old => partition'.old)]_vars

(***************************************************************************)
(* An upload ends, whatever the flash does and wherever the client leaves  *)
(* it: the dock does not stay in its OTA state, as long as the clients do  *)
(* not begin uploads for ever.                                             *)
(***************************************************************************)
UploadsEnd ==
  (running \/ pc # "idle") ~> (pc = "idle" /\ ~running /\ ~armed)

-----------------------------------------------------------------------------
(***************************************************************************)
(* What Firmware sees of an upload.                                        *)
(***************************************************************************)
Phase ==
  CASE pc = "idle" -> "idle"
    [] pc \in {"upload", "write", "buffer", "program"} -> "upload"
    [] pc \in {"activate", "select", "answer", "restart"} -> "over"

Spare ==
  CASE ~partition.magic -> "unbootable"
    [] partition.magic /\ (partition.old \/ Complete) -> "firmware"
    [] partition.magic /\ ~(partition.old \/ Complete) -> "mixture"

Promise == INSTANCE Firmware WITH
  phase   <- Phase,
  spare   <- Spare,
  accepted <- image.rejectedAt = "never",
  next    <- boot,
  told    <- answer

(***************************************************************************)
(* The upload handlers, with a power loss between any two effects, keep    *)
(* what Firmware promises: nothing but a complete firmware is booted, the  *)
(* partition is never touched once it is selected nor for a rejected       *)
(* image, and "ok" is answered only after the selection.                   *)
(***************************************************************************)
ImplementsFirmware == Promise!Spec
=============================================================================
