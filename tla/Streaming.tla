----------------------------- MODULE Streaming -----------------------------
(***************************************************************************)
(* The FFmpeg commands of one job that have fallbacks, and the upload of   *)
(* what they leave: the transcoding (transcode.go), the HLS variants       *)
(* (streaming.go), the encoder they use (video_encoder.go) and             *)
(* UploadDirectory (minio/client.go).                                      *)
(*                                                                         *)
(* A command is one action: it succeeds, or it fails and nothing is known  *)
(* of the files it wrote.  No command succeeds once the context of its     *)
(* step is over.  The job may be run again, at most MaxReruns times: after *)
(* a crash, which leaves the temporary directory behind, or after an       *)
(* attempt that has ended, which removes it.  The bucket keeps what all    *)
(* attempts have uploaded.                                                 *)
(***************************************************************************)
EXTENDS Naturals, FiniteSets

CONSTANTS
  Ladder,         \* the heights of hlsVariants
  SourceHeights,  \* heights of the videos tried
  MaxReruns       \* bound: attempts after the first

ASSUME LadderAssumption ==
  /\ Ladder \subseteq Nat \ {0} /\ Ladder # {} /\ IsFiniteSet(Ladder)
  /\ SourceHeights \subseteq Nat \ {0}
  /\ MaxReruns \in Nat

VARIABLES
  settings,  \* height of the source, encoder resolved at startup, HLS settings
  stage,     \* what the job does next, or how it ended
  body,      \* the encoder of this run of segmentForStreamingBody
  try,       \* how the next command of the transcoding, or of a variant, encodes
  ctx,       \* the context of the running step, "live" or "over"
  probed,    \* the last probe of the source height worked
  selected,  \* variants to generate
  todo,      \* variants still to encode, or directories still to upload
  present,   \* variants that have a directory in the output directory
  whole,     \* those known to be complete there
  master,    \* variants named by master.m3u8 there, none if it is missing
  stored,    \* variants known to be complete in MinIO
  storedMaster, \* variants named by master.m3u8 in MinIO
  reruns,
  overwritten   \* history: directories uploaded since master.m3u8 was

vars == <<settings, stage, body, try, ctx, probed, selected, todo, present, whole, master, stored,
          storedMaster, reruns, overwritten>>

-----------------------------------------------------------------------------
\* Choice of the encoder and of the variants

\* The mode as it was written.
ResolveVerbatim(mode, listed) == mode

\* An invalid VIDEO_ENCODER means auto, and nobody gets an encoder that FFmpeg does not list.
ResolveVideoEncoder(mode, listed) == IF mode # "cpu" /\ listed THEN "nvenc" ELSE "cpu"

\* NVENC is tried with and without decoding on the GPU.
FirstTry(encoder) == IF encoder = "nvenc" THEN "cuda" ELSE "cpu"

Weaker(t) == IF t = "cuda" THEN "nvenc" ELSE "cpu"

Lowest(heights) == CHOOSE h \in heights : \A g \in heights : h <= g

\* One variant too many.
SelectedAbove(height) == {h \in Ladder : \A g \in Ladder : g < h => g <= height}

\* Every variant if the probe has failed (height 0), and the smallest one if none fits.
Selected(height) ==
  LET fitting == {h \in Ladder : height = 0 \/ h <= height}
  IN  IF fitting = {} THEN {Lowest(Ladder)} ELSE fitting

-----------------------------------------------------------------------------
Init ==
  /\ \E source \in SourceHeights, mode \in {"auto", "nvenc", "cpu", "invalid"},
        listed \in BOOLEAN, single \in BOOLEAN, fallback \in BOOLEAN :
       settings = [source |-> source, encoder |-> ResolveVideoEncoder(mode, listed),
                   single |-> single, fallback |-> fallback]
  /\ stage = "transcode"
  /\ body = settings.encoder
  /\ try = FirstTry(settings.encoder)
  /\ ctx = "live"
  /\ probed = FALSE
  /\ selected = {} /\ todo = {}
  /\ present = {} /\ whole = {} /\ master = {}
  /\ stored = {} /\ storedMaster = {} /\ overwritten = {}
  /\ reruns = 0

localVars  == <<selected, todo, present, whole, master>>
bucketVars == <<stored, storedMaster, overwritten>>

\* TranscodeVideo: CUDA, NVENC without it, then the CPU. The streaming step has a timeout of its
\* own, unless the context of the job is over.
TranscodeEnds(ok) ==
  /\ stage = "transcode"
  /\ ok => ctx = "live"
  /\ \/ ok /\ stage' = "probe" /\ UNCHANGED try
     \/ ~ok /\ try # "cpu" /\ try' = Weaker(try) /\ UNCHANGED stage
     \/ ~ok /\ try = "cpu" /\ stage' = "failed" /\ UNCHANGED try
  /\ UNCHANGED <<settings, body, ctx, probed, localVars, bucketVars, reruns>>

\* The segmentation fails without trying the CPU.
GiveUp ==
  /\ stage' = "skipped"
  /\ UNCHANGED body

\* The segmentation is tried again whatever encoder has failed.
TryAgain ==
  /\ stage' = "probe"
  /\ body' = "cpu"

\* segmentForStreamingBody returns an error: with NVENC it is run again on the CPU.
BodyFails ==
  /\ stage' = IF body = "nvenc" THEN "probe" ELSE "skipped"
  /\ body' = "cpu"

\* probeSourceHeight, and the choice of the variants.
ProbeEnds(ok) ==
  /\ stage = "probe"
  /\ ok => ctx = "live"
  /\ probed' = ok
  /\ selected' = Selected(IF ok THEN settings.source ELSE 0)
  /\ todo' = selected'
  /\ try' = FirstTry(body)
  /\ stage' = IF settings.single THEN "single" ELSE "variants"
  /\ UNCHANGED <<settings, body, ctx, present, whole, master, bucketVars, reruns>>

\* One command for all variants. It writes the master playlist as well, at a time of its own.
SingleEnds(ok) ==
  /\ stage = "single"
  /\ ok => ctx = "live"
  /\ present' = present \cup selected
  /\ \/ /\ ok
        /\ whole' = whole \cup selected
        /\ master' = selected
        /\ todo' = present'
        /\ stage' = "upload"
        /\ UNCHANGED body
     \/ /\ ~ok
        /\ whole' = whole \ selected
        /\ master' \in {master, selected}
        /\ IF settings.fallback THEN stage' = "variants" /\ UNCHANGED body ELSE BodyFails
        /\ UNCHANGED todo
  /\ UNCHANGED <<settings, try, ctx, probed, selected, bucketVars, reruns>>

\* A sequence that goes on after a variant has failed.
AfterVariantIgnored(v, ok) ==
  /\ todo' = todo \ {v}
  /\ try' = FirstTry(body)
  /\ UNCHANGED <<stage, body>>

AfterVariant(v, ok) ==
  \/ ok /\ todo' = todo \ {v} /\ try' = FirstTry(body) /\ UNCHANGED <<stage, body>>
  \/ ~ok /\ try = "cuda" /\ try' = "nvenc" /\ UNCHANGED <<stage, body, todo>>
  \/ ~ok /\ try # "cuda" /\ BodyFails /\ UNCHANGED <<try, todo>>

\* One command for one variant, in ascending order.
VariantEnds(ok) ==
  /\ stage = "variants" /\ todo # {}
  /\ ok => ctx = "live"
  /\ LET v == Lowest(todo)
     IN  /\ present' = present \cup {v}
         /\ whole' = IF ok THEN whole \cup {v} ELSE whole \ {v}
         /\ AfterVariant(v, ok)
  /\ UNCHANGED <<settings, ctx, probed, selected, master, bucketVars, reruns>>

\* writeMasterPlaylist does not look at the context.
MasterWritten(ok) ==
  /\ stage = "variants" /\ todo = {}
  /\ \/ ok /\ master' = selected /\ stage' = "upload" /\ todo' = present /\ UNCHANGED body
     \/ ~ok /\ master' \in {master, {}} /\ BodyFails /\ UNCHANGED todo
  /\ UNCHANGED <<settings, try, ctx, probed, selected, present, whole, bucketVars, reruns>>

\* UploadDirectory uploads what it finds, also what an earlier body or attempt has left, over what
\* an earlier attempt has uploaded, and stops at the first error.
UploadVariant(v, ok) ==
  /\ stage = "upload" /\ v \in todo
  /\ todo' = todo \ {v}
  /\ stored' = IF ok /\ v \in whole THEN stored \cup {v} ELSE stored \ {v}
  /\ overwritten' = overwritten \cup {v}
  /\ stage' = IF ok THEN "upload" ELSE "unstored"
  /\ UNCHANGED <<settings, body, try, ctx, probed, selected, present, whole, master, storedMaster,
                 reruns>>

\* Entries in an order that does not put the master playlist last.
AnyEntry == TRUE

\* The names of the directories come before master.m3u8.
DirectoriesUploaded == todo = {}

UploadMaster(ok) ==
  /\ stage = "upload" /\ DirectoriesUploaded
  /\ storedMaster' = IF ok THEN master ELSE storedMaster
  /\ overwritten' = IF ok THEN {} ELSE overwritten
  /\ stage' = IF ok THEN "stored" ELSE "unstored"
  /\ UNCHANGED <<settings, body, try, ctx, probed, localVars, stored, reruns>>

\* The step or the job times out. The upload has no deadline.
CtxEnds ==
  /\ ctx = "live"
  /\ stage \in {"transcode", "probe", "single", "variants"}
  /\ ctx' = "over"
  /\ UNCHANGED <<settings, stage, body, try, probed, localVars, bucketVars, reruns>>

\* Another attempt begins, with the encoder that was resolved at startup.
Rerun ==
  /\ reruns < MaxReruns
  /\ reruns' = reruns + 1
  /\ stage' = "transcode"
  /\ body' = settings.encoder
  /\ try' = FirstTry(settings.encoder)
  /\ ctx' = "live"
  /\ probed' = FALSE
  /\ selected' = {} /\ todo' = {} /\ whole' = {}
  /\ UNCHANGED settings

\* The directories that the running command writes.
Underway ==
  IF stage = "single" THEN selected
  ELSE IF stage = "variants" /\ todo # {} THEN {Lowest(todo)} ELSE {}

\* The instance dies, wherever it is, and the job is recovered: what was being written may be there
\* or not, and a directory that was being uploaded is torn. (ArchiveRawVideo may have failed, so
\* that an attempt finds its source even after an upload.)
Crash ==
  /\ Rerun
  /\ \E begun \in SUBSET Underway : present' = present \cup begun
  /\ master' \in {master} \cup (IF stage \in {"single", "variants"} THEN {{}, selected} ELSE {})
  /\ \/ UNCHANGED bucketVars
     \/ /\ stage = "upload"
        /\ \E torn \in todo :
             stored' = stored \ {torn} /\ overwritten' = overwritten \cup {torn}
        /\ UNCHANGED storedMaster

Ended == {"failed", "skipped", "stored", "unstored"}

\* The attempt has ended, or could not upload the processed video, and removed its directory, and
\* it has failed (the message was not published, or the transcoding has failed), or nobody knows
\* that it has not: the job is run again.
RunAgain ==
  /\ stage \in Ended \/ (stage = "upload" /\ todo = present)
  /\ Rerun
  /\ present' = {} /\ master' = {}
  /\ UNCHANGED bucketVars

Command ==
  \E ok \in BOOLEAN :
    \/ TranscodeEnds(ok) \/ ProbeEnds(ok) \/ SingleEnds(ok) \/ VariantEnds(ok) \/ MasterWritten(ok)
    \/ \E v \in Ladder : UploadVariant(v, ok)
    \/ UploadMaster(ok)

Next == Command \/ CtxEnds \/ Crash \/ RunAgain

Spec == Init /\ [][Next]_vars

\* Every command and every upload ends.
FairSpec == Spec /\ WF_vars(Command)

-----------------------------------------------------------------------------
\* Properties

Encoding == {"transcode", "probe", "single", "variants"}
Uploading == {"upload", "stored", "unstored"}

\* Every variable has its type.
TypeOK ==
  /\ settings \in [source : SourceHeights, encoder : {"nvenc", "cpu"},
                   single : BOOLEAN, fallback : BOOLEAN]
  /\ stage \in Encoding \cup Uploading \cup Ended
  /\ body \in {"nvenc", "cpu"} /\ try \in {"cuda", "nvenc", "cpu"} /\ ctx \in {"live", "over"}
  /\ probed \in BOOLEAN
  /\ selected \subseteq Ladder /\ todo \subseteq Ladder /\ present \subseteq Ladder
  /\ whole \subseteq Ladder /\ master \subseteq Ladder
  /\ stored \subseteq Ladder /\ storedMaster \subseteq Ladder /\ overwritten \subseteq Ladder
  /\ reruns \in Nat

\* Whatever failed commands, other encoders and crashed attempts have left in the directory, a
\* segmentation that reports success leaves a master playlist with a variant in it, and every
\* variant it names is complete.
PlayableMaster ==
  stage \in Uploading => master # {} /\ master \subseteq whole

\* Wherever the uploads of all attempts stop, a player that finds the master playlist in the bucket
\* finds every variant that it names complete, but for those that a later attempt has uploaded or
\* torn without having written its own master playlist; an upload that reports success leaves none
\* of those.
StoredPlayable ==
  /\ storedMaster \subseteq stored \cup overwritten
  /\ stage = "stored" => storedMaster \subseteq stored

\* A source that could be probed is never scaled up, even if another encoder or another attempt
\* began with other variants, unless it is smaller than all of them; and the variant of its own
\* height is offered.
FitsSource ==
  stage \in Uploading /\ probed =>
    /\ \A h \in master : h <= settings.source \/ master = {Lowest(Ladder)}
    /\ settings.source \in Ladder => settings.source \in master

\* A GPU that does not work costs no job its video and no video its variants: neither the
\* transcoding nor the segmentation fails before it has failed on the CPU.
GivesUpOnlyOnCPU ==
  /\ stage = "failed" => try = "cpu"
  /\ stage = "skipped" => body = "cpu" /\ try = "cpu"

\* However often the job is run again, the fallbacks of its last attempt come to an end.
Ends == <>[](stage \in Ended)

=============================================================================
