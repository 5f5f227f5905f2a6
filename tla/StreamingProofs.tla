-------------------------- MODULE StreamingProofs ---------------------------
(***************************************************************************)
(* Proofs about the transcoding, the HLS variants and their upload: type   *)
(* correctness, PlayableMaster, StoredPlayable, FitsSource and             *)
(* GivesUpOnlyOnCPU, for every ladder of variants, every source and any    *)
(* number of attempts.                                                     *)
(***************************************************************************)
EXTENDS Streaming, WellFoundedInduction, TLAPS

-----------------------------------------------------------------------------
\* The choice of the variants

\* A set of heights has a lowest one.
LEMMA LowestIsLeast ==
  ASSUME NEW heights \in SUBSET Nat, heights # {}
  PROVE  Lowest(heights) \in heights /\ \A g \in heights : Lowest(heights) <= g
<1> DEFINE R == {pair \in Nat \X Nat : pair[1] < pair[2]}
<1>1. IsWellFoundedOn(R, Nat)
  BY NatLessThanWellFounded DEF OpToRel
<1>2. PICK x \in heights : \A y \in heights : <<y, x>> \notin R
  <2> HIDE DEF R
  <2> QED BY <1>1, WFMin
<1>3. ASSUME NEW y \in heights PROVE x <= y
  <2>1. y \in Nat /\ x \in Nat
    OBVIOUS
  <2>2. y < x => <<y, x>> \in R
    BY <2>1
  <2> QED BY <1>2, <2>1, <2>2
<1> QED BY <1>3 DEF Lowest

\* The selection is not empty, whether the probe has worked or not.
LEMMA SelectedFacts ==
  ASSUME NEW height \in Nat
  PROVE  Selected(height) \subseteq Ladder /\ Selected(height) # {}
<1> DEFINE fitting == {h \in Ladder : height = 0 \/ h <= height}
<1>1. Lowest(Ladder) \in Ladder
  BY LowestIsLeast, LadderAssumption
<1>2. Selected(height) = IF fitting = {} THEN {Lowest(Ladder)} ELSE fitting
  BY DEF Selected
<1> QED BY <1>1, <1>2

\* A source is not scaled up unless it is smaller than every variant, and the variant of its own
\* height is selected.
LEMMA SelectedFits ==
  ASSUME NEW height \in Nat \ {0}
  PROVE  /\ \A h \in Selected(height) : h <= height \/ Selected(height) = {Lowest(Ladder)}
         /\ height \in Ladder => height \in Selected(height)
<1> DEFINE fitting == {h \in Ladder : height = 0 \/ h <= height}
<1>1. Selected(height) = IF fitting = {} THEN {Lowest(Ladder)} ELSE fitting
  BY DEF Selected
<1>2. \A h \in fitting : h <= height
  OBVIOUS
<1>3. height \in Ladder => height \in fitting
  OBVIOUS
<1> QED BY <1>1, <1>2, <1>3

-----------------------------------------------------------------------------
\* The invariant

Generating == {"single", "variants"}

\* While variants are generated: what was selected, and what an encoder that fails may fall back on.
SelectionInv ==
  /\ stage \in Generating =>
       /\ selected # {}
       /\ probed => selected = Selected(settings.source)
       /\ body = "cpu" => try = "cpu"
  /\ stage = "single" => todo = selected

\* Every variant that is not to be encoded any more is whole.
EncodedInv ==
  /\ stage = "variants" => todo \subseteq selected /\ selected \ todo \subseteq whole
  /\ whole \subseteq present

\* What a successful segmentation leaves.
MasterInv ==
  stage \in Uploading =>
    /\ master # {} /\ master \subseteq whole
    /\ probed => master = Selected(settings.source)

\* The variants of the master playlist that were uploaded or are still to be.
UploadInv ==
  /\ stage = "upload" => master \ todo \subseteq stored
  /\ StoredPlayable

\* What is in the bucket, whatever the attempt does.
StoredInv ==
  /\ stored \subseteq Ladder /\ overwritten \subseteq Ladder
  /\ storedMaster \subseteq stored \cup overwritten

StreamingInv ==
  TypeOK /\ SelectionInv /\ EncodedInv /\ MasterInv /\ UploadInv /\ GivesUpOnlyOnCPU

LEMMA InitStreamingInv == Init => StreamingInv
<1> SUFFICES ASSUME Init PROVE StreamingInv
  OBVIOUS
<1>1. PICK source \in SourceHeights, mode \in {"auto", "nvenc", "cpu", "invalid"},
           listed \in BOOLEAN, single \in BOOLEAN, fallback \in BOOLEAN :
        settings = [source |-> source, encoder |-> ResolveVideoEncoder(mode, listed),
                    single |-> single, fallback |-> fallback]
  BY DEF Init
<1>2. settings.encoder \in {"nvenc", "cpu"}
  BY <1>1 DEF ResolveVideoEncoder
<1>3. settings \in [source : SourceHeights, encoder : {"nvenc", "cpu"},
                   single : BOOLEAN, fallback : BOOLEAN]
  BY <1>1, <1>2
<1>4. TypeOK
  BY <1>2, <1>3 DEF Init, TypeOK, FirstTry, Encoding
<1> QED
  BY <1>4 DEF Init, StreamingInv, SelectionInv, EncodedInv, MasterInv, UploadInv, StoredPlayable,
              GivesUpOnlyOnCPU, Generating, Uploading, Ended

\* One step of each kind preserves the invariant.
LEMMA StreamingInvStep == StreamingInv /\ [Next]_vars => StreamingInv'
<1> SUFFICES ASSUME StreamingInv, [Next]_vars PROVE StreamingInv'
  OBVIOUS
<1> USE DEF StreamingInv, SelectionInv, EncodedInv, MasterInv, UploadInv, StoredPlayable,
            GivesUpOnlyOnCPU, Generating, Uploading, Encoding, Ended
<1>1. ASSUME NEW ok \in BOOLEAN, TranscodeEnds(ok) PROVE StreamingInv'
  BY <1>1 DEF TranscodeEnds, Weaker, localVars, bucketVars, TypeOK
<1>2. ASSUME NEW ok \in BOOLEAN, ProbeEnds(ok) PROVE StreamingInv'
  <2>1. settings.source \in Nat
    BY LadderAssumption DEF TypeOK
  <2>2. /\ selected' = Selected(IF ok THEN settings.source ELSE 0)
        /\ todo' = selected' /\ probed' = ok /\ try' = FirstTry(body)
        /\ stage' = IF settings.single THEN "single" ELSE "variants"
        /\ UNCHANGED <<settings, body, ctx, present, whole, master, bucketVars, reruns>>
    BY <1>2 DEF ProbeEnds
  <2>3. selected' \subseteq Ladder /\ selected' # {}
    BY <2>1, <2>2, SelectedFacts
  <2>4. probed' => selected' = Selected(settings.source)
    BY <2>2
  <2>5. try' \in {"cuda", "cpu"} /\ (body = "cpu" => try' = "cpu")
    BY <2>2 DEF FirstTry
  <2> QED BY <2>2, <2>3, <2>4, <2>5 DEF bucketVars, TypeOK
<1>3. ASSUME NEW ok \in BOOLEAN, SingleEnds(ok) PROVE StreamingInv'
  BY <1>3 DEF SingleEnds, BodyFails, bucketVars, TypeOK
<1>4. ASSUME NEW ok \in BOOLEAN, VariantEnds(ok) PROVE StreamingInv'
  <2> DEFINE v == Lowest(todo)
  <2>1. v \in todo
    BY <1>4, LowestIsLeast, LadderAssumption DEF VariantEnds, TypeOK
  <2>2. /\ stage = "variants"
        /\ present' = present \cup {v}
        /\ whole' = IF ok THEN whole \cup {v} ELSE whole \ {v}
        /\ AfterVariant(v, ok)
        /\ UNCHANGED <<settings, ctx, probed, selected, master, bucketVars, reruns>>
    BY <1>4 DEF VariantEnds
  <2> HIDE DEF v
  <2>3. CASE ok /\ todo' = todo \ {v} /\ try' = FirstTry(body) /\ UNCHANGED <<stage, body>>
    BY <2>1, <2>2, <2>3 DEF FirstTry, bucketVars, TypeOK
  <2>4. CASE ~ok /\ try = "cuda" /\ try' = "nvenc" /\ UNCHANGED <<stage, body, todo>>
    BY <2>1, <2>2, <2>4 DEF bucketVars, TypeOK
  <2>5. CASE ~ok /\ try # "cuda" /\ BodyFails /\ UNCHANGED <<try, todo>>
    BY <2>1, <2>2, <2>5 DEF BodyFails, bucketVars, TypeOK
  <2> QED BY <2>2, <2>3, <2>4, <2>5 DEF AfterVariant
<1>5. ASSUME NEW ok \in BOOLEAN, MasterWritten(ok) PROVE StreamingInv'
  BY <1>5 DEF MasterWritten, BodyFails, bucketVars, TypeOK
<1>6. ASSUME NEW ok \in BOOLEAN, NEW v \in Ladder, UploadVariant(v, ok) PROVE StreamingInv'
  <2>1. /\ stage = "upload" /\ v \in todo
        /\ todo' = todo \ {v}
        /\ stored' = IF ok /\ v \in whole THEN stored \cup {v} ELSE stored \ {v}
        /\ overwritten' = overwritten \cup {v}
        /\ stage' = IF ok THEN "upload" ELSE "unstored"
        /\ UNCHANGED <<settings, body, try, ctx, probed, selected, present, whole, master,
                       storedMaster, reruns>>
    BY <1>6 DEF UploadVariant
  <2>2. TypeOK'
    BY <2>1 DEF TypeOK
  <2>3. UploadInv'
    <3>1. storedMaster' \subseteq stored' \cup overwritten'
      BY <2>1
    <3>2. stage' = "upload" => master' \ todo' \subseteq stored'
      BY <2>1
    <3> QED BY <2>1, <3>1, <3>2
  <2>4. SelectionInv' /\ EncodedInv' /\ MasterInv' /\ GivesUpOnlyOnCPU'
    BY <2>1
  <2> QED BY <2>2, <2>3, <2>4
<1>7. ASSUME NEW ok \in BOOLEAN, UploadMaster(ok) PROVE StreamingInv'
  BY <1>7 DEF UploadMaster, DirectoriesUploaded, localVars, TypeOK
<1>8. ASSUME CtxEnds PROVE StreamingInv'
  BY <1>8 DEF CtxEnds, localVars, bucketVars, TypeOK
<1>9. ASSUME Rerun, present' \subseteq Ladder, master' \subseteq Ladder, StoredInv', UNCHANGED storedMaster
      PROVE  StreamingInv'
  <2>1. settings.encoder \in {"nvenc", "cpu"}
    BY DEF TypeOK
  <2>2. body' \in {"nvenc", "cpu"} /\ try' \in {"cuda", "nvenc", "cpu"}
    BY <1>9, <2>1 DEF Rerun, FirstTry
  <2>3. reruns' \in Nat
    BY <1>9 DEF Rerun, TypeOK
  <2>4. /\ stage' = "transcode" /\ ctx' = "live" /\ probed' = FALSE
        /\ selected' = {} /\ todo' = {} /\ whole' = {}
        /\ UNCHANGED <<settings, storedMaster>>
    BY <1>9 DEF Rerun
  <2>5. TypeOK'
    BY <1>9, <2>2, <2>3, <2>4 DEF TypeOK, StoredInv
  <2> QED BY <1>9, <2>4, <2>5 DEF StoredInv
<1>10. ASSUME Crash PROVE StreamingInv'
  <2>1. Underway \subseteq Ladder
    <3>1. selected \subseteq Ladder /\ todo \subseteq Ladder
      BY DEF TypeOK
    <3>2. todo # {} => Lowest(todo) \in Ladder
      BY <3>1, LowestIsLeast, LadderAssumption
    <3> HIDE DEF StreamingInv
    <3> QED BY <3>1, <3>2 DEF Underway
  <2>2. present' \subseteq Ladder /\ master' \subseteq Ladder
    BY <1>10, <2>1 DEF Crash, TypeOK
  <2>3. StoredInv' /\ UNCHANGED storedMaster
    BY <1>10 DEF Crash, StoredInv, bucketVars, TypeOK
  <2> QED BY <1>9, <1>10, <2>2, <2>3 DEF Crash
<1>11. ASSUME RunAgain PROVE StreamingInv'
  <2>1. StoredInv' /\ UNCHANGED storedMaster
    BY <1>11 DEF RunAgain, StoredInv, bucketVars, TypeOK
  <2> QED BY <1>9, <1>11, <2>1 DEF RunAgain
<1>12. ASSUME UNCHANGED vars PROVE StreamingInv'
  BY <1>12 DEF vars, TypeOK
<1> QED
  BY <1>1, <1>2, <1>3, <1>4, <1>5, <1>6, <1>7, <1>8, <1>10, <1>11, <1>12
  DEF Next, Command

LEMMA StreamingInvHolds == Spec => []StreamingInv
BY InitStreamingInv, StreamingInvStep, PTL DEF Spec

-----------------------------------------------------------------------------
\* The theorems

\* Every variable of Streaming keeps its type; nothing but the lowest variant or the ladder's is
\* ever selected.
THEOREM StreamingTypes == Spec => []TypeOK
<1>1. StreamingInv => TypeOK
  BY DEF StreamingInv
<1> QED BY <1>1, StreamingInvHolds, PTL

\* Whatever failed commands, other encoders and crashed attempts have left, a segmentation that
\* reports success (segmentForStreamingBody) names only complete variants in its master playlist.
THEOREM MasterIsPlayable == Spec => []PlayableMaster
<1>1. StreamingInv => PlayableMaster
  BY DEF StreamingInv, MasterInv, PlayableMaster
<1> QED BY <1>1, StreamingInvHolds, PTL

\* Wherever the uploads of any number of attempts stop, the bucket has every variant of the master
\* playlist it has, but for those that UploadDirectory has uploaded since over an earlier
\* attempt's; an UploadDirectory that succeeds has put all of them right.
THEOREM StoredIsPlayable == Spec => []StoredPlayable
<1>1. StreamingInv => StoredPlayable
  BY DEF StreamingInv, UploadInv
<1> QED BY <1>1, StreamingInvHolds, PTL

\* A source that could be probed gets variants that fit it, on every ladder (hlsVariants).
THEOREM VariantsFit == Spec => []FitsSource
<1>1. ASSUME StreamingInv PROVE FitsSource
  <2>1. settings.source \in Nat \ {0}
    BY <1>1, LadderAssumption DEF StreamingInv, TypeOK
  <2> QED BY <1>1, <2>1, SelectedFits DEF StreamingInv, MasterInv, FitsSource
<1> QED BY <1>1, StreamingInvHolds, PTL

\* Neither TranscodeVideo nor SegmentForStreamingWithOptions gives up before the CPU has failed.
THEOREM CPUIsTried == Spec => []GivesUpOnlyOnCPU
<1>1. StreamingInv => GivesUpOnlyOnCPU
  BY DEF StreamingInv
<1> QED BY <1>1, StreamingInvHolds, PTL

=============================================================================
