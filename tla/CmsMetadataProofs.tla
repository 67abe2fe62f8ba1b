------------------------- MODULE CmsMetadataProofs --------------------------
(***************************************************************************)
(* Proofs about CmsMetadata, and with it about MetadataUpload, for any     *)
(* sets of images, metadata objects, fields, texts, accounts and edits.    *)
(* One lemma per action shows that it preserves the invariant; its steps   *)
(* are the conjuncts that the action can disturb.                          *)
(***************************************************************************)
EXTENDS CmsMetadata, TLAPS

USE NoneAssumption, ImageAssumption, MetadataAssumption
USE DEF uploadVars, imageVars, requestVars, cmsVars, editVars, historyVars

----------------------------------------------------------------------------
(* POST /metadata/image *)

LEMMA CheckNsfwStep ==
    ASSUME IInv, NEW i \in Image, CheckNsfw(i), UNCHANGED cmsVars PROVE IInv'
<1>1. TypeOK'
  <2>1. verdict' \in [AnyImage -> Verdict \cup {None}]
    BY DEF IInv, TypeOK, UploadTypeOK, CheckNsfw
  <2>2. imagePc' \in [Image -> {"new", "checked", "stored", "answered", "failed"}]
    BY DEF IInv, TypeOK, UploadTypeOK, CheckNsfw
  <2> QED BY <2>1, <2>2 DEF IInv, TypeOK, UploadTypeOK, CheckNsfw
<1>2. ImagesOK'
  BY DEF IInv, ImagesOK, TypeOK, UploadTypeOK, AnyImage, CheckNsfw
<1>3. RequestsOK'
  BY DEF IInv, RequestsOK, ImagesOK, TypeOK, UploadTypeOK, TokenMetadata, AnyImage, CheckNsfw
<1>4. TokensOK' /\ EditsOK'
  BY DEF IInv, TokensOK, EditsOK, CheckNsfw
<1> QED BY <1>1, <1>2, <1>3, <1>4 DEF IInv

LEMMA UploadImageFileStep ==
    ASSUME IInv, NEW i \in Image, UploadImageFile(i), UNCHANGED cmsVars PROVE IInv'
<1>1. TypeOK'
  BY DEF IInv, TypeOK, UploadTypeOK, AnyImage, UploadImageFile
<1>2. ImagesOK'
  BY DEF IInv, ImagesOK, TypeOK, UploadTypeOK, AnyImage, UploadImageFile
<1>3. RequestsOK' /\ TokensOK' /\ EditsOK'
  BY DEF IInv, RequestsOK, TokensOK, EditsOK, UploadImageFile
<1> QED BY <1>1, <1>2, <1>3 DEF IInv

LEMMA SetNsfwStatusStep ==
    ASSUME IInv, NEW i \in Image, SetNsfwStatus(i), UNCHANGED cmsVars PROVE IInv'
<1>1. TypeOK'
  BY DEF IInv, TypeOK, UploadTypeOK, AnyImage, SetNsfwStatus
<1>2. ImagesOK'
  BY DEF IInv, ImagesOK, TypeOK, UploadTypeOK, AnyImage, SetNsfwStatus
<1>3. RequestsOK' /\ TokensOK' /\ EditsOK'
  BY DEF IInv, RequestsOK, TokensOK, EditsOK, SetNsfwStatus
<1> QED BY <1>1, <1>2, <1>3 DEF IInv

LEMMA ExpireStatusStep ==
    ASSUME IInv, NEW i \in AnyImage, ExpireStatus(i), UNCHANGED cmsVars PROVE IInv'
<1>1. TypeOK'
  BY DEF IInv, TypeOK, UploadTypeOK, ExpireStatus
<1>2. ImagesOK'
  BY DEF IInv, ImagesOK, TypeOK, UploadTypeOK, ExpireStatus
<1>3. RequestsOK' /\ TokensOK' /\ EditsOK'
  BY DEF IInv, RequestsOK, TokensOK, EditsOK, ExpireStatus
<1> QED BY <1>1, <1>2, <1>3 DEF IInv

----------------------------------------------------------------------------
(* POST /metadata/metadata *)

LEMMA ValidateMetadataRequestStep ==
    ASSUME IInv, NEW u \in Uri, NEW i \in AnyImage, NEW text \in [Field -> Text \cup {None}],
           ValidateMetadataRequest(u, i, text), UNCHANGED cmsVars
    PROVE  IInv'
<1>1. UNCHANGED <<imageVars, coin, token_metadata, object, cmsVars>>
  BY DEF ValidateMetadataRequest
<1>2. TokensOK' /\ ImagesOK' /\ EditsOK'
  BY <1>1 DEF IInv, TokensOK, ImagesOK, EditsOK, ValidateMetadataRequest, TypeOK, UploadTypeOK
<1>3. CASE pc' = [pc EXCEPT ![u] = "failed"] /\ UNCHANGED metadata
  BY <1>1, <1>2, <1>3 DEF IInv, TypeOK, UploadTypeOK, RequestsOK
<1>4. ASSUME NEW v \in KnownVerdict(i), pc[u] = "new", pc' = [pc EXCEPT ![u] = "valid"],
             metadata' = [metadata EXCEPT ![u] = [image_uri |-> i, is_nsfw |-> v, text |-> text]]
      PROVE  IInv'
  <2>1. v \in Verdict /\ v = verdict[i] /\ i \in coin
    BY DEF KnownVerdict, IInv, ImagesOK, TypeOK, UploadTypeOK
  <2>2. metadata'[u] \in TokenMetadata /\ metadata'[u].image_uri = i /\ metadata'[u].is_nsfw = v
    BY <1>4, <2>1 DEF TokenMetadata, IInv, TypeOK, UploadTypeOK
  <2>3. \A w \in Uri : w # u => metadata'[w] = metadata[w] /\ pc'[w] = pc[w]
    BY <1>4 DEF IInv, TypeOK, UploadTypeOK
  <2>4. TypeOK'
    BY <1>1, <1>4, <2>2 DEF IInv, TypeOK, UploadTypeOK
  <2>5. token_metadata[u] = None
    BY <1>4 DEF IInv, RequestsOK
  <2>6. RequestsOK'
    BY <1>1, <1>4, <2>1, <2>2, <2>3, <2>5 DEF IInv, RequestsOK, TypeOK, UploadTypeOK
  <2> QED BY <1>2, <2>4, <2>6 DEF IInv
<1> QED BY <1>3, <1>4 DEF ValidateMetadataRequest

LEMMA UploadMetadataFileStep ==
    ASSUME IInv, NEW u \in Uri, UploadMetadataFile(u), UNCHANGED cmsVars PROVE IInv'
<1>1. TypeOK'
  BY DEF IInv, TypeOK, UploadTypeOK, UploadMetadataFile
<1>2. RequestsOK'
  BY DEF IInv, RequestsOK, TypeOK, UploadTypeOK, UploadMetadataFile
<1>3. ImagesOK' /\ TokensOK' /\ EditsOK'
  BY DEF IInv, ImagesOK, TokensOK, EditsOK, TypeOK, UploadTypeOK, UploadMetadataFile
<1> QED BY <1>1, <1>2, <1>3 DEF IInv

LEMMA SaveTokenMetadataStep ==
    ASSUME IInv, NEW u \in Uri, SaveTokenMetadata(u), UNCHANGED cmsVars PROVE IInv'
<1>1. TypeOK'
  <2>1. pc' \in [Uri -> {"new", "valid", "uploaded", "answered", "failed"}]
    BY DEF IInv, TypeOK, UploadTypeOK, SaveTokenMetadata
  <2>2. token_metadata' \in [Uri -> TokenMetadata \cup {None}]
    BY DEF IInv, TypeOK, UploadTypeOK, SaveTokenMetadata
  <2> QED BY <2>1, <2>2 DEF IInv, TypeOK, UploadTypeOK, SaveTokenMetadata
<1>2. RequestsOK'
  BY DEF IInv, RequestsOK, TypeOK, UploadTypeOK, SaveTokenMetadata
<1>3. ImagesOK' /\ TokensOK' /\ EditsOK'
  BY DEF IInv, ImagesOK, TokensOK, EditsOK, TypeOK, UploadTypeOK, SaveTokenMetadata
<1> QED BY <1>1, <1>2, <1>3 DEF IInv

----------------------------------------------------------------------------
(* The chain, the indexer and the admin table *)

LEMMA EnvironmentStep == ASSUME IInv, Environment PROVE IInv'
<1>1. ASSUME NEW u \in Uri, Deploy(u) PROVE IInv'
  BY <1>1 DEF IInv, Deploy, TypeOK, UploadTypeOK, ImagesOK, RequestsOK, TokensOK, EditsOK
<1>2. ASSUME NEW u \in Uri, IndexToken(u) PROVE IInv'
  <2>1. UNCHANGED <<uploadVars, admin, replica, onChain, editVars, historyVars>>
    BY <1>2 DEF IndexToken
  <2>2. PICK m \in {token_metadata[u], object[u]} : token' = [token EXCEPT ![u] = m]
    BY <1>2 DEF IndexToken
  <2>3. m \in TokenMetadata /\ m.image_uri \in coin /\ u \in onChain
    BY <1>2 DEF IndexToken, IInv, TypeOK, UploadTypeOK, RequestsOK, TokensOK
  <2>4. TypeOK' /\ TokensOK'
    BY <2>1, <2>2, <2>3 DEF IInv, TypeOK, UploadTypeOK, TokensOK
  <2> QED BY <2>1, <2>4 DEF IInv, ImagesOK, RequestsOK, EditsOK
<1>3. ASSUME NEW s \in SUBSET Account, ChangeAdmins(s) PROVE IInv'
  BY <1>3 DEF IInv, ChangeAdmins, TypeOK, UploadTypeOK, ImagesOK, RequestsOK, TokensOK, EditsOK
<1>4. ASSUME ReplicateAdmins PROVE IInv'
  BY <1>4 DEF IInv, ReplicateAdmins, TypeOK, UploadTypeOK, ImagesOK, RequestsOK, TokensOK, EditsOK
<1> QED BY <1>1, <1>2, <1>3, <1>4 DEF Environment

----------------------------------------------------------------------------
(* POST /cms/token/nsfw *)

LEMMA SetNsfwStep ==
    ASSUME IInv, NEW a \in Account, NEW u \in Uri, NEW v \in Verdict, SetNsfw(a, u, v)
    PROVE  IInv'
<1>1. UNCHANGED <<uploadVars, admin, replica, onChain, editVars, historyVars>>
  BY DEF SetNsfw
<1>2. token[u] \in TokenMetadata /\ token' = [token EXCEPT ![u] = [token[u] EXCEPT !.is_nsfw = v]]
  BY DEF SetNsfw, IInv, TypeOK
<1>3. [token[u] EXCEPT !.is_nsfw = v] \in TokenMetadata
  BY <1>2 DEF TokenMetadata
<1>4. TypeOK'
  BY <1>1, <1>2, <1>3 DEF IInv, TypeOK, UploadTypeOK
<1>5. [token[u] EXCEPT !.is_nsfw = v].image_uri = token[u].image_uri
  BY <1>2 DEF TokenMetadata
<1>6. TokensOK'
  BY <1>1, <1>2, <1>3, <1>5 DEF IInv, TokensOK, TypeOK
<1> QED BY <1>1, <1>4, <1>6 DEF IInv, ImagesOK, RequestsOK, EditsOK

----------------------------------------------------------------------------
(* POST /cms/token/metadata *)

LEMMA VerifyAdminStep ==
    ASSUME IInv, NEW e \in Editor, NEW a \in Account, NEW u \in Uri, VerifyAdmin(e, a, u)
    PROVE  IInv'
<1>1. TypeOK'
  BY DEF IInv, TypeOK, UploadTypeOK, Stages, VerifyAdmin
<1>2. EditsOK'
  BY DEF IInv, TypeOK, EditsOK, VerifyAdmin
<1>3. ImagesOK' /\ RequestsOK' /\ TokensOK'
  BY DEF IInv, ImagesOK, RequestsOK, TokensOK, VerifyAdmin
<1> QED BY <1>1, <1>2, <1>3 DEF IInv

LEMMA FetchMetadataStep ==
    ASSUME IInv, NEW e \in Editor, NEW change \in [Field -> Text \cup {None}],
           FetchMetadata(e, change)
    PROVE  IInv'
<1> DEFINE u == target[e]
           text == [f \in Field |-> IF change[f] # None THEN change[f] ELSE object[u].text[f]]
           m == [object[u] EXCEPT !.text = text]
<1>1. /\ u \in Uri /\ u \in onChain
      /\ draft' = [draft EXCEPT ![e] = m]
      /\ \E next \in {"image", "put"} : editPc' = [editPc EXCEPT ![e] = next]
      /\ overlapped' \subseteq Uri
      /\ UNCHANGED <<uploadVars, admin, replica, onChain, token, target, behind>>
  BY DEF FetchMetadata, IInv, TypeOK
<1>2. object[u] \in TokenMetadata /\ object[u].image_uri \in coin
  BY <1>1 DEF IInv, TypeOK, UploadTypeOK, RequestsOK, TokensOK
<1>3. text \in [Field -> Text \cup {None}]
  BY <1>2 DEF TokenMetadata
<1>4. m \in TokenMetadata /\ m.image_uri = object[u].image_uri
  BY <1>2, <1>3 DEF TokenMetadata
<1> HIDE DEF text, m
<1>5. TypeOK'
  BY <1>1, <1>4 DEF IInv, TypeOK, UploadTypeOK, Stages
<1>6. EditsOK'
  BY <1>1, <1>2, <1>4 DEF IInv, TypeOK, EditsOK
<1>7. ImagesOK' /\ RequestsOK' /\ TokensOK'
  BY <1>1 DEF IInv, ImagesOK, RequestsOK, TokensOK
<1> QED BY <1>5, <1>6, <1>7 DEF IInv

\* An edit that ends leaves the rest of its invariant alone.
LEMMA GoIdleEffect ==
    ASSUME TypeOK, EditsOK, NEW e \in Editor, GoIdle(e), onChain' = onChain, coin \subseteq coin'
    PROVE  /\ editPc' \in [Editor -> Stages]
           /\ target' \in [Editor -> Uri \cup {None}]
           /\ draft' \in [Editor -> TokenMetadata \cup {None}]
           /\ EditsOK'
BY DEF GoIdle, TypeOK, EditsOK, Stages

LEMMA UploadNewImageStep ==
    ASSUME IInv, NEW e \in Editor, NEW i \in EditImage, UploadNewImage(e, i) PROVE IInv'
<1>1. /\ coin' \subseteq AnyImage /\ coin \subseteq coin' /\ i \in AnyImage
      /\ \A j \in Image : j \in coin' => j \in coin
      /\ UNCHANGED <<imageVars, requestVars, object, admin, replica, onChain, token, historyVars>>
  BY DEF UploadNewImage, IInv, TypeOK, UploadTypeOK, AnyImage
<1>2. ImagesOK' /\ RequestsOK' /\ TokensOK'
  BY <1>1 DEF IInv, ImagesOK, RequestsOK, TokensOK
<1>3. CASE GoIdle(e)
  BY <1>1, <1>2, <1>3, GoIdleEffect DEF IInv, TypeOK, UploadTypeOK
<1>4. CASE /\ coin' = coin \cup {i}
           /\ draft' = [draft EXCEPT ![e].image_uri = i]
           /\ editPc' = [editPc EXCEPT ![e] = "put"]
           /\ UNCHANGED target
  <2>1. editPc[e] = "image" /\ draft[e] \in TokenMetadata
    BY DEF UploadNewImage, IInv, TypeOK, EditsOK
  <2>2. /\ draft' = [draft EXCEPT ![e] = [draft[e] EXCEPT !.image_uri = i]]
        /\ [draft[e] EXCEPT !.image_uri = i] \in TokenMetadata
        /\ [draft[e] EXCEPT !.image_uri = i].image_uri = i
    BY <1>1, <1>4, <2>1 DEF TokenMetadata
  <2>3. TypeOK'
    BY <1>1, <1>4, <2>2 DEF IInv, TypeOK, UploadTypeOK, Stages
  <2>4. EditsOK'
    BY <1>1, <1>4, <2>1, <2>2 DEF IInv, TypeOK, EditsOK
  <2> QED BY <1>2, <2>3, <2>4 DEF IInv
<1> QED BY <1>3, <1>4 DEF UploadNewImage

LEMMA UploadMetadataToUriStep ==
    ASSUME IInv, NEW e \in Editor, UploadMetadataToUri(e) PROVE IInv'
<1>1. /\ target[e] \in onChain /\ pc[target[e]] = "answered"
      /\ draft[e] \in TokenMetadata /\ draft[e].image_uri \in coin
  BY DEF UploadMetadataToUri, IInv, TypeOK, EditsOK, TokensOK
<1>2. TypeOK'
  BY <1>1 DEF IInv, TypeOK, UploadTypeOK, Stages, UploadMetadataToUri, GoIdle
<1>3. RequestsOK'
  BY <1>1 DEF IInv, TypeOK, UploadTypeOK, RequestsOK, UploadMetadataToUri
<1>4. EditsOK'
  BY DEF IInv, TypeOK, EditsOK, UploadMetadataToUri, GoIdle
<1>5. ImagesOK' /\ TokensOK'
  BY DEF IInv, ImagesOK, TokensOK, UploadMetadataToUri
<1> QED BY <1>2, <1>3, <1>4, <1>5 DEF IInv

\* What UPDATE token writes: a row, whose image is the draft's.
LEMMA UpdateEffect ==
    ASSUME IInv, NEW e \in Editor, UpdateTokenMetadata(e)
    PROVE  /\ GoIdle(e) /\ target[e] \in Uri /\ behind' \subseteq Uri
           /\ UNCHANGED <<uploadVars, admin, replica, onChain, overlapped>>
           /\ \/ UNCHANGED token
              \/ \E row \in TokenMetadata :
                    /\ token[target[e]] \in TokenMetadata
                    /\ token' = [token EXCEPT ![target[e]] = row]
                    /\ row.image_uri \in coin
                    /\ row.is_nsfw = token[target[e]].is_nsfw
                    /\ \A f \in Field : token[target[e]].text[f] # None => row.text[f] # None
<1> DEFINE u == target[e]
           text == [f \in Field |-> Coalesce(draft[e].text[f], token[u].text[f])]
           row == [token[u] EXCEPT !.image_uri = draft[e].image_uri, !.text = text]
<1>1. u \in Uri /\ draft[e] \in TokenMetadata /\ draft[e].image_uri \in coin
  BY DEF UpdateTokenMetadata, IInv, TypeOK, EditsOK
<1>2. /\ GoIdle(e) /\ UNCHANGED <<uploadVars, admin, replica, onChain, overlapped>>
      /\ \/ token[u] = None /\ UNCHANGED <<token, behind>>
         \/ token[u] # None /\ token' = [token EXCEPT ![u] = row] /\ behind' = behind \ {u}
  BY DEF UpdateTokenMetadata
<1>3. ASSUME token[u] # None
      PROVE  /\ token[u] \in TokenMetadata
             /\ row \in TokenMetadata /\ row.image_uri \in coin
             /\ row.is_nsfw = token[u].is_nsfw
             /\ \A f \in Field : token[u].text[f] # None => row.text[f] # None
  <2>1. token[u] \in TokenMetadata
    BY <1>1, <1>3 DEF IInv, TypeOK
  <2>2. text \in [Field -> Text \cup {None}]
    BY <1>1, <2>1 DEF Coalesce, TokenMetadata
  <2>3. \A f \in Field : token[u].text[f] # None => text[f] # None
    BY DEF Coalesce
  <2> HIDE DEF text
  <2>4. row \in TokenMetadata /\ row.image_uri = draft[e].image_uri /\ row.text = text
        /\ row.is_nsfw = token[u].is_nsfw
    BY <1>1, <2>1, <2>2 DEF TokenMetadata
  <2> QED BY <1>1, <2>1, <2>3, <2>4
<1> HIDE DEF row, text
<1> QED BY <1>1, <1>2, <1>3 DEF IInv, TypeOK

LEMMA UpdateTokenMetadataStep ==
    ASSUME IInv, NEW e \in Editor, UpdateTokenMetadata(e) PROVE IInv'
<1>1. TypeOK' /\ EditsOK'
  BY UpdateEffect, GoIdleEffect DEF IInv, TypeOK, UploadTypeOK
<1>2. TokensOK'
  BY UpdateEffect DEF IInv, TypeOK, TokensOK
<1>3. ImagesOK' /\ RequestsOK'
  BY UpdateEffect DEF IInv, ImagesOK, RequestsOK
<1> QED BY <1>1, <1>2, <1>3 DEF IInv

\* Ends and interruptions of an edit.
LEMMA EditEndsStep ==
    ASSUME IInv, NEW e \in Editor, FailEdit(e) \/ AbandonEdit(e) \/ LoseWrite(e) PROVE IInv'
<1>1. ImagesOK' /\ RequestsOK' /\ TokensOK'
  BY DEF IInv, ImagesOK, RequestsOK, TokensOK, FailEdit, AbandonEdit, LoseWrite
<1>2. CASE FailEdit(e) \/ LoseWrite(e)
  BY <1>1, <1>2, GoIdleEffect DEF IInv, TypeOK, UploadTypeOK, FailEdit, LoseWrite
<1>3. CASE AbandonEdit(e)
  BY <1>1, <1>3 DEF IInv, TypeOK, UploadTypeOK, Stages, EditsOK, AbandonEdit
<1> QED BY <1>2, <1>3

----------------------------------------------------------------------------
(* The invariant *)

LEMMA IInvInit == ASSUME Init PROVE IInv
BY DEF Init, UploadInit, IInv, TypeOK, UploadTypeOK, Stages, ImagesOK, RequestsOK,
       TokensOK, EditsOK

LEMMA IInvStep == ASSUME IInv, [Next]_vars PROVE IInv'
<1>1. CASE UploadNext /\ UNCHANGED cmsVars
  <2>1. ASSUME NEW i \in Image, ImageStep(i) PROVE IInv'
    BY <1>1, <2>1, CheckNsfwStep, UploadImageFileStep, SetNsfwStatusStep, ExpireStatusStep
       DEF ImageStep, AnyImage
  <2>2. ASSUME NEW u \in Uri, MetadataStep(u) PROVE IInv'
    BY <1>1, <2>2, ValidateMetadataRequestStep, UploadMetadataFileStep, SaveTokenMetadataStep
       DEF MetadataStep
  <2> QED BY <1>1, <2>1, <2>2 DEF UploadNext
<1>2. CASE Environment
  BY <1>2, EnvironmentStep
<1>3. ASSUME NEW a \in Account, NEW u \in Uri, NEW v \in Verdict, SetNsfw(a, u, v) PROVE IInv'
  BY <1>3, SetNsfwStep
<1>4. ASSUME NEW e \in Editor, EditStep(e) PROVE IInv'
  BY <1>4, VerifyAdminStep, FetchMetadataStep, UploadNewImageStep, UploadMetadataToUriStep,
     UpdateTokenMetadataStep, EditEndsStep DEF EditStep
<1>5. CASE UNCHANGED vars
  BY <1>5 DEF vars, IInv, TypeOK, UploadTypeOK, ImagesOK, RequestsOK, TokensOK, EditsOK
<1> QED BY <1>1, <1>2, <1>3, <1>4, <1>5 DEF Next

THEOREM Invariant == Spec => []IInv
<1>1. Init => IInv
  BY IInvInit
<1>2. IInv /\ [Next]_vars => IInv'
  BY IInvStep
<1> QED BY <1>1, <1>2, PTL DEF Spec

\* The variables keep their types.
THEOREM TypeCorrect == Spec => []TypeOK
<1>1. IInv => TypeOK
  BY DEF IInv
<1> QED BY <1>1, Invariant, PTL

\* No uri that a table, an object or the Redis verdict gives away dangles,
\* whichever calls fail or land late (upload_metadata, update_metadata).
THEOREM NoDanglingUri == Spec => []ReferencesResolve
<1>1. IInv => ReferencesResolve
  BY DEF IInv, RequestsOK, TokensOK, ImagesOK, ReferencesResolve
<1> QED BY <1>1, Invariant, PTL

\* The verdict saved in token_metadata is the one of the image it names
\* (process_and_upload_image, validate_metadata_request).
THEOREM VerdictIsTheImages == Spec => []VerdictTravels
<1>1. IInv => VerdictTravels
  BY DEF IInv, RequestsOK, VerdictTravels
<1> QED BY <1>1, Invariant, PTL

----------------------------------------------------------------------------
(* Action properties *)

\* Which steps write the rows of token at all.
LEMMA RowWriters ==
    ASSUME [Next]_vars
    PROVE  \/ UNCHANGED token
           \/ \E u \in Uri : IndexToken(u)
           \/ \E a \in Account, u \in Uri, v \in Verdict : SetNsfw(a, u, v)
           \/ \E e \in Editor : UpdateTokenMetadata(e)
<1>1. CASE UploadNext /\ UNCHANGED cmsVars
  BY <1>1
<1>2. CASE Environment
  BY <1>2 DEF Environment, Deploy, ChangeAdmins, ReplicateAdmins
<1>3. ASSUME NEW e \in Editor, EditStep(e) PROVE UNCHANGED token \/ UpdateTokenMetadata(e)
  BY <1>3 DEF EditStep, VerifyAdmin, FetchMetadata, UploadNewImage, UploadMetadataToUri,
     FailEdit, AbandonEdit, LoseWrite
<1> QED BY <1>1, <1>2, <1>3 DEF Next, vars

\* Only an admin of the primary changes the flag of a row, and nothing else with
\* it; an edit never undoes a moderation (set_nsfw_with_admin_check).
THEOREM FlagIsTheAdmins == Spec => FlagChangedByAdmin
<1>1. ASSUME IInv, NEW u \in Uri, IndexToken(u) PROVE FlagStep
  BY <1>1 DEF IndexToken, FlagStep, IInv, TypeOK
<1>2. ASSUME IInv, NEW a \in Account, NEW u \in Uri, NEW v \in Verdict, SetNsfw(a, u, v)
      PROVE  FlagStep
  <2> DEFINE row == [token[u] EXCEPT !.is_nsfw = v]
  <2>1. token[u] \in TokenMetadata /\ token' = [token EXCEPT ![u] = row] /\ admin # {}
    BY <1>2 DEF SetNsfw, MayModerate, IInv, TypeOK
  <2>2. row.is_nsfw = v
    BY <2>1 DEF TokenMetadata
  <2>3. row = [token[u] EXCEPT !.is_nsfw = row.is_nsfw]
    BY <2>2
  <2> HIDE DEF row
  <2>4. token'[u] = row /\ \A w \in Uri : w # u => token'[w] = token[w]
    BY <1>2, <2>1 DEF IInv, TypeOK
  <2> QED BY <2>1, <2>3, <2>4 DEF FlagStep
<1>3. ASSUME IInv, NEW e \in Editor, UpdateTokenMetadata(e) PROVE FlagStep
  <2>1. CASE UNCHANGED token
    BY <2>1 DEF FlagStep
  <2>2. ASSUME NEW row, token' = [token EXCEPT ![target[e]] = row],
               row.is_nsfw = token[target[e]].is_nsfw
        PROVE  FlagStep
    BY <2>2 DEF FlagStep, IInv, TypeOK
  <2> QED BY <1>3, <2>1, <2>2, UpdateEffect
<1>4. IInv /\ [Next]_vars => [FlagStep]_vars
  BY <1>1, <1>2, <1>3, RowWriters DEF FlagStep
<1> QED BY <1>4, Invariant, PTL DEF Spec, FlagChangedByAdmin

\* No step takes a text out of a row (COALESCE in update_token_metadata).
THEOREM TextsAreKept == Spec => RowKeepsTexts
<1>1. ASSUME IInv, NEW u \in Uri, IndexToken(u) PROVE KeepStep
  BY <1>1 DEF IndexToken, KeepStep, IInv, TypeOK
<1>2. ASSUME IInv, NEW a \in Account, NEW u \in Uri, NEW v \in Verdict, SetNsfw(a, u, v)
      PROVE  KeepStep
  <2>1. token[u] \in TokenMetadata /\ token' = [token EXCEPT ![u] = [token[u] EXCEPT !.is_nsfw = v]]
    BY <1>2 DEF SetNsfw, IInv, TypeOK
  <2>2. [token[u] EXCEPT !.is_nsfw = v].text = token[u].text
    BY <2>1 DEF TokenMetadata
  <2>3. \A w \in Uri : token[w] # None => token'[w].text = token[w].text
    BY <2>1, <2>2 DEF IInv, TypeOK
  <2> QED BY <2>3 DEF KeepStep
<1>3. ASSUME IInv, NEW e \in Editor, UpdateTokenMetadata(e) PROVE KeepStep
  BY <1>3, UpdateEffect DEF KeepStep, IInv, TypeOK
<1>4. IInv /\ [Next]_vars => [KeepStep]_vars
  BY <1>1, <1>2, <1>3, RowWriters DEF KeepStep
<1> QED BY <1>4, Invariant, PTL DEF Spec, RowKeepsTexts

----------------------------------------------------------------------------
(* Edits that do not overlap *)

\* A step that leaves the object and the rows of u alone, and neither starts an
\* edit of u nor moves one to its update, keeps what SyncOK says of u.
LEMMA SyncFrame ==
    ASSUME SyncOK, NEW u \in Uri, u \notin overlapped,
           object'[u] = object[u], token'[u] = token[u],
           token_metadata'[u] = token_metadata[u],
           u \in behind' <=> u \in behind,
           \A e \in Editing(u)' :
              /\ e \in Editing(u) /\ draft'[e] = draft[e]
              /\ editPc'[e] \in {"update", "lateUpdate"} => editPc[e] \in {"update", "lateUpdate"}
    PROVE  SoleEditOK(u)'
<1>1. SoleEditOK(u)
  BY DEF SyncOK
<1>2. Rows(u)' = Rows(u)
  BY DEF Rows
<1>3. Editing(u)' \subseteq Editor
  BY DEF Editing
<1> QED BY <1>1, <1>2, <1>3 DEF SoleEditOK

\* Nobody edits a token that is not on chain yet, and it has no row.
LEMMA NotYetDeployed ==
    ASSUME IInv, NEW u \in Uri, pc[u] # "answered"
    PROVE  Editing(u) = {} /\ token[u] = None
BY DEF IInv, EditsOK, TokensOK, Editing

LEMMA UploadKeepsSync ==
    ASSUME IInv, SyncOK, UploadNext, UNCHANGED cmsVars PROVE SyncOK'
<1> SUFFICES ASSUME NEW u \in Uri, u \notin overlapped PROVE SoleEditOK(u)'
  BY DEF SyncOK
<1>1. Editing(u)' = Editing(u)
  BY DEF Editing
<1>2. CASE UNCHANGED <<object, token_metadata>>
  BY <1>1, <1>2, SyncFrame
<1>3. ASSUME NEW w \in Uri, UploadMetadataFile(w) PROVE SoleEditOK(u)'
  <2>1. UNCHANGED token_metadata /\ pc[w] = "valid"
    BY <1>3 DEF UploadMetadataFile
  <2>2. CASE u = w
    <3>1. Editing(u) = {} /\ token[u] = None /\ token_metadata[u] = None
      BY <2>1, <2>2, NotYetDeployed DEF IInv, RequestsOK
    <3> QED BY <1>1, <2>1, <3>1 DEF SoleEditOK, Rows
  <2>3. CASE u # w
    BY <1>1, <1>3, <2>1, <2>3, SyncFrame DEF UploadMetadataFile, IInv, TypeOK, UploadTypeOK
  <2> QED BY <2>2, <2>3
<1>4. ASSUME NEW w \in Uri, SaveTokenMetadata(w) PROVE SoleEditOK(u)'
  <2>1. UNCHANGED object /\ pc[w] = "uploaded" /\ object[w] = metadata[w]
    BY <1>4 DEF SaveTokenMetadata, IInv, RequestsOK
  <2>2. CASE u = w
    <3>1. Editing(u) = {} /\ token[u] = None
      BY <2>1, <2>2, NotYetDeployed
    <3>2. token_metadata'[u] = object[u] \/ token_metadata'[u] = token_metadata[u]
      BY <1>4, <2>1, <2>2 DEF SaveTokenMetadata, IInv, TypeOK, UploadTypeOK
    <3>3. SoleEditOK(u)
      BY DEF SyncOK
    <3> QED BY <1>1, <2>1, <3>1, <3>2, <3>3 DEF SoleEditOK, Rows
  <2>3. CASE u # w
    BY <1>1, <1>4, <2>1, <2>3, SyncFrame DEF SaveTokenMetadata, IInv, TypeOK, UploadTypeOK
  <2> QED BY <2>2, <2>3
<1> QED BY <1>2, <1>3, <1>4 DEF UploadNext, ImageStep, MetadataStep, CheckNsfw, UploadImageFile,
     SetNsfwStatus, ExpireStatus, ValidateMetadataRequest

LEMMA IndexKeepsSync ==
    ASSUME IInv, SyncOK, NEW w \in Uri, IndexToken(w) PROVE SyncOK'
<1> SUFFICES ASSUME NEW u \in Uri, u \notin overlapped PROVE SoleEditOK(u)'
  BY DEF IndexToken, SyncOK
<1>1. UNCHANGED <<object, token_metadata, behind, editPc, target, draft>> /\ Editing(u)' = Editing(u)
  BY DEF IndexToken, Editing
<1>2. CASE u # w
  BY <1>1, <1>2, SyncFrame DEF IndexToken, IInv, TypeOK
<1>3. CASE u = w
  <2>1. token[u] = None /\ token'[u] \in {token_metadata[u], object[u]} /\ token_metadata[u] # None
    BY <1>3 DEF IndexToken, IInv, TypeOK, RequestsOK, TokensOK
  <2>2. SoleEditOK(u)
    BY DEF SyncOK
  <2> QED BY <1>1, <2>1, <2>2 DEF SoleEditOK, Rows, SameContent
<1> QED BY <1>2, <1>3

LEMMA SetNsfwKeepsSync ==
    ASSUME IInv, SyncOK, NEW a \in Account, NEW w \in Uri, NEW v \in Verdict, SetNsfw(a, w, v)
    PROVE  SyncOK'
<1> SUFFICES ASSUME NEW u \in Uri, u \notin overlapped PROVE SoleEditOK(u)'
  BY DEF SetNsfw, SyncOK
<1>1. UNCHANGED <<object, token_metadata, behind, editPc, target, draft>> /\ Editing(u)' = Editing(u)
  BY DEF SetNsfw, Editing
<1>2. CASE u # w
  BY <1>1, <1>2, SyncFrame DEF SetNsfw, IInv, TypeOK
<1>3. CASE u = w
  <2> DEFINE row == [token[u] EXCEPT !.is_nsfw = v]
  <2>1. token[u] \in TokenMetadata /\ token' = [token EXCEPT ![u] = row]
    BY <1>3 DEF SetNsfw, IInv, TypeOK
  <2>2. row \in TokenMetadata /\ SameContent(row, token[u])
    BY <2>1 DEF TokenMetadata, SameContent
  <2> HIDE DEF row
  <2>3. token'[u] = row
    BY <2>1 DEF IInv, TypeOK
  <2>4. SoleEditOK(u)
    BY DEF SyncOK
  <2> QED BY <1>1, <2>1, <2>2, <2>3, <2>4 DEF SoleEditOK, Rows, SameContent
<1> QED BY <1>2, <1>3

LEMMA FetchKeepsSync ==
    ASSUME IInv, SyncOK, NEW e \in Editor, NEW change \in [Field -> Text \cup {None}],
           FetchMetadata(e, change)
    PROVE  SyncOK'
<1> DEFINE w == target[e]
           text == [f \in Field |-> IF change[f] # None THEN change[f] ELSE object[w].text[f]]
           m == [object[w] EXCEPT !.text = text]
<1>1. /\ w \in Uri /\ w \in onChain /\ editPc[e] = "fetch"
      /\ draft' = [draft EXCEPT ![e] = m]
      /\ \E next \in {"image", "put"} : editPc' = [editPc EXCEPT ![e] = next]
      /\ overlapped' = overlapped \cup (IF Editing(w) = {} THEN {} ELSE {w})
      /\ UNCHANGED <<object, token_metadata, token, target, behind>>
  BY DEF FetchMetadata, IInv, TypeOK
<1>2. object[w] \in TokenMetadata
  BY <1>1 DEF IInv, TypeOK, UploadTypeOK, RequestsOK, TokensOK
<1>3. m.text = text /\ \A f \in Field : object[w].text[f] # None => text[f] # None
  BY <1>2 DEF TokenMetadata
<1> HIDE DEF text, m
<1> SUFFICES ASSUME NEW u \in Uri, u \notin overlapped' PROVE SoleEditOK(u)'
  BY DEF SyncOK
<1>4. SoleEditOK(u) /\ u \notin overlapped
  BY <1>1 DEF SyncOK
<1>5. \A d \in Editor : d # e => draft'[d] = draft[d] /\ editPc'[d] = editPc[d]
  BY <1>1 DEF IInv, TypeOK
<1>6. CASE u # w
  <2>1. \A d \in Editing(u)' : d \in Editing(u) /\ d # e
    BY <1>1, <1>5, <1>6 DEF Editing
  <2>2. \A d \in Editing(u)' : draft'[d] = draft[d] /\ editPc'[d] = editPc[d]
    BY <1>5, <2>1 DEF Editing
  <2> QED BY <1>1, <1>4, <2>1, <2>2, SyncFrame
<1>7. CASE u = w
  <2>1. Editing(u) = {}
    BY <1>1, <1>7
  <2>2. \A d \in Editing(u)' : d = e
    BY <1>1, <1>5, <2>1 DEF Editing
  <2>3. editPc'[e] \in {"image", "put"} /\ draft'[e] = m
    BY <1>1 DEF IInv, TypeOK
  <2>4. Rows(u)' = Rows(u)
    BY <1>1 DEF Rows
  <2> QED BY <1>1, <1>3, <1>4, <1>7, <2>2, <2>3, <2>4 DEF SoleEditOK
<1> QED BY <1>6, <1>7

LEMMA NewImageKeepsSync ==
    ASSUME IInv, SyncOK, NEW e \in Editor, NEW i \in EditImage, UploadNewImage(e, i) PROVE SyncOK'
<1>1. UNCHANGED <<object, token_metadata, token, behind, overlapped>> /\ editPc[e] = "image"
  BY DEF UploadNewImage
<1> SUFFICES ASSUME NEW u \in Uri, u \notin overlapped PROVE SoleEditOK(u)'
  BY <1>1 DEF SyncOK
<1>2. CASE GoIdle(e)
  BY <1>1, <1>2, SyncFrame DEF GoIdle, Editing, IInv, TypeOK
<1>3. CASE /\ draft' = [draft EXCEPT ![e].image_uri = i]
           /\ editPc' = [editPc EXCEPT ![e] = "put"]
           /\ UNCHANGED target
  <2>1. draft[e] \in TokenMetadata
    BY <1>1 DEF IInv, TypeOK, EditsOK
  <2>2. [draft[e] EXCEPT !.image_uri = i].text = draft[e].text
    BY <2>1 DEF TokenMetadata
  <2>3. /\ draft'[e].text = draft[e].text /\ editPc'[e] = "put"
        /\ \A d \in Editor : d # e => draft'[d] = draft[d] /\ editPc'[d] = editPc[d]
    BY <1>3, <2>2 DEF IInv, TypeOK
  <2>4. Editing(u)' = Editing(u) /\ Rows(u)' = Rows(u) /\ Editing(u) \subseteq Editor
    BY <1>1, <1>3, <2>3 DEF Editing, Rows
  <2>5. SoleEditOK(u)
    BY DEF SyncOK
  <2> QED BY <1>1, <2>3, <2>4, <2>5 DEF SoleEditOK
<1> QED BY <1>2, <1>3 DEF UploadNewImage

LEMMA PutKeepsSync ==
    ASSUME IInv, SyncOK, NEW e \in Editor, UploadMetadataToUri(e) PROVE SyncOK'
<1> DEFINE w == target[e]
<1>1. /\ w \in Uri /\ object' = [object EXCEPT ![w] = draft[e]] /\ behind' = behind \cup {w}
      /\ UNCHANGED <<token_metadata, token, overlapped>>
      /\ e \in Editing(w)
  BY DEF UploadMetadataToUri, IInv, TypeOK, EditsOK, Editing
<1>2. /\ \/ editPc' = [editPc EXCEPT ![e] = "update"] /\ UNCHANGED <<target, draft>>
         \/ GoIdle(e)
      /\ \A d \in Editor : d # e =>
            draft'[d] = draft[d] /\ editPc'[d] = editPc[d] /\ target'[d] = target[d]
  BY DEF UploadMetadataToUri, GoIdle, IInv, TypeOK
<1> SUFFICES ASSUME NEW u \in Uri, u \notin overlapped PROVE SoleEditOK(u)'
  BY <1>1 DEF SyncOK
<1>3. SoleEditOK(u)
  BY DEF SyncOK
<1>4. CASE u # w
  <2>1. \A d \in Editing(u)' : d # e
    BY <1>2, <1>4 DEF Editing, GoIdle, IInv, TypeOK
  <2>2. \A d \in Editing(u)' : d \in Editing(u) /\ draft'[d] = draft[d] /\ editPc'[d] = editPc[d]
    BY <1>2, <2>1 DEF Editing
  <2> QED BY <1>1, <1>4, <2>2, SyncFrame DEF IInv, TypeOK, UploadTypeOK
<1>5. CASE u = w
  <2>1. \A d \in Editing(u)' : d = e /\ draft'[d] = draft[e]
    BY <1>1, <1>2, <1>3, <1>5 DEF SoleEditOK, Editing, GoIdle, IInv, TypeOK
  <2>2. object'[u] = draft[e]
    BY <1>1, <1>5 DEF IInv, TypeOK, UploadTypeOK
  <2>3. Rows(u)' = Rows(u) /\ u \in behind'
    BY <1>1, <1>5 DEF Rows
  <2>4. \A f \in Field : object[u].text[f] # None => draft[e].text[f] # None
    BY <1>1, <1>3, <1>5 DEF SoleEditOK
  <2> QED BY <1>3, <2>1, <2>2, <2>3, <2>4 DEF SoleEditOK
<1> QED BY <1>4, <1>5

LEMMA UpdateKeepsSync ==
    ASSUME IInv, SyncOK, NEW e \in Editor, UpdateTokenMetadata(e) PROVE SyncOK'
<1> DEFINE w == target[e]
           text == [f \in Field |-> Coalesce(draft[e].text[f], token[w].text[f])]
           row == [token[w] EXCEPT !.image_uri = draft[e].image_uri, !.text = text]
<1>1. /\ w \in Uri /\ e \in Editing(w) /\ draft[e] \in TokenMetadata
      /\ editPc[e] \in {"update", "lateUpdate"} /\ GoIdle(e)
      /\ UNCHANGED <<object, token_metadata, overlapped>>
      /\ \/ token[w] = None /\ UNCHANGED <<token, behind>>
         \/ token[w] # None /\ token' = [token EXCEPT ![w] = row] /\ behind' = behind \ {w}
  BY DEF UpdateTokenMetadata, IInv, TypeOK, EditsOK, Editing
<1>2. \A d \in Editor : d # e =>
         draft'[d] = draft[d] /\ editPc'[d] = editPc[d] /\ target'[d] = target[d]
  BY <1>1 DEF GoIdle, IInv, TypeOK
<1>3. editPc'[e] = "idle"
  BY <1>1 DEF GoIdle, IInv, TypeOK
<1>4. ASSUME NEW u \in Uri
      PROVE  \A d \in Editing(u)' :
                d # e /\ d \in Editing(u) /\ draft'[d] = draft[d] /\ editPc'[d] = editPc[d]
  BY <1>2, <1>3 DEF Editing
<1> SUFFICES ASSUME NEW u \in Uri, u \notin overlapped PROVE SoleEditOK(u)'
  BY <1>1 DEF SyncOK
<1>5. SoleEditOK(u)
  BY DEF SyncOK
<1>6. CASE u # w \/ token[w] = None
  <2> HIDE DEF row
  <2>1. token'[u] = token[u] /\ (u \in behind' <=> u \in behind)
    BY <1>1, <1>6 DEF IInv, TypeOK
  <2> QED BY <1>1, <1>4, <2>1, SyncFrame
<1>7. CASE u = w /\ token[w] # None
  <2>1. token[u] \in TokenMetadata
    BY <1>7 DEF IInv, TypeOK
  <2>2. draft[e] = object[u] /\ \A f \in Field : token[u].text[f] # None => object[u].text[f] # None
    BY <1>1, <1>5, <1>7 DEF SoleEditOK, Rows
  <2>3. text = object[u].text
    BY <1>1, <1>7, <2>1, <2>2 DEF Coalesce, TokenMetadata
  <2>4. row \in TokenMetadata /\ SameContent(row, object[u])
    BY <1>1, <1>7, <2>1, <2>2, <2>3 DEF SameContent, TokenMetadata
  <2> HIDE DEF row, text
  <2>5. token'[u] = row /\ row # None
    BY <1>1, <1>7, <2>4 DEF IInv, TypeOK
  <2>6. Editing(u)' = {}
    BY <1>1, <1>4, <1>5, <1>7 DEF SoleEditOK
  <2> QED BY <1>1, <1>5, <2>4, <2>5, <2>6 DEF SoleEditOK, Rows, SameContent
<1> QED BY <1>6, <1>7

LEMMA OtherStepsKeepSync ==
    ASSUME IInv, SyncOK,
           \/ \E u \in Uri : Deploy(u)
           \/ \E s \in SUBSET Account : ChangeAdmins(s)
           \/ ReplicateAdmins
           \/ \E e \in Editor, a \in Account, u \in Uri : VerifyAdmin(e, a, u)
           \/ \E e \in Editor : FailEdit(e) \/ AbandonEdit(e) \/ LoseWrite(e)
           \/ UNCHANGED vars
    PROVE  SyncOK'
<1>1. UNCHANGED <<object, token_metadata, token, behind, overlapped>>
  BY DEF Deploy, ChangeAdmins, ReplicateAdmins, VerifyAdmin, FailEdit, AbandonEdit, LoseWrite, vars
<1> SUFFICES ASSUME NEW u \in Uri, u \notin overlapped PROVE SoleEditOK(u)'
  BY <1>1 DEF SyncOK
<1>2. CASE UNCHANGED editVars
  BY <1>1, <1>2, SyncFrame DEF Editing
<1>3. ASSUME NEW e \in Editor, NEW a \in Account, NEW w \in Uri, VerifyAdmin(e, a, w)
      PROVE  SoleEditOK(u)'
  BY <1>1, <1>3, SyncFrame DEF VerifyAdmin, Editing, IInv, TypeOK
<1>4. ASSUME NEW e \in Editor, FailEdit(e) \/ LoseWrite(e) PROVE SoleEditOK(u)'
  BY <1>1, <1>4, SyncFrame DEF FailEdit, LoseWrite, GoIdle, Editing, IInv, TypeOK
<1>5. ASSUME NEW e \in Editor, AbandonEdit(e) PROVE SoleEditOK(u)'
  BY <1>1, <1>5, SyncFrame DEF AbandonEdit, Editing, IInv, TypeOK
<1> QED BY <1>2, <1>3, <1>4, <1>5 DEF Deploy, ChangeAdmins, ReplicateAdmins, vars

LEMMA SyncStep == ASSUME IInv, SyncOK, [Next]_vars PROVE SyncOK'
<1>1. CASE UploadNext /\ UNCHANGED cmsVars
  BY <1>1, UploadKeepsSync
<1>2. CASE Environment
  BY <1>2, IndexKeepsSync, OtherStepsKeepSync DEF Environment
<1>3. ASSUME NEW a \in Account, NEW u \in Uri, NEW v \in Verdict, SetNsfw(a, u, v) PROVE SyncOK'
  BY <1>3, SetNsfwKeepsSync
<1>4. ASSUME NEW e \in Editor, EditStep(e) PROVE SyncOK'
  BY <1>4, FetchKeepsSync, NewImageKeepsSync, PutKeepsSync, UpdateKeepsSync, OtherStepsKeepSync
     DEF EditStep
<1>5. CASE UNCHANGED vars
  BY <1>5, OtherStepsKeepSync
<1> QED BY <1>1, <1>2, <1>3, <1>4, <1>5 DEF Next

\* An edit that does not overlap another leaves object and row alike, whatever
\* earlier edits failed half-way (update_metadata).
THEOREM EditRepairs == Spec => []ObjectMatchesRow
<1>1. Init => SyncOK
  BY DEF Init, UploadInit, SyncOK, SoleEditOK, Editing, Rows
<1>2. IInv /\ SyncOK /\ [Next]_vars => SyncOK'
  BY SyncStep
<1>3. SyncOK => ObjectMatchesRow
  BY DEF SyncOK, SoleEditOK, ObjectMatchesRow
<1> QED BY <1>1, <1>2, <1>3, Invariant, PTL DEF Spec
=============================================================================
