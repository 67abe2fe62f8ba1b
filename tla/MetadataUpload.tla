--------------------------- MODULE MetadataUpload ---------------------------
(***************************************************************************)
(* How a token's metadata is published before the token exists:            *)
(* MetadataService::process_and_upload_image moderates an image, stores it *)
(* in R2 and keeps the verdict in Redis for NSFW_STATUS_EXPIRATION;        *)
(* validate_metadata_request takes the verdict from there, and             *)
(* upload_metadata writes the JSON object to R2 and a row to               *)
(* token_metadata.                                                         *)
(*                                                                         *)
(* An image and a metadata object have fresh uuids: members of Image and   *)
(* Uri.  An abandoned call (error or dropped handler) took effect or did   *)
(* not; which one is decided at once, since nobody else writes the uuid.   *)
(***************************************************************************)
CONSTANTS
    Image,      \* image files sent to POST /metadata/image
    EditImage,  \* image files sent with an admin's edit (CmsMetadata)
    Uri,        \* metadata objects, one per POST /metadata/metadata request
    Field,      \* optional text fields: description, website, twitter, telegram
    Text,       \* values of a text field
    None        \* absence of a value

Verdict == {"nsfw", "sfw"}

\* Every upload draws a fresh uuid, so that an image_uri belongs to one file.
AnyImage == Image \cup EditImage

ASSUME NoneAssumption == None \notin Verdict \cup Text \cup AnyImage
ASSUME ImageAssumption == Image \cap EditImage = {}

VARIABLES
    imagePc,        \* imagePc[i]: where the upload of image i stands
    verdict,        \* verdict[i]: what check_nsfw said about i, or None
    coin,           \* images stored under coin/ in R2
    nsfw_status,    \* nsfw_status[i]: the Redis key nsfw:<image_uri>, or None
    pc,             \* pc[u]: where the metadata request that makes u stands
    metadata,       \* metadata[u]: the TokenMetadata the request validated
    object,         \* object[u]: metadata/<u>.json in R2, or None
    token_metadata  \* token_metadata[u]: the row with this metadata_url, or None

imageVars == <<imagePc, verdict, nsfw_status>>
requestVars == <<pc, metadata, token_metadata>>
uploadVars == <<imageVars, coin, requestVars, object>>

TokenMetadata == [image_uri : AnyImage, is_nsfw : Verdict, text : [Field -> Text \cup {None}]]

ASSUME MetadataAssumption == None \notin TokenMetadata

UploadTypeOK ==
    /\ imagePc \in [Image -> {"new", "checked", "stored", "answered", "failed"}]
    /\ verdict \in [AnyImage -> Verdict \cup {None}]
    /\ coin \subseteq AnyImage
    /\ nsfw_status \in [AnyImage -> Verdict \cup {None}]
    /\ pc \in [Uri -> {"new", "valid", "uploaded", "answered", "failed"}]
    /\ metadata \in [Uri -> TokenMetadata \cup {None}]
    /\ object \in [Uri -> TokenMetadata \cup {None}]
    /\ token_metadata \in [Uri -> TokenMetadata \cup {None}]

UploadInit ==
    /\ imagePc = [i \in Image |-> "new"]
    /\ verdict = [i \in AnyImage |-> None]
    /\ coin = {}
    /\ nsfw_status = [i \in AnyImage |-> None]
    /\ pc = [u \in Uri |-> "new"]
    /\ metadata = [u \in Uri |-> None]
    /\ object = [u \in Uri |-> None]
    /\ token_metadata = [u \in Uri |-> None]

----------------------------------------------------------------------------
(* POST /metadata/image *)

\* The format is recognised and Rekognition answers, or the request fails.
CheckNsfw(i) ==
    /\ imagePc[i] = "new"
    /\ \/ /\ imagePc' = [imagePc EXCEPT ![i] = "checked"]
          /\ \E v \in Verdict : verdict' = [verdict EXCEPT ![i] = v]
       \/ /\ imagePc' = [imagePc EXCEPT ![i] = "failed"]
          /\ UNCHANGED verdict
    /\ UNCHANGED <<nsfw_status, coin, requestVars, object>>

\* The put of coin/<image_id>.
UploadImageFile(i) ==
    /\ imagePc[i] = "checked"
    /\ \/ imagePc' = [imagePc EXCEPT ![i] = "stored"] /\ coin' = coin \cup {i}
       \/ imagePc' = [imagePc EXCEPT ![i] = "failed"] /\ coin' \in {coin, coin \cup {i}}
    /\ UNCHANGED <<verdict, nsfw_status, requestVars, object>>

\* pset_ex of nsfw:<image_uri>: the verdict outlives the request, for a while.
SetNsfwStatus(i) ==
    /\ imagePc[i] = "stored"
    /\ imagePc' \in {[imagePc EXCEPT ![i] = "answered"], [imagePc EXCEPT ![i] = "failed"]}
    /\ \/ nsfw_status' = [nsfw_status EXCEPT ![i] = verdict[i]]
       \/ imagePc'[i] = "failed" /\ UNCHANGED nsfw_status
    /\ UNCHANGED <<verdict, coin, requestVars, object>>

\* NSFW_STATUS_EXPIRATION has passed, or Redis lost the key.
ExpireStatus(i) ==
    /\ nsfw_status[i] # None
    /\ nsfw_status' = [nsfw_status EXCEPT ![i] = None]
    /\ UNCHANGED <<imagePc, verdict, coin, requestVars, object>>

----------------------------------------------------------------------------
(* POST /metadata/metadata *)

\* Mutants: a missing key read as a verdict; unwrap_or(false).
KnownVerdict_unchecked(i) == {nsfw_status[i]}
KnownVerdict_default(i) == {IF nsfw_status[i] = None THEN "sfw" ELSE nsfw_status[i]}

\* get_nsfw_status(image_uri): a missing key is refused with 400.
KnownVerdict(i) == {nsfw_status[i]} \ {None}

\* validate_metadata_request.  Any image_uri may be named, stored or not; no
\* verdict, a Redis error or a field out of bounds ends the request.
ValidateMetadataRequest(u, i, text) ==
    /\ pc[u] = "new"
    /\ \/ /\ pc' = [pc EXCEPT ![u] = "valid"]
          /\ \E v \in KnownVerdict(i) :
                metadata' = [metadata EXCEPT ![u] =
                                [image_uri |-> i, is_nsfw |-> v, text |-> text]]
       \/ /\ pc' = [pc EXCEPT ![u] = "failed"]
          /\ UNCHANGED metadata
    /\ UNCHANGED <<imageVars, coin, token_metadata, object>>

\* The put of metadata/<metadata_id>.json.
UploadMetadataFile(u) ==
    /\ pc[u] = "valid"
    /\ pc' \in {[pc EXCEPT ![u] = "uploaded"], [pc EXCEPT ![u] = "failed"]}
    /\ \/ object' = [object EXCEPT ![u] = metadata[u]]
       \/ pc'[u] = "failed" /\ UNCHANGED object
    /\ UNCHANGED <<imageVars, coin, metadata, token_metadata>>

\* Mutant: the row is saved before the object is put.
SaveTokenMetadata_early(u) ==
    /\ pc[u] = "valid"
    /\ pc' = [pc EXCEPT ![u] = "failed"]
    /\ token_metadata' = [token_metadata EXCEPT ![u] = metadata[u]]
    /\ UNCHANGED <<imageVars, coin, metadata, object>>

\* INSERT INTO token_metadata; then the client learns the metadata_uri.
SaveTokenMetadata(u) ==
    /\ pc[u] = "uploaded"
    /\ pc' \in {[pc EXCEPT ![u] = "answered"], [pc EXCEPT ![u] = "failed"]}
    /\ \/ token_metadata' = [token_metadata EXCEPT ![u] = metadata[u]]
       \/ pc'[u] = "failed" /\ UNCHANGED token_metadata
    /\ UNCHANGED <<imageVars, coin, metadata, object>>

----------------------------------------------------------------------------
ImageStep(i) == CheckNsfw(i) \/ UploadImageFile(i) \/ SetNsfwStatus(i) \/ ExpireStatus(i)

MetadataStep(u) ==
    \/ \E i \in AnyImage, text \in [Field -> Text \cup {None}] : ValidateMetadataRequest(u, i, text)
    \/ UploadMetadataFile(u)
    \/ SaveTokenMetadata(u)

UploadNext == (\E i \in Image : ImageStep(i)) \/ (\E u \in Uri : MetadataStep(u))

----------------------------------------------------------------------------
(* Properties *)

\* A row of token_metadata carries the verdict of the moderation of the very
\* image it names, although the verdict travels through a Redis key that may
\* expire between the two requests ("please upload image first").
VerdictTravels ==
    \A u \in Uri : token_metadata[u] # None =>
        token_metadata[u].is_nsfw = verdict[token_metadata[u].image_uri]
----------------------------------------------------------------------------
(* The part of the inductive invariant that speaks of the uploads *)

\* A verdict is known from the check on, and an image is in R2 from the put on,
\* never before the check; the Redis key repeats the verdict of a stored image.
ImagesOK ==
    /\ \A i \in Image :
          /\ imagePc[i] \in {"checked", "stored", "answered"} => verdict[i] # None
          /\ imagePc[i] \in {"stored", "answered"} => i \in coin
          /\ imagePc[i] = "new" => i \notin coin
    /\ \A i \in AnyImage : nsfw_status[i] # None => i \in coin /\ nsfw_status[i] = verdict[i]

\* A validated request carries the verdict of a stored image; what it has written
\* so far is exactly what it validated.
RequestsOK ==
    \A u \in Uri :
        /\ pc[u] = "new" => metadata[u] = None
        /\ pc[u] \in {"valid", "uploaded", "answered"} => metadata[u] # None
        /\ metadata[u] # None =>
              /\ metadata[u].image_uri \in coin
              /\ metadata[u].is_nsfw = verdict[metadata[u].image_uri]
        /\ pc[u] \in {"uploaded", "answered"} => object[u] # None
        /\ pc[u] = "uploaded" => object[u] = metadata[u]
        /\ pc[u] \in {"new", "valid"} => token_metadata[u] = None
        /\ pc[u] = "answered" => token_metadata[u] # None
        /\ token_metadata[u] # None => object[u] # None /\ token_metadata[u] = metadata[u]
        /\ object[u] # None => object[u].image_uri \in coin
=============================================================================
