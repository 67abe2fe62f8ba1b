---------------------------- MODULE CmsMetadata -----------------------------
(***************************************************************************)
(* Admin edits of a token: CmsService::update_metadata reads the metadata  *)
(* object of the token from R2, changes it, writes it back to the same     *)
(* name and copies it into the token row; CmsService::set_nsfw changes the *)
(* is_nsfw column of the row in one statement.  The token is created on    *)
(* chain with a metadata_uri made by MetadataUpload, and the row by the    *)
(* indexer, later: a token is named by its Uri.                            *)
(*                                                                         *)
(* A call that is abandoned (error, timeout, dropped handler) may still    *)
(* land, long afterwards: "latePut" and "lateUpdate".                      *)
(***************************************************************************)
EXTENDS MetadataUpload

CONSTANTS
    Account,  \* accounts with a session
    Editor    \* slots for concurrent POST /cms/token/metadata requests

VARIABLES
    admin,       \* the admin table
    replica,     \* the admin table as the read pool shows it
    onChain,     \* tokens whose contract exists
    token,       \* token[u]: the metadata columns of the token row, or None
    editPc,      \* editPc[e]: where edit e stands
    target,      \* target[e]: the token edit e is about, or None
    draft,       \* draft[e]: the metadata the edit is going to write, or None
    overlapped,  \* history: tokens two edits of which have overlapped
    behind       \* history: tokens whose row lacks what the last put wrote

editVars == <<editPc, target, draft>>
historyVars == <<overlapped, behind>>
cmsVars == <<admin, replica, onChain, token, editVars, historyVars>>
vars == <<uploadVars, cmsVars>>

Stages == {"idle", "fetch", "image", "put", "update", "latePut", "lateUpdate"}

TypeOK ==
    /\ UploadTypeOK
    /\ admin \subseteq Account
    /\ replica \subseteq Account
    /\ onChain \subseteq Uri
    /\ token \in [Uri -> TokenMetadata \cup {None}]
    /\ editPc \in [Editor -> Stages]
    /\ target \in [Editor -> Uri \cup {None}]
    /\ draft \in [Editor -> TokenMetadata \cup {None}]
    /\ overlapped \subseteq Uri
    /\ behind \subseteq Uri

Init ==
    /\ UploadInit
    /\ admin \in SUBSET Account
    /\ replica = admin
    /\ onChain = {}
    /\ token = [u \in Uri |-> None]
    /\ editPc = [e \in Editor |-> "idle"]
    /\ target = [e \in Editor |-> None]
    /\ draft = [e \in Editor |-> None]
    /\ overlapped = {}
    /\ behind = {}

----------------------------------------------------------------------------
(* Outside the server *)

\* A client that was given the metadata_uri creates the token with it.
Deploy(u) ==
    /\ pc[u] = "answered"
    /\ onChain' = onChain \cup {u}
    /\ UNCHANGED <<uploadVars, admin, replica, token, editVars, historyVars>>

\* The indexer creates the token row, from the row of token_metadata or from the
\* object the contract points to.
IndexToken(u) ==
    /\ u \in onChain /\ token[u] = None
    /\ \E m \in {token_metadata[u], object[u]} : token' = [token EXCEPT ![u] = m]
    /\ UNCHANGED <<uploadVars, admin, replica, onChain, editVars, historyVars>>

\* An operator grants or withdraws the admin right, on the primary.
ChangeAdmins(s) ==
    /\ admin # s
    /\ admin' = s
    /\ UNCHANGED <<uploadVars, replica, onChain, token, editVars, historyVars>>

\* The read pool catches up.
ReplicateAdmins ==
    /\ replica # admin
    /\ replica' = admin
    /\ UNCHANGED <<uploadVars, admin, onChain, token, editVars, historyVars>>

----------------------------------------------------------------------------
(* POST /cms/token/nsfw *)

\* Mutant: the right is looked up in the read pool (verify_admin).
MayModerate_replica(a) == a \in replica

\* AND EXISTS (SELECT 1 FROM admin WHERE account_id = $3)
MayModerate(a) == a \in admin

\* UPDATE token SET is_nsfw = $1, one statement on the primary.
SetNsfw(a, u, v) ==
    /\ MayModerate(a)
    /\ token[u] # None
    /\ token' = [token EXCEPT ![u].is_nsfw = v]
    /\ UNCHANGED <<uploadVars, admin, replica, onChain, editVars, historyVars>>

----------------------------------------------------------------------------
(* POST /cms/token/metadata *)

\* Edits that have read the object of u and whose writes may still come.
Editing(u) == {e \in Editor : target[e] = u /\ editPc[e] \notin {"idle", "fetch"}}

GoIdle(e) ==
    /\ editPc' = [editPc EXCEPT ![e] = "idle"]
    /\ target' = [target EXCEPT ![e] = None]
    /\ draft' = [draft EXCEPT ![e] = None]

\* verify_admin reads the replica; a refused request leaves no trace.
VerifyAdmin(e, a, u) ==
    /\ editPc[e] = "idle"
    /\ a \in replica
    /\ editPc' = [editPc EXCEPT ![e] = "fetch"]
    /\ target' = [target EXCEPT ![e] = u]
    /\ UNCHANGED <<uploadVars, admin, replica, onChain, token, draft, historyVars>>

\* get_token_uri and fetch_metadata, then the fields of the request replace
\* those of the object; next the new image, if the request has one.
FetchMetadata(e, change) ==
    LET u == target[e]
        text == [f \in Field |-> IF change[f] # None THEN change[f] ELSE object[u].text[f]]
    IN  /\ editPc[e] = "fetch"
        /\ u \in onChain
        /\ draft' = [draft EXCEPT ![e] = [object[u] EXCEPT !.text = text]]
        /\ \E next \in {"image", "put"} : editPc' = [editPc EXCEPT ![e] = next]
        /\ overlapped' = overlapped \cup (IF Editing(u) = {} THEN {} ELSE {u})
        /\ UNCHANGED <<uploadVars, admin, replica, onChain, token, target, behind>>

\* upload_new_image: a fresh image, stored without asking for a verdict.
UploadNewImage(e, i) ==
    /\ editPc[e] = "image"
    /\ i \notin coin
    /\ \/ /\ coin' = coin \cup {i}
          /\ draft' = [draft EXCEPT ![e].image_uri = i]
          /\ editPc' = [editPc EXCEPT ![e] = "put"]
          /\ UNCHANGED target
       \/ coin' \in {coin, coin \cup {i}} /\ GoIdle(e)
    /\ UNCHANGED <<imageVars, requestVars, object, admin, replica, onChain, token, historyVars>>

\* upload_metadata_to_uri overwrites the object, in time or late.
UploadMetadataToUri(e) ==
    /\ editPc[e] \in {"put", "latePut"}
    /\ object' = [object EXCEPT ![target[e]] = draft[e]]
    /\ behind' = behind \cup {target[e]}
    /\ IF editPc[e] = "put"
       THEN editPc' = [editPc EXCEPT ![e] = "update"] /\ UNCHANGED <<target, draft>>
       ELSE GoIdle(e)
    /\ UNCHANGED <<imageVars, coin, requestVars, admin, replica, onChain, token, overlapped>>

\* Mutants: the arguments of COALESCE swapped; COALESCE dropped.
Coalesce_swapped(new, old) == IF old = None THEN new ELSE old
Coalesce_dropped(new, old) == new

\* COALESCE($n, column)
Coalesce(new, old) == IF new = None THEN old ELSE new

\* update_token_metadata: the columns description .. telegram and image_uri, not
\* is_nsfw.  No row (the indexer is late) is not an error: nothing is written.
UpdateTokenMetadata(e) ==
    LET u == target[e]
        row == [token[u] EXCEPT
                  !.image_uri = draft[e].image_uri,
                  !.text = [f \in Field |-> Coalesce(draft[e].text[f], token[u].text[f])]]
    IN  /\ editPc[e] \in {"update", "lateUpdate"}
        /\ GoIdle(e)
        /\ \/ token[u] = None /\ UNCHANGED <<token, behind>>
           \/ /\ token[u] # None
              /\ token' = [token EXCEPT ![u] = row]
              /\ behind' = behind \ {u}
        /\ UNCHANGED <<uploadVars, admin, replica, onChain, overlapped>>

\* An error, a timeout or a dropped handler before the first write.
FailEdit(e) ==
    /\ editPc[e] \in {"fetch", "image"}
    /\ GoIdle(e)
    /\ UNCHANGED <<uploadVars, admin, replica, onChain, token, historyVars>>

\* The same while a write is on its way: it may still land ...
AbandonEdit(e) ==
    /\ editPc[e] \in {"put", "update"}
    /\ editPc' = [editPc EXCEPT ![e] = IF @ = "put" THEN "latePut" ELSE "lateUpdate"]
    /\ UNCHANGED <<uploadVars, admin, replica, onChain, token, target, draft, historyVars>>

\* ... or not.
LoseWrite(e) ==
    /\ editPc[e] \in {"latePut", "lateUpdate"}
    /\ GoIdle(e)
    /\ UNCHANGED <<uploadVars, admin, replica, onChain, token, historyVars>>

----------------------------------------------------------------------------
EditStep(e) ==
    \/ \E a \in Account, u \in Uri : VerifyAdmin(e, a, u)
    \/ \E change \in [Field -> Text \cup {None}] : FetchMetadata(e, change)
    \/ \E i \in EditImage : UploadNewImage(e, i)
    \/ UploadMetadataToUri(e)
    \/ UpdateTokenMetadata(e)
    \/ FailEdit(e)
    \/ AbandonEdit(e)
    \/ LoseWrite(e)

Environment ==
    \/ \E u \in Uri : Deploy(u) \/ IndexToken(u)
    \/ \E s \in SUBSET Account : ChangeAdmins(s)
    \/ ReplicateAdmins

Next ==
    \/ UploadNext /\ UNCHANGED cmsVars
    \/ Environment
    \/ \E a \in Account, u \in Uri, v \in Verdict : SetNsfw(a, u, v)
    \/ \E e \in Editor : EditStep(e)

Spec == Init /\ [][Next]_vars

----------------------------------------------------------------------------
(* Properties *)

\* Whatever fails or lands late, no reader meets a dangling name: a row of
\* token_metadata has its object, and the object, the token row and the verdict
\* in Redis name an image that is stored.
ReferencesResolve ==
    /\ \A u \in Uri :
          /\ token_metadata[u] # None => object[u] # None
          /\ object[u] # None => object[u].image_uri \in coin
          /\ token[u] # None => token[u].image_uri \in coin
    /\ \A i \in AnyImage : nsfw_status[i] # None => i \in coin

\* The is_nsfw of a token row changes only while some account holds the admin
\* right on the primary, and with nothing else: an edit that read the metadata
\* before a moderation decision does not undo it when it writes afterwards, and
\* a withdrawn right is seen at once ("to prevent TOCTOU attacks").
FlagStep ==
    \A u \in Uri :
        token[u] # None /\ token'[u].is_nsfw # token[u].is_nsfw =>
            admin # {} /\ token'[u] = [token[u] EXCEPT !.is_nsfw = token'[u].is_nsfw]

FlagChangedByAdmin == [][FlagStep]_vars

\* Row and object agree on the columns that update_token_metadata writes.
SameContent(m1, m2) == m1.image_uri = m2.image_uri /\ m1.text = m2.text

\* An edit repairs what a failed one left: once the row of a token was updated
\* after the last put, its object and its row show the same image and texts,
\* provided no two edits of the token have ever overlapped.
ObjectMatchesRow ==
    \A u \in Uri \ (overlapped \cup behind) :
        token[u] # None => SameContent(token[u], object[u])

\* The row never loses a text, not even to an edit that started from an older
\* object while another one added the text (COALESCE in update_token_metadata).
KeepStep ==
    \A u \in Uri, f \in Field :
        token[u] # None /\ token[u].text[f] # None => token'[u].text[f] # None

RowKeepsTexts == [][KeepStep]_vars
----------------------------------------------------------------------------
(* The inductive invariant behind the safety properties *)

\* A token on chain was created from an answered request.
TokensOK ==
    /\ \A u \in onChain : pc[u] = "answered"
    /\ \A u \in Uri : token[u] # None => u \in onChain /\ token[u].image_uri \in coin

\* An edit past its first read is about a token on chain, and what it is going to
\* write names a stored image.
EditsOK ==
    \A e \in Editor :
        /\ editPc[e] # "idle" => target[e] \in Uri
        /\ editPc[e] \notin {"idle", "fetch"} =>
              /\ target[e] \in onChain
              /\ draft[e] # None
              /\ draft[e].image_uri \in coin

\* The rows that name u: the one of the upload and the one of the indexer.
Rows(u) == {token[u], token_metadata[u]} \ {None}

\* Of a token whose edits never overlapped: at most one edit may still write; it
\* only adds texts to the object, and has put exactly what it is about to copy
\* into the row; no row has a text that the object lacks; and what the indexer
\* may still copy is the object itself, unless an edit came first.
SoleEditOK(u) ==
    /\ \A e1, e2 \in Editing(u) : e1 = e2
    /\ \A e \in Editing(u) :
          /\ editPc[e] \in {"update", "lateUpdate"} => draft[e] = object[u]
          /\ \A f \in Field : object[u].text[f] # None => draft[e].text[f] # None
    /\ \A r \in Rows(u), f \in Field : r.text[f] # None => object[u].text[f] # None
    /\ u \notin behind /\ token[u] = None /\ token_metadata[u] # None =>
          token_metadata[u] = object[u]
    /\ u \notin behind /\ token[u] # None => SameContent(token[u], object[u])

SyncOK == \A u \in Uri \ overlapped : SoleEditOK(u)

IInv == TypeOK /\ ImagesOK /\ RequestsOK /\ TokensOK /\ EditsOK
=============================================================================
