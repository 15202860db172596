-------------------------- MODULE EncryptedRecord --------------------------
(***************************************************************************)
(* Encryption at rest of the API layer (langgraph_api/encryption): what is *)
(* stored of a metadata dictionary, which marker goes with it, and what a  *)
(* reader, the scheduler of crons and the worker make of it.               *)
(*                                                                         *)
(* A stored dictionary is its cells and two reserved keys: the marker      *)
(* __encryption_context__ and the blob context __blob_encryption_context__.*)
(* A cell is plain, AES ciphertext (told by its prefix) or the ciphertext  *)
(* of the deployment's own encryptor under one tenant's context.  Updates  *)
(* merge dictionaries key by key, the reserved keys included; the server   *)
(* may be deployed again with another encryption.  The encryptor and the   *)
(* decryptor of the deployment are external: under the context a cell was  *)
(* encrypted with it is decrypted, under another one the decryptor fails,  *)
(* and a plain value (the fields that are never encrypted) passes.         *)
(***************************************************************************)
EXTENDS Naturals, FiniteSets

CONSTANTS
    Tenants,    \* encryption contexts a request may carry (X-Encryption-Context)
    Keys,       \* keys of the metadata dictionaries
    Allowed,    \* LANGGRAPH_AES_JSON_KEYS
    Skipped,    \* NEVER_ENCRYPT_FIELDS_GLOBAL and NEVER_ENCRYPT_PATHS
    CronNames,  \* crons of the store
    Redeploys,  \* pairs of modes: deployments that may follow one another
    MaxSaves    \* bound on the requests that write

Nobody == "nobody"                     \* the empty encryption context
Records == {"assistant", "item", "run"} \cup CronNames
Contexts == Tenants \cup {Nobody}
Deployments == {"none", "aes", "blob", "custom", "both"}

\* A tenant's name is not one of the markers, and an encryption is taken on or
\* extended, never given up.
ASSUME EncryptedRecordAssumption ==
    /\ Tenants \cap {"none", "aes", "absent"} = {} /\ MaxSaves \in Nat
    /\ \A old, new \in Deployments : <<old, new>> \in Redeploys =>
          \/ old = "none" /\ new \in {"aes", "blob", "custom"}
          \/ old = "aes" /\ new = "both"
          \/ old = "blob" /\ new = "custom"

VARIABLES
    backend,    \* "inmem", or "core": records are kept behind gRPC
    deployed,   \* get_encryption(): no instance, AES, or the wrapper: without
                \* JSON handlers, with them, with them and the AES key
    doc,        \* the stored metadata of every record
    payload,    \* crons: metadata inside the stored payload
    creator,    \* crons: blob context at the payload's root, "absent" before put
    restored,   \* the scheduler's encryption_context variable
    made,       \* what the last firing of a cron came to, and its run's context
    eras,       \* history: the encryptions that wrote cells of a record
    saves       \* requests so far

encVars == <<backend, deployed, doc, payload, creator, restored, made, eras, saves>>

Absent == [form |-> "absent", by |-> Nobody]
Plain == [form |-> "plain", by |-> Nobody]
EmptyDoc == [marker |-> "none", blob |-> Nobody, cells |-> [k \in Keys |-> Absent]]
PlainDoc(ks) == [EmptyDoc EXCEPT !.cells = [k \in Keys |-> IF k \in ks THEN Plain ELSE Absent]]

(***************************************************************************)
(* Encryption                                                              *)
(***************************************************************************)
\* _extract_skip_fields: what the deployment's encryptor is given of the keys
ToEncrypt(ks) == ks \ Skipped

\* AesEncryptionInstance.encrypt_json: keys of the allowlist only, and the
\* marker only when there is one
AesEncrypted(ks) ==
    [PlainDoc(ks) EXCEPT
        !.marker = IF ks \cap Allowed = {} THEN "none" ELSE "aes",
        !.cells = [k \in Keys |-> IF k \in ks \cap Allowed THEN [form |-> "aes", by |-> Nobody]
                                  ELSE @[k]]]

\* JsonEncryptionWrapper.get_json_encryptor: the keys are kept, the marker is
\* the context of the request
CustomEncrypted(ks, t) ==
    [PlainDoc(ks) EXCEPT
        !.marker = t,
        !.cells = [k \in Keys |-> IF k \in ToEncrypt(ks) THEN [form |-> "custom", by |-> t]
                                  ELSE @[k]]]

\* encrypt_json_if_needed without a JSON encryptor: only the context is kept
BlobContextKept(ks, t) == [PlainDoc(ks) EXCEPT !.blob = t]

\* encrypt_json_if_needed for data that has no marker (with one it raises DoubleEncryptionError: see Fire)
EncryptJson(ks, t) ==
    CASE deployed = "none" -> PlainDoc(ks)
      [] deployed = "aes" -> AesEncrypted(ks)
      [] deployed = "blob" -> BlobContextKept(ks, t)
      [] deployed \in {"custom", "both"} -> CustomEncrypted(ks, t)

\* _merge_jsonb and {**old, **new}: cell by cell, reserved keys too
MergeJsonb(old, new) ==
    [marker |-> IF new.marker = "none" THEN old.marker ELSE new.marker,
     blob |-> IF new.blob = Nobody THEN old.blob ELSE new.blob,
     cells |-> [k \in Keys |-> IF new.cells[k] = Absent THEN old.cells[k] ELSE new.cells[k]]]

\* using_custom_encryption() behind gRPC: the API layer leaves the work to
\* Core, which calls back into EncryptionServicerImpl
ByCore == backend = "core" /\ deployed \in {"custom", "both"}

\* _encrypt_field_recursive: the fields never encrypted are taken out, the rest
\* goes to the wrapper's encryptor under the context Core names
EncryptFieldRecursive(ks, t) ==
    MergeJsonb(CustomEncrypted(ToEncrypt(ks), t), PlainDoc(ks \ ToEncrypt(ks)))

\* EncryptJSON, which refuses when nothing is configured (Core asks only then)
CoreEncryptJSON(ks, t) == EncryptFieldRecursive(ks, t)

\* encrypt_request and _encrypt_field: what a request stores of each field
Encrypted(ks, t) == IF ByCore THEN CoreEncryptJSON(ks, t) ELSE EncryptJson(ks, t)

KeysOf(d) == {k \in Keys : d.cells[k] # Absent}

(***************************************************************************)
(* Decryption: the forms of the cells a reader is handed, or the error     *)
(***************************************************************************)
Failed(why) == [ok |-> FALSE, why |-> why, served |-> {}]
Served(forms) == [ok |-> TRUE, why |-> "", served |-> forms]
Forms(d) == {d.cells[k].form : k \in KeysOf(d)}

\* AesEncryptionInstance.decrypt_json goes by the prefix of each value
AesDecrypted(d) == Served(Forms(d) \ {"aes"})

\* (mutant: a value without the marker of AES goes to the reader as it is)
RoutedByDeployment(d) ==
    IF deployed = "both" /\ d.marker = "aes" THEN AesDecrypted(d) ELSE Served(Forms(d))

\* JsonEncryptionWrapper.get_json_decryptor: the marker decides
RoutedByMarker(d) ==
    CASE d.marker = "none" -> Served(Forms(d))
      [] d.marker = "aes" ->
            IF deployed = "both" THEN AesDecrypted(d) ELSE Failed("missing")
      [] d.marker \in Contexts ->
            IF deployed = "blob" THEN Failed("missing")
            ELSE IF "aes" \in Forms(d) THEN Failed("routing")
            ELSE IF \A k \in KeysOf(d) : d.cells[k].form = "custom" => d.cells[k].by = d.marker
                 THEN Served(Forms(d) \ {"custom"})
                 ELSE Failed("decryptor")

\* decrypt_json_if_needed
DecryptJson(d) ==
    CASE deployed = "none" ->
            IF d.marker = "none" THEN Served(Forms(d)) ELSE Failed("missing")
      [] deployed = "aes" -> AesDecrypted(d)
      [] deployed \in {"blob", "custom", "both"} -> RoutedByMarker(d)

\* _decrypt_field_recursive: the wrapper's route, under the stored context
DecryptFieldRecursive(d) == RoutedByMarker(d)

\* DecryptJSON: the blob context, which is no cell, is kept beside the data
CoreDecryptJSON(d) == DecryptFieldRecursive(d)

\* decrypt_response, _decrypt_object and _decrypt_field: what a reader is handed
Decrypted(d) == IF ByCore THEN CoreDecryptJSON(d) ELSE DecryptJson(d)

(***************************************************************************)
(* Requests                                                                *)
(***************************************************************************)
EraOf(ks, t) ==
    CASE deployed = "aes" /\ ks \cap Allowed # {} -> {"aes"}
      [] deployed \in {"custom", "both"} -> {t}
      [] OTHER -> {}

EncInit ==
    /\ deployed \in Deployments
    /\ backend \in IF deployed = "blob" THEN {"inmem"} ELSE {"inmem", "core"}
    /\ doc = [x \in Records |-> EmptyDoc]
    /\ payload = [c \in CronNames |-> EmptyDoc]
    /\ creator = [c \in CronNames |-> "absent"]
    /\ restored = Nobody
    /\ made = [outcome |-> "none", cron |-> Nobody, ctx |-> Nobody]
    /\ eras = [x \in Records |-> {}]
    /\ saves = 0

\* One more request that writes, within the bound
Saved == saves < MaxSaves /\ saves' = saves + 1

\* POST and PATCH of an assistant: encrypt_request, then a merge in the store
SaveAssistant(t, ks) ==
    /\ Saved
    /\ doc' = [doc EXCEPT !["assistant"] = MergeJsonb(@, Encrypted(ks, t))]
    /\ eras' = [eras EXCEPT !["assistant"] = @ \cup EraOf(ks, t)]
    /\ UNCHANGED <<backend, deployed, payload, creator, restored, made>>

\* put_item: the value of a store item is encrypted by the API layer whatever
\* the backend, and replaced as a whole
PutItem(t, ks) ==
    /\ Saved
    /\ doc' = [doc EXCEPT !["item"] = EncryptJson(ks, t)]
    /\ eras' = [eras EXCEPT !["item"] = EraOf(ks, t)]
    /\ UNCHANGED <<backend, deployed, payload, creator, restored, made>>

\* create_cron: the request's context at the payload's root, the metadata in
\* the payload and in the record
CreateCron(c, t, ks) ==
    /\ Saved
    /\ creator[c] = "absent"
    /\ creator' = [creator EXCEPT ![c] = t]
    /\ doc' = [doc EXCEPT ![c] = Encrypted(ks, t)]
    /\ payload' = [payload EXCEPT ![c] = Encrypted(ks, t)]
    /\ eras' = [eras EXCEPT ![c] = EraOf(ks, t)]
    /\ UNCHANGED <<backend, deployed, restored, made>>

\* patch_cron: the record's metadata is merged, the payload's replaced, the
\* context at the root stays the creator's
PatchCron(c, t, ks) ==
    /\ Saved
    /\ creator[c] # "absent"
    /\ doc' = [doc EXCEPT ![c] = MergeJsonb(@, Encrypted(ks, t))]
    /\ payload' = [payload EXCEPT ![c] = Encrypted(ks, t)]
    /\ eras' = [eras EXCEPT ![c] = @ \cup EraOf(ks, t)]
    /\ UNCHANGED <<backend, deployed, creator, restored, made>>

\* Runs.put for create_valid_run: the assistant's stored metadata, then the
\* request's own
PutRunMetadata(t, ks) ==
    /\ doc' = [doc EXCEPT !["run"] = MergeJsonb(doc["assistant"], Encrypted(ks, t))]
    /\ eras' = [eras EXCEPT !["run"] = eras["assistant"] \cup EraOf(ks, t)]

CreateRun(t, ks) ==
    /\ Saved
    /\ PutRunMetadata(t, ks)
    /\ UNCHANGED <<backend, deployed, payload, creator, restored, made>>

\* The context the worker finds in the run's config (extract_blob_encryption_context)
WorkerContext(t) == IF deployed \in {"none", "aes"} THEN Nobody ELSE t

(***************************************************************************)
(* The scheduler of crons (cron_scheduler): one due cron.  The context is  *)
(* restored, the payload decrypted (outside the inner try), the record's   *)
(* metadata merged under it as it is stored, and the run created.          *)
(***************************************************************************)
\* set_encryption_context(enc_ctx or {}): always, an empty context too
RestoredContext(c) == creator[c]

\* get_metadata_from_payload: the record's metadata as Crons.next yields it,
\* which only Core decrypts; encrypt_json_if_needed refuses data with a marker
\* (DoubleEncryptionError)
FiredMetadata(c) == KeysOf(doc[c]) \cup KeysOf(payload[c])
AlreadyEncrypted(c) ==
    /\ ~ByCore /\ deployed # "none"
    /\ doc[c].marker # "none"

Fire(c) ==
    /\ creator[c] # "absent"
    /\ restored' = RestoredContext(c)
    /\ IF ~Decrypted(payload[c]).ok
       THEN /\ made' = [outcome |-> "raised", cron |-> c, ctx |-> Nobody]
            /\ UNCHANGED <<doc, eras>>
       ELSE IF AlreadyEncrypted(c)
       THEN /\ made' = [outcome |-> "refused", cron |-> c, ctx |-> Nobody]
            /\ UNCHANGED <<doc, eras>>
       ELSE /\ made' = [outcome |-> "run", cron |-> c, ctx |-> WorkerContext(restored')]
            /\ PutRunMetadata(restored', FiredMetadata(c))
    /\ UNCHANGED <<backend, deployed, payload, creator, saves>>

\* The server is started with another configuration; its memory is fresh
Redeploy ==
    /\ \E m \in Deployments :
          /\ <<deployed, m>> \in Redeploys /\ (m = "blob" => backend = "inmem")
          /\ deployed' = m
    /\ restored' = Nobody
    /\ UNCHANGED <<backend, doc, payload, creator, made, eras, saves>>

EncNext ==
    \/ \E t \in Contexts, ks \in SUBSET Keys :
          \/ SaveAssistant(t, ks)
          \/ PutItem(t, ks)
          \/ CreateRun(t, ks)
          \/ \E c \in CronNames : CreateCron(c, t, ks) \/ PatchCron(c, t, ks)
    \/ \E c \in CronNames : Fire(c)
    \/ Redeploy

EncSpec == EncInit /\ [][EncNext]_encVars

(***************************************************************************)
(* Properties                                                              *)
(***************************************************************************)
Cells == [form : {"absent", "plain", "aes", "custom"}, by : Contexts]
Docs == [marker : {"none", "aes"} \cup Contexts, blob : Contexts, cells : [Keys -> Cells]]

\* Every stored dictionary has one marker and one cell per key.
EncTypeOK ==
    /\ deployed \in Deployments /\ backend \in {"inmem", "core"}
    /\ doc \in [Records -> Docs]
    /\ payload \in [CronNames -> Docs]
    /\ creator \in [CronNames -> Contexts \cup {"absent"}]
    /\ restored \in Contexts
    /\ made.outcome \in {"none", "run", "refused", "raised"}
    /\ eras \in [Records -> SUBSET (Contexts \cup {"aes"})]
    /\ saves \in 0..MaxSaves

\* decrypt_json_if_needed never hands ciphertext to a reader as if it were
\* data, whatever was merged and deployed before: it decrypts every cell or
\* raises (as long as a deployment is never taken back to AES alone).
CiphertextNeverServed ==
    \A x \in Records : Decrypted(doc[x]).served \subseteq {"plain"}

\* A record all of whose encrypted cells were written by one encryption (AES,
\* or one tenant's context) can be read, also after a migration and after any
\* merges with unencrypted updates.
OneEraReadable ==
    \A x \in Records : Cardinality(eras[x]) <= 1 => Decrypted(doc[x]).ok

\* A run made by a cron works under the context its cron was created with,
\* whichever cron the scheduler fired before ("Always set ... to avoid
\* leaking context from a previous cron iteration", cron_scheduler.py).
NoContextLeak ==
    made.outcome = "run" => made.ctx \in {Nobody, creator[made.cron]}

=============================================================================
