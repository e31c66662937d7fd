------------------------------- MODULE Media -------------------------------
(***************************************************************************)
(* Images and videos (app/routers/media.py): a request asks one provider   *)
(* after the other, polls those that work asynchronously, saves the result *)
(* in a file and uploads it to MinIO or Cloudinary.  Two worker processes  *)
(* share the files, so requests interleave between any two steps.          *)
(*                                                                         *)
(* The content of a file or an object is the request that it was made for, *)
(* or Torn: part of a result, or parts of two.  A download is not checked  *)
(* for its status: what it brings counts as the result.                    *)
(***************************************************************************)
EXTENDS Integers, Sequences, SequencesExt

CONSTANTS
    Reqs, None, Torn,
    Providers,          \* IMAGE_PROVIDERS and VIDEO_PROVIDERS: a sequence for each kind
    Polled,             \* providers that answer with a job to poll
    Hosted,             \* providers that host the result, which is then downloaded
    KeySets,            \* the sets of providers that may have an API key
    Paths, BaseName,    \* other output paths, and their last component
    MaxPolls            \* 60 for Replicate, 120 for Runway

Kinds == DOMAIN Providers
Names == UNION {Range(Providers[k]) : k \in Kinds}
Bases == {BaseName[p] : p \in Paths}

ASSUME MediaAssumption ==
    /\ Kinds # {}
    /\ \A k \in Kinds : Providers[k] \in Seq(Names) /\ IsInjective(Providers[k])
    /\ Polled \subseteq Names /\ Hosted \subseteq Names /\ Polled \subseteq Hosted
    /\ BaseName \in [Paths -> Bases]
    /\ Reqs \cap Paths = {} /\ None \notin Reqs /\ Torn \notin Reqs /\ Torn # None
    /\ KeySets \subseteq SUBSET Names
    /\ MaxPolls \in Nat

VARIABLES
    keys, minio, cloudinary,   \* the environment of the process
    reqs,                      \* the requests
    files, objects, cdn,       \* what files and uploads hold
    bought, lost               \* what providers took on, and what of it was lost

settings == <<keys, minio, cloudinary>>
stores == <<files, objects, cdn>>
ledgers == <<bought, lost>>
mediaVars == <<keys, minio, cloudinary, reqs, files, objects, cdn, bought, lost>>

\* A file has the name that the request generates, for which the request stands,
\* or is at its output_path: any path, the generated name of another included.
\* Generated names (8 digits of a uuid) are taken to differ from one another.
Locations == Paths \cup Reqs
Objects == Bases \cup Reqs
Base(l) == IF l \in Reqs THEN l ELSE BaseName[l]

Url == [at : {"provider", "none"}, key : {None}] \cup [at : {"minio"}, key : Objects]
       \cup [at : {"cdn"}, key : Reqs]
NoUrl == [at |-> "none", key |-> None]

Contents == Reqs \cup {None, Torn}
Phases == {"idle", "ask", "poll", "download", "save", "write", "saved", "put", "push", "ok", "failed"}
Request == [phase : Phases, kind : Kinds, given : BOOLEAN, path : Locations,
            left : Seq(Names), polls : 0..MaxPolls, data : Contents, url : Url]

MediaTypeOK ==
    /\ keys \subseteq Names /\ minio \in BOOLEAN /\ cloudinary \in BOOLEAN
    /\ reqs \in [Reqs -> Request]
    /\ files \in [Locations -> Contents]
    /\ objects \in [Objects -> Contents]
    /\ cdn \in [Reqs -> Contents]
    /\ bought \in [Reqs -> SUBSET Names] /\ lost \in [Reqs -> SUBSET Names]

Idle(r) == [phase |-> "idle", kind |-> CHOOSE k \in Kinds : TRUE, given |-> FALSE, path |-> r,
            left |-> <<>>, polls |-> 0, data |-> None, url |-> NoUrl]

MediaInit ==
    /\ keys \in KeySets /\ minio \in BOOLEAN /\ cloudinary \in BOOLEAN
    /\ reqs = [r \in Reqs |-> Idle(r)]
    /\ files = [l \in Locations |-> None]
    /\ objects = [o \in Objects |-> None]
    /\ cdn = [r \in Reqs |-> None]
    /\ bought = [r \in Reqs |-> {}]
    /\ lost = [r \in Reqs |-> {}]

-----------------------------------------------------------------------------

Provider(r) == Head(reqs[r].left)
Turn(r, phase) == reqs' = [reqs EXCEPT ![r].phase = phase]
NextProvider(r) ==
    reqs' = [reqs EXCEPT ![r].phase = "ask", ![r].left = Tail(@), ![r].polls = 0]
Note(ledger, r) == [ledger EXCEPT ![r] = @ \cup {Provider(r)}]

\* The providers that a request may use, in the order of the code: all, or of
\* these the one that it names.
Allowed(kind, forced) ==
    IF forced = None THEN Providers[kind]
    ELSE IF forced \in Range(Providers[kind]) THEN <<forced>> ELSE <<>>

\* Faulty: without an output path, all requests save to one file.
GenerateMedia_OneFile(r, kind, out, forced) ==
    /\ reqs[r].phase = "idle"
    /\ reqs' = [reqs EXCEPT ![r] = [Idle(r) EXCEPT !.phase = "ask", !.kind = kind,
                    !.given = out # None,
                    !.path = IF out = None THEN CHOOSE q \in Reqs : TRUE ELSE out,
                    !.left = Allowed(kind, forced)]]
    /\ UNCHANGED <<settings, stores, ledgers>>

\* generate_image and generate_video, for a user on the plan "pro".
GenerateMedia(r, kind, out, forced) ==
    /\ reqs[r].phase = "idle"
    /\ reqs' = [reqs EXCEPT ![r] = [Idle(r) EXCEPT !.phase = "ask", !.kind = kind,
                    !.given = out # None, !.path = IF out = None THEN r ELSE out,
                    !.left = Allowed(kind, forced)]]
    /\ UNCHANGED <<settings, stores, ledgers>>

Skip(r) ==
    /\ reqs[r].phase = "ask" /\ reqs[r].left # <<>> /\ Provider(r) \notin keys
    /\ NextProvider(r)
    /\ UNCHANGED <<settings, stores, ledgers>>

Asks(r) ==
    /\ reqs[r].phase = "ask" /\ reqs[r].left # <<>> /\ Provider(r) \in keys
    /\ UNCHANGED <<settings, stores>>

\* An error status, an answer without a result, no connection, or no input image.
Refused(r) ==
    /\ Asks(r) /\ NextProvider(r)
    /\ UNCHANGED <<bought, lost>>

\* The provider works, and charges, but the POST times out.
TimesOut(r) ==
    /\ Asks(r) /\ NextProvider(r)
    /\ bought' = Note(bought, r) /\ lost' = Note(lost, r)

\* The provider works, and charges.
Accepted(r) ==
    /\ Asks(r)
    /\ Turn(r, IF Provider(r) \in Polled THEN "poll"
               ELSE IF Provider(r) \in Hosted THEN "download" ELSE "save")
    /\ bought' = Note(bought, r)
    /\ UNCHANGED lost

\* Faulty: polls once more.
PollPending_OneMore(r) ==
    /\ reqs[r].phase = "poll" /\ reqs[r].polls <= MaxPolls
    /\ reqs' = [reqs EXCEPT ![r].polls = @ + 1]
    /\ UNCHANGED <<settings, stores, ledgers>>

PollPending(r) ==
    /\ reqs[r].phase = "poll" /\ reqs[r].polls < MaxPolls
    /\ reqs' = [reqs EXCEPT ![r].polls = @ + 1]
    /\ UNCHANGED <<settings, stores, ledgers>>

PollSucceeded(r) ==
    /\ reqs[r].phase = "poll" /\ reqs[r].polls < MaxPolls
    /\ reqs' = [reqs EXCEPT ![r].phase = "download", ![r].polls = 0]
    /\ UNCHANGED <<settings, stores, ledgers>>

\* Faulty: submits the job again.
PollFailed_Again(r) ==
    /\ reqs[r].phase = "poll" /\ reqs[r].polls < MaxPolls
    /\ bought' = [bought EXCEPT ![r] = @ \ {Provider(r)}]
    /\ reqs' = [reqs EXCEPT ![r].phase = "ask", ![r].polls = 0]
    /\ UNCHANGED <<settings, stores, lost>>

\* The job failed, and is not charged.
PollFailed(r) ==
    /\ reqs[r].phase = "poll" /\ reqs[r].polls < MaxPolls
    /\ bought' = [bought EXCEPT ![r] = @ \ {Provider(r)}]
    /\ NextProvider(r)
    /\ UNCHANGED <<settings, stores, lost>>

\* Polls run out, or polling, the download or opening the file raises: the
\* provider keeps the job, and the next one is asked.
Loses(r) ==
    /\ reqs[r].phase \in {"poll", "download", "save"}
    /\ lost' = Note(lost, r)
    /\ NextProvider(r)
    /\ UNCHANGED <<settings, stores, bought>>

Download(r) ==
    /\ reqs[r].phase = "download"
    /\ Turn(r, "save")
    /\ UNCHANGED <<settings, stores, ledgers>>

\* write_bytes opens the file, which is then empty, and writes to it.  Blocking
\* calls of one worker do not interleave, those of two workers do.
SaveFile(r) ==
    /\ reqs[r].phase = "save"
    /\ files' = [files EXCEPT ![reqs[r].path] = None]
    /\ Turn(r, "write")
    /\ UNCHANGED <<settings, objects, cdn, ledgers>>

\* Another request has written to the file since it was opened, or still does.
Overlapped(r) ==
    \/ files[reqs[r].path] # None
    \/ \E q \in Reqs \ {r} : reqs[q].phase = "write" /\ reqs[q].path = reqs[r].path

WriteFile(r) ==
    /\ reqs[r].phase = "write"
    /\ \E content \in {r} \cup (IF Overlapped(r) THEN {Torn} ELSE {}) :
          files' = [files EXCEPT ![reqs[r].path] = content]
    /\ Turn(r, "saved")
    /\ UNCHANGED <<settings, objects, cdn, ledgers>>

WriteFails(r) ==
    /\ reqs[r].phase = "write"
    /\ files' = [files EXCEPT ![reqs[r].path] = Torn]
    /\ lost' = Note(lost, r)
    /\ NextProvider(r)
    /\ UNCHANGED <<settings, objects, cdn, bought>>

\* _store_media reads the file again, by its path; another request may have
\* opened it meanwhile.
ReadFile(r) ==
    /\ reqs[r].phase = "saved"
    /\ LET content == files[reqs[r].path]
       IN  reqs' = [reqs EXCEPT ![r].data = IF content = None THEN Torn ELSE content,
                                ![r].phase = IF minio THEN "put" ELSE "push"]
    /\ UNCHANGED <<settings, stores, ledgers>>

Answer(r, url) == reqs' = [reqs EXCEPT ![r].phase = "ok", ![r].url = url, ![r].data = None]

\* The object is named by the last component of the path.
UploadToMinio(r) ==
    /\ reqs[r].phase = "put"
    /\ LET key == Base(reqs[r].path)
       IN  /\ objects' = [objects EXCEPT ![key] = reqs[r].data]
           /\ Answer(r, [at |-> "minio", key |-> key])
    /\ UNCHANGED <<settings, files, cdn, ledgers>>

\* The object may have been stored although the call fails.
MinioFails(r) ==
    /\ reqs[r].phase = "put"
    /\ objects' \in {objects, [objects EXCEPT ![Base(reqs[r].path)] = reqs[r].data]}
    /\ Turn(r, "push")
    /\ UNCHANGED <<settings, files, cdn, ledgers>>

\* The public id has the file's name and the second: an upload of that name
\* may be replaced.
PublicIds(r) == {r} \cup {q \in Reqs : cdn[q] # None /\ Base(reqs[q].path) = Base(reqs[r].path)}

UploadToCloudinary(r) ==
    /\ reqs[r].phase = "push" /\ cloudinary
    /\ \E q \in PublicIds(r) :
          /\ cdn' = [cdn EXCEPT ![q] = reqs[r].data]
          /\ Answer(r, [at |-> "cdn", key |-> q])
    /\ UNCHANGED <<settings, files, objects, ledgers>>

\* Faulty: an upload that fails is a provider that failed.
StoreFails_NextProvider(r) ==
    /\ reqs[r].phase = "push"
    /\ NextProvider(r)
    /\ UNCHANGED <<settings, stores, ledgers>>

\* The file cannot be read, or no store answers (Cloudinary may have stored it
\* all the same): the answer has the provider's URL, if there is one.
StoreFails(r) ==
    /\ reqs[r].phase \in {"saved", "push"}
    /\ \/ UNCHANGED cdn
       \/ /\ reqs[r].phase = "push" /\ cloudinary
          /\ \E q \in PublicIds(r) : cdn' = [cdn EXCEPT ![q] = reqs[r].data]
    /\ Answer(r, IF Provider(r) \in Hosted THEN [at |-> "provider", key |-> None] ELSE NoUrl)
    /\ UNCHANGED <<settings, files, objects, ledgers>>

AllFailed(r) ==
    /\ reqs[r].phase = "ask" /\ reqs[r].left = <<>>
    /\ Turn(r, "failed")
    /\ UNCHANGED <<settings, stores, ledgers>>

Progress(r) ==
    \/ Skip(r) \/ Refused(r) \/ TimesOut(r) \/ Accepted(r)
    \/ PollPending(r) \/ PollSucceeded(r) \/ PollFailed(r) \/ Loses(r)
    \/ Download(r) \/ SaveFile(r) \/ WriteFile(r) \/ WriteFails(r) \/ ReadFile(r)
    \/ UploadToMinio(r) \/ MinioFails(r) \/ UploadToCloudinary(r) \/ StoreFails(r)
    \/ AllFailed(r)

MediaNext ==
    \E r \in Reqs :
        \/ \E kind \in Kinds, out \in {None} \cup Locations, forced \in {None} \cup Names :
              GenerateMedia(r, kind, out, forced)
        \/ Progress(r)

\* A step of a request ends: every call to a provider or a store has a time-out.
MediaSpec == MediaInit /\ [][MediaNext]_mediaVars /\ \A r \in Reqs : WF_mediaVars(Progress(r))

-----------------------------------------------------------------------------

Behind(url) == IF url.at = "minio" THEN objects[url.key] ELSE cdn[url.key]
Namesakes(r) == {q \in Reqs : reqs[q].phase # "idle" /\ Base(reqs[q].path) = Base(reqs[r].path)}

\* The URL that a request was answered with leads, then and later, to what was
\* made for it, unless a request chose the name of its file: then it may lead to
\* what was made for another whose file has that name, or, when two of these
\* write to one path, to parts of their results (_save_b64, _store_media,
\* _upload_to_minio, _upload_to_cloudinary).
UrlLeadsToOwn ==
    \A r \in Reqs : reqs[r].url.at \in {"minio", "cdn"} =>
        LET owner == Behind(reqs[r].url)
        IN  \/ owner = r
            \/ /\ \E q \in Namesakes(r) : reqs[q].given
               /\ \/ owner \in Namesakes(r)
                  \/ /\ owner = Torn
                     /\ \E p, q \in Namesakes(r) : p # q /\ reqs[p].path = reqs[q].path

\* A request pays for one result: whatever else a provider took on for it, the
\* polling, the download or the write lost; an upload that fails buys nothing
\* again (the loops of generate_image and generate_video).
PaidOnce ==
    \A r \in Reqs :
        bought[r] \ lost[r] = IF reqs[r].phase \in {"idle", "ask", "failed"} THEN {}
                              ELSE {Provider(r)}

\* Every request is answered: polling is bounded, and so is the list.
EveryRequestAnswered ==
    \A r \in Reqs : reqs[r].phase = "ask" ~> reqs[r].phase \in {"ok", "failed"}

=============================================================================
