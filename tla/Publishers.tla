------------------------------ MODULE Publishers ------------------------------
(***************************************************************************)
(* One publication of one post target: what the nine publishers send, and  *)
(* what the platform, the store of temporary media and the target's row    *)
(* make of it.  PostPublishing takes such a publication for one step that  *)
(* is accepted or refused; this module is the inside of that step.         *)
(*                                                                         *)
(* A publisher is a list of steps, built from the post the way its method  *)
(* is written: every step is one await of it.  A step that throws leaves   *)
(* for the method's catch and finally.  The platform processes the         *)
(* containers it was given on its own, and pulls their media then.         *)
(***************************************************************************)
EXTENDS Integers, Sequences, SequencesExt, FiniteSets

CONSTANTS
    Platforms,    \* the platforms explored
    AssetLimit,   \* the most media each platform's publisher takes
    MaxAssets,    \* bound: the media of a post
    MaxReplies,   \* bound: the replies of a Threads post
    maxPolls,     \* how often Instagram's publisher polls a container
    Faults        \* the adverse events explored

(* "refused"    a request fails and has no effect                          *)
(* "lostReply"  a request has its effect and fails all the same            *)
(* "process"    the platform cannot process a container                    *)
(* "delete"     a temporary object cannot be deleted                       *)
(* "database"   a query on the post's rows fails                           *)
(* "crash"      the worker's process dies                                  *)
FaultKinds ==
    {"refused", "lostReply", "process", "delete", "database", "crash"}

AllPlatforms ==
    {"bluesky", "facebook", "instagram", "linkedin", "pinterest", "threads",
     "tiktok", "x", "youtube"}

ASSUME PublishersAssumption ==
    /\ Platforms \subseteq AllPlatforms /\ Faults \subseteq FaultKinds
    /\ AssetLimit \in [AllPlatforms -> Nat \ {0}]
    /\ MaxAssets \in Nat /\ MaxReplies \in Nat /\ maxPolls \in Nat \ {0}

VARIABLES
    platform,  \* the target's platform
    post,      \* what is to be published
    todo,      \* the steps the publisher still has to take
    held,      \* the ids the platform has returned for the media, as indexes
    temps,     \* temporaryUploads: the copies the publisher has to delete
    polls,     \* how often it has polled the containers it waits for
    store,     \* the temporary copies in S3, as indexes of media
    remote,    \* the containers at the platform
    public,    \* what the platform's users see
    target,    \* the row of post_targets
    hit        \* history: the adverse events that happened

vars ==
    <<platform, post, todo, held, temps, polls, store, remote, public, target, hit>>

-----------------------------------------------------------------------------
Media == UNION {[1..n -> {"image", "video"}] : n \in 0..MaxAssets}

\* unfit: the images that are resized first.  complete: the fields besides the
\* media are as the platform wants them: a text, a board, a short enough video.
\* linked: the post has a link, or names the Facebook page of a place.
Posts ==
    {p \in [media : Media, unfit : SUBSET (1..MaxAssets), replies : 0..MaxReplies,
            complete : BOOLEAN, linked : BOOLEAN] :
        p.unfit \subseteq {i \in DOMAIN p.media : p.media[i] = "image"}}

n == Len(post.media)
Assets == [i \in 1..n |-> i]
hasVideo == \E i \in 1..n : post.media[i] = "video"
hasImage == \E i \in 1..n : post.media[i] = "image"
Few == n <= AssetLimit[platform]
OneKind == ~(hasVideo /\ hasImage)
LoneVideo == hasVideo => n = 1

-----------------------------------------------------------------------------
(* The checks of each publisher on the media *)

BlueskyAccepts == Few /\ ~hasVideo
FacebookAccepts == n > 1 => ~hasVideo
InstagramAccepts ==
    n > 0 /\ OneKind /\ LoneVideo /\ (post.linked => n = 1) /\ (n > 1 => Few)
LinkedinAccepts == n > 1 => ~hasVideo /\ Few
ThreadsAccepts == n > 1 => Few /\ ~hasVideo
TikTokAccepts == n > 0 /\ OneKind /\ LoneVideo /\ (~hasVideo => Few)
XAccepts == Few /\ OneKind /\ LoneVideo

\* getPostMediaAsset returns any one of the post's media, or none.
YouTubeAccepts == \E i \in ToSet(held) : post.media[i] = "video"
PinterestAccepts == held # <<>>

Accepts ==
    CASE platform = "bluesky" -> BlueskyAccepts
      [] platform = "facebook" -> FacebookAccepts
      [] platform = "instagram" -> InstagramAccepts
      [] platform = "linkedin" -> LinkedinAccepts
      [] platform = "pinterest" -> PinterestAccepts
      [] platform = "threads" -> ThreadsAccepts
      [] platform = "tiktok" -> TikTokAccepts
      [] platform = "x" -> XAccepts
      [] platform = "youtube" -> YouTubeAccepts

-----------------------------------------------------------------------------
(* The steps of each publisher.  A step is its name and, of those that are *)
(* taken for each of the media or the replies, the index; a wait knows     *)
(* what it waits for.                                                      *)

StepNames ==
    {"start", "pick", "creatorInfo", "accept", "fields", "duration", "location",
     "embed", "open", "uploadUrl", "resize", "process", "upload", "uploadPicked",
     "item", "waitItems", "carousel", "container", "reply", "wait", "init", "put",
     "publish", "publishUrl", "mediaPublish", "status", "done", "details",
     "cleanup", "failed"}

Step(name) == <<name, 0>>

\* The named steps, in a loop with so many passes.
Loop(names, passes) ==
    [k \in 1..Len(names) * passes |->
        <<names[((k - 1) % Len(names)) + 1], ((k - 1) \div Len(names)) + 1>>]
Each(names) == Loop(names, n)
Optional(condition, step) == IF condition THEN <<step>> ELSE <<>>

\* The preview of a link is fetched for a post without images; the text and the
\* embed are looked at after the uploads.
BlueskySteps ==
    <<Step("accept")>> \o Each(<<"upload">>) \o Optional(n = 0 /\ post.linked, Step("embed"))
    \o <<Step("fields"), Step("publish"), Step("done")>>

\* Each photo is uploaded unpublished, and the feed post attaches them.
FacebookPhotos ==
    Each(<<"resize", "upload">>) \o <<Step("publish"), Step("cleanup")>>

\* One photo or video is published with its url.
FacebookSteps ==
    <<Step("accept")>> \o (IF n > 1 THEN FacebookPhotos ELSE <<Step("publishUrl")>>)
    \o <<Step("done")>>

InstagramSingle == Optional(hasVideo, <<"process", 1>>) \o <<Step("container")>>

Carousel == Each(<<"item">>) \o <<Step("waitItems"), Step("carousel")>>

\* Mutant: the copy is deleted before the container is ready.
InstagramDeletesEarly ==
    <<Step("accept")>> \o Optional(post.linked, Step("location"))
    \o (IF n = 1 THEN InstagramSingle ELSE Carousel)
    \o <<Step("cleanup"), Step("wait"), Step("mediaPublish"), Step("done"),
         Step("details")>>

InstagramSteps ==
    <<Step("accept")>> \o Optional(post.linked, Step("location"))
    \o (IF n = 1 THEN InstagramSingle ELSE Carousel)
    \o <<Step("wait"), Step("mediaPublish"), Step("done"), Step("details"),
         Step("cleanup")>>

\* Register, upload the bytes, for every image; or for the one video.
LinkedinImages == Each(<<"upload">>) \o <<Step("publish")>>
LinkedinVideo == <<<<"upload", 1>>, Step("publish")>>

LinkedinSteps ==
    <<Step("accept")>> \o (IF hasVideo THEN LinkedinVideo ELSE LinkedinImages)
    \o <<Step("done")>>

PinterestSteps ==
    <<Step("pick"), Step("accept"), Step("fields"), Step("uploadPicked"),
      Step("publish"), Step("done")>>

ThreadsReplies == Loop(<<"reply", "wait", "mediaPublish">>, post.replies)

ThreadsSteps ==
    <<Step("accept")>> \o (IF n > 1 THEN Carousel ELSE <<Step("container")>>)
    \o <<Step("wait"), Step("mediaPublish")>> \o ThreadsReplies
    \o <<Step("done"), Step("details")>>

TikTokVideo == <<Step("duration"), Step("init"), Step("put")>>

\* The photos' copies are deleted when the request that names them returned.
TikTokPhotos == Each(<<"resize">>) \o <<Step("init"), Step("cleanup")>>

TikTokSteps ==
    <<Step("creatorInfo"), Step("accept")>> \o (IF hasVideo THEN TikTokVideo ELSE TikTokPhotos)
    \o <<Step("status"), Step("done")>>

\* A video is uploaded by INIT, APPEND and FINALIZE.
XSteps ==
    <<Step("accept")>> \o Each(<<"upload">>) \o <<Step("publish"), Step("done")>>

YouTubeSteps ==
    <<Step("pick"), Step("accept"), Step("open"), Step("uploadUrl"),
      Step("publish"), Step("done")>>

Steps ==
    CASE platform = "bluesky" -> BlueskySteps
      [] platform = "facebook" -> FacebookSteps
      [] platform = "instagram" -> InstagramSteps
      [] platform = "linkedin" -> LinkedinSteps
      [] platform = "pinterest" -> PinterestSteps
      [] platform = "threads" -> ThreadsSteps
      [] platform = "tiktok" -> TikTokSteps
      [] platform = "x" -> XSteps
      [] platform = "youtube" -> YouTubeSteps

Init ==
    /\ platform \in Platforms
    /\ post \in Posts
    /\ todo = <<Step("start")>>
    /\ held = <<>> /\ temps = {} /\ polls = 0
    /\ store = {} /\ remote = <<>> /\ public = <<>>
    /\ target = "PENDING"
    /\ hit = {}

-----------------------------------------------------------------------------
(* How a step ends *)

At(name) == todo # <<>> /\ Head(todo)[1] = name
Asset == Head(todo)[2]
Rest == Tail(todo)

Advance == todo' = Rest

\* Mutant: the copies are deleted on success only.
UnwoundPlain == <<Step("failed")>>

\* The catch marks the target FAILED.  Instagram's finally is around the whole
\* method, Facebook's and TikTok's around the uploads only.
Unwound ==
    IF Step("cleanup") \notin ToSet(Rest) THEN <<Step("failed")>>
    ELSE IF platform = "instagram" THEN <<Step("failed"), Step("cleanup")>>
    ELSE <<Step("cleanup"), Step("failed")>>

Throw == todo' = Unwound

Happens(kind) == kind \in Faults /\ hit' = hit \cup {kind}

Fails(kind) == Happens(kind) /\ Throw

\* A request to the platform, and what it changes there.
Request(Effect, Nothing) ==
    \/ Effect /\ Advance /\ UNCHANGED hit
    \/ Effect /\ Fails("lostReply")
    \/ Nothing /\ Fails("refused")

Throws(condition) ==
    /\ IF condition THEN Throw ELSE Advance
    /\ UNCHANGED hit

here == <<store, temps>>
there == <<remote, public>>
given == <<platform, post>>

-----------------------------------------------------------------------------
(* Reading and checking the post *)

\* The account and the media are read.
Start ==
    /\ At("start")
    /\ \/ todo' = Steps /\ UNCHANGED hit
       \/ Fails("database")
    /\ UNCHANGED <<given, held, here, there, polls, target>>

Pick ==
    /\ At("pick")
    /\ \/ /\ IF n = 0 THEN held' = <<>> ELSE \E i \in 1..n : held' = <<i>>
          /\ Throws(FALSE)
       \/ Fails("database") /\ UNCHANGED held
    /\ UNCHANGED <<given, here, there, polls, target>>

CheckMedia ==
    /\ At("accept") /\ Throws(~Accepts)
    /\ UNCHANGED <<given, held, here, there, polls, target>>

CheckFields ==
    /\ At("fields") /\ Throws(~post.complete)
    /\ UNCHANGED <<given, held, here, there, polls, target>>

\* ffprobe may fail, or find the video too long.
MeasureVideo ==
    /\ At("duration")
    /\ Throws(~post.complete) \/ Fails("refused")
    /\ UNCHANGED <<given, held, here, there, polls, target>>

\* The Facebook page is not connected, or has no location.
FindLocation ==
    /\ At("location")
    /\ IF post.complete THEN Request(TRUE, TRUE) ELSE Throws(TRUE)
    /\ UNCHANGED <<given, held, here, there, polls, target>>

\* A creator who cannot post now counts as a refusal.
AskCreator ==
    /\ At("creatorInfo") /\ Request(TRUE, TRUE)
    /\ UNCHANGED <<given, held, here, there, polls, target>>

\* Whatever fails in it, the post goes on without its preview.
EmbedLink ==
    /\ At("embed") /\ Advance
    /\ UNCHANGED hit \/ Happens("refused")
    /\ UNCHANGED <<given, held, here, there, polls, target>>

OpenUpload ==
    /\ At("open") /\ Request(TRUE, TRUE)
    /\ UNCHANGED <<given, held, here, there, polls, target>>

\* The client's post returns the body of the response, never its headers.
ReturnsHeaders == FALSE

\* initResponse.headers.location
UploadUrl ==
    /\ At("uploadUrl")
    /\ Throws(~ReturnsHeaders)
    /\ UNCHANGED <<given, held, here, there, polls, target>>

-----------------------------------------------------------------------------
(* Preparing and uploading the media *)

\* Mutant: only the last id is kept.
CollectLast == held' = <<Asset>>

Collect == held' = Append(held, Asset)

\* getOrCreateResizedImage; TikTok's publisher collects the urls.
Resize ==
    /\ At("resize")
    /\ \/ /\ store' = store \cup ({Asset} \cap post.unfit)
          /\ temps' = temps \cup ({Asset} \cap post.unfit)
          /\ Advance /\ UNCHANGED hit
       \/ /\ Asset \in post.unfit /\ Fails("lostReply")
          /\ store' = store \cup {Asset} /\ UNCHANGED temps
       \/ Fails("refused") /\ UNCHANGED here
    /\ IF platform = "tiktok" THEN Collect ELSE UNCHANGED held
    /\ UNCHANGED <<given, there, polls, target>>

\* A video that cannot be processed is sent as it is.
ProcessVideo ==
    /\ At("process")
    /\ \/ store' = {Asset} /\ temps' = {Asset} /\ UNCHANGED hit
       \/ Happens("lostReply") /\ store' = {Asset} /\ UNCHANGED temps
       \/ Happens("refused") /\ UNCHANGED here
    /\ Advance
    /\ UNCHANGED <<given, held, there, polls, target>>

Upload ==
    /\ \/ At("upload") /\ Request(Collect, UNCHANGED held)
       \/ /\ At("uploadPicked") /\ UNCHANGED held
          /\ IF post.media[Head(held)] = "video" THEN Request(TRUE, TRUE)
                                                 ELSE Throws(FALSE)
    /\ UNCHANGED <<given, here, there, polls, target>>

\* deleteObject of every temporary upload; a failure is logged.
Cleanup ==
    /\ At("cleanup")
    /\ \/ store' = store \ temps /\ UNCHANGED hit
       \/ /\ temps # {} /\ Happens("delete")
          /\ \E kept \in (SUBSET temps) \ {{}} : store' = store \ (temps \ kept)
    /\ Advance
    /\ UNCHANGED <<given, held, temps, there, polls, target>>

-----------------------------------------------------------------------------
(* Containers *)

NewContainer(role, media, status) ==
    [role |-> role, media |-> media, status |-> status, copies |-> temps \cap ToSet(media)]

Create(role, media, status) ==
    Request(remote' = Append(remote, NewContainer(role, media, status)),
            UNCHANGED remote)

Finished(c) == remote[c].status = "FINISHED"
Items == {c \in DOMAIN remote : remote[c].role = "item"}
Newest == Len(remote)

CreateContainer ==
    /\ \/ At("item") /\ Create("item", <<Asset>>, "IN_PROGRESS") /\ Collect
       \/ At("container") /\ Create("root", Assets, "IN_PROGRESS") /\ UNCHANGED held
       \/ At("reply") /\ Create("reply", <<>>, "IN_PROGRESS") /\ UNCHANGED held
       \/ /\ At("init") /\ UNCHANGED held
          /\ IF hasVideo THEN Create("root", Assets, "AWAITING")
                         ELSE Create("root", held, "IN_PROGRESS")
    /\ UNCHANGED <<given, here, public, polls, target>>

\* The platform takes a carousel of finished items only.
CreateCarousel ==
    /\ At("carousel")
    /\ IF \A c \in Items : Finished(c)
       THEN Create("root", held, "IN_PROGRESS")
       ELSE Throws(TRUE) /\ UNCHANGED remote
    /\ UNCHANGED <<given, held, here, public, polls, target>>

Put ==
    /\ At("put")
    /\ Request(remote' = [remote EXCEPT ![Newest].status = "IN_PROGRESS"],
               UNCHANGED remote)
    /\ UNCHANGED <<given, held, here, public, polls, target>>

Awaited ==
    CASE At("waitItems") -> Items
      [] At("wait") -> {Newest}
      [] OTHER -> {}

\* Mutant: no poll is the last.
GiveUpNever == FALSE

\* Only Instagram's publisher counts its polls.
GiveUp ==
    /\ Awaited # {} /\ platform = "instagram" /\ polls + 1 >= maxPolls
    /\ \E c \in Awaited : remote[c].status = "IN_PROGRESS"
    /\ Throw /\ polls' = 0 /\ hit' = hit \cup {"slow"}
    /\ UNCHANGED <<given, held, here, there, target>>

PollAgain ==
    /\ Awaited # {} /\ platform = "instagram" /\ polls + 1 < maxPolls
    /\ \E c \in Awaited : remote[c].status = "IN_PROGRESS"
    /\ polls' = polls + 1
    /\ UNCHANGED <<given, todo, held, here, there, target, hit>>

\* The poll that ends the wait.  One of Threads' publisher that reads
\* IN_PROGRESS changes nothing.
PollEnds ==
    /\ Awaited # {}
    /\ \/ /\ \A c \in Awaited : Finished(c)
          /\ Throws(FALSE)
       \/ /\ \E c \in Awaited : remote[c].status = "ERROR"
          /\ Throws(TRUE)
       \/ Fails("refused")
    /\ polls' = 0
    /\ UNCHANGED <<given, held, here, there, target>>

-----------------------------------------------------------------------------
(* Publishing, and the target's row *)

Show(role, media) == public' = Append(public, [role |-> role, media |-> media])

Publish ==
    /\ \/ At("publish") /\ Request(Show("root", held), UNCHANGED public)
       \/ At("publishUrl") /\ Request(Show("root", Assets), UNCHANGED public)
    /\ UNCHANGED <<given, held, here, remote, polls, target>>

\* media_publish and threads_publish of the container that was waited for.
MediaPublish ==
    /\ At("mediaPublish")
    /\ IF Finished(Newest)
       THEN Request(/\ Show(remote[Newest].role, remote[Newest].media)
                    /\ remote' = [remote EXCEPT ![Newest].status = "PUBLISHED"],
                    UNCHANGED there)
       ELSE Throws(TRUE) /\ UNCHANGED there
    /\ UNCHANGED <<given, held, here, polls, target>>

\* TikTok is asked once, three seconds after the upload.
FetchStatus ==
    /\ At("status")
    /\ \/ /\ remote[Newest].status = "ERROR"
          /\ Throws(TRUE)
          /\ target' = "FAILED"
       \/ /\ remote[Newest].status # "ERROR"
          /\ Throws(FALSE)
          /\ UNCHANGED target
       \/ Fails("refused") /\ UNCHANGED target
    /\ UNCHANGED <<given, held, here, there, polls>>

MarkDone ==
    /\ At("done")
    /\ \/ target' = "DONE" /\ Throws(FALSE)
       \/ UNCHANGED target /\ Fails("database")
    /\ UNCHANGED <<given, held, here, there, polls>>

\* getPostDetails for the answer, in the same try.
Details ==
    /\ At("details")
    /\ Throws(FALSE) \/ Fails("database")
    /\ UNCHANGED <<given, held, here, there, polls, target>>

\* handleSocialMediaError; a failing update is logged.
MarkFailed ==
    /\ At("failed")
    /\ \/ target' = "FAILED" /\ UNCHANGED hit
       \/ Happens("database") /\ UNCHANGED target
    /\ Advance
    /\ UNCHANGED <<given, held, here, there, polls>>

Crash ==
    /\ todo # <<>> /\ Happens("crash")
    /\ todo' = <<>>
    /\ UNCHANGED <<given, held, here, there, polls, target>>

-----------------------------------------------------------------------------
(* The platform *)

\* A container whose media can be pulled is finished; TikTok publishes it.
ProcessContainer(c) ==
    /\ remote[c].status = "IN_PROGRESS"
    /\ LET pulled == remote[c].copies \subseteq store
       IN /\ remote' = [remote EXCEPT ![c].status = IF pulled THEN "FINISHED" ELSE "ERROR"]
          /\ IF pulled /\ platform = "tiktok" THEN Show("root", remote[c].media)
                                              ELSE UNCHANGED public
    /\ UNCHANGED <<given, todo, held, here, polls, target, hit>>

RefuseContainer(c) ==
    /\ remote[c].status = "IN_PROGRESS" /\ Happens("process")
    /\ remote' = [remote EXCEPT ![c].status = "ERROR"]
    /\ UNCHANGED <<given, todo, held, here, public, polls, target>>

Platform == \E c \in DOMAIN remote : ProcessContainer(c) \/ RefuseContainer(c)

PublisherStep ==
    \/ Start \/ Pick \/ CheckMedia \/ CheckFields \/ MeasureVideo \/ FindLocation
    \/ AskCreator \/ EmbedLink \/ OpenUpload \/ UploadUrl \/ Resize \/ ProcessVideo \/ Upload
    \/ Cleanup \/ CreateContainer \/ CreateCarousel \/ Put \/ GiveUp
    \/ PollAgain \/ PollEnds
    \/ Publish \/ MediaPublish \/ FetchStatus \/ MarkDone
    \/ Details \/ MarkFailed

Next == PublisherStep \/ Crash \/ Platform

Spec == Init /\ [][Next]_vars

\* The worker runs its job's promise chain to the end; nothing is assumed of
\* the platform, neither that it finishes a container nor that a request fails.
Progress == PublisherStep /\ (hit' = hit \/ GiveUp)

FairSpec == Spec /\ WF_vars(Progress)

-----------------------------------------------------------------------------
(* Properties *)

TypeOK ==
    /\ platform \in Platforms /\ post \in Posts
    /\ todo \in Seq(StepNames \X Nat)
    /\ held \in Seq(1..MaxAssets)
    /\ temps \subseteq 1..MaxAssets /\ store \subseteq 1..MaxAssets
    /\ polls \in 0..maxPolls
    /\ remote \in Seq([role : {"item", "root", "reply"}, media : Seq(1..MaxAssets),
                       status : {"AWAITING", "IN_PROGRESS", "FINISHED", "ERROR", "PUBLISHED"},
                       copies : SUBSET (1..MaxAssets)])
    /\ public \in Seq([role : {"root", "reply"}, media : Seq(1..MaxAssets)])
    /\ target \in {"PENDING", "DONE", "FAILED"}
    /\ hit \subseteq Faults \cup {"slow"}

Roots == {k \in DOMAIN public : public[k].role = "root"}

\* What a post of this platform shows: of Pinterest and YouTube, one medium.
Wanted == IF platform \in {"pinterest", "youtube"} THEN {<<i>> : i \in 1..n} ELSE {Assets}

Requested == 1 + (IF platform = "threads" THEN post.replies ELSE 0)

\* A target marked DONE is public: one post with the post's media, all of them
\* and in their order, and its replies.  TikTok's may still be processed, but
\* everything it needs was sent.
DoneIsPublic ==
    target = "DONE" =>
        IF platform = "tiktok"
        THEN remote[Newest].status # "AWAITING" /\ remote[Newest].media = Assets
        ELSE /\ Cardinality(Roots) = 1 /\ Len(public) = Requested
             /\ \A k \in Roots : public[k].media \in Wanted

\* A target is marked FAILED because its post is not what the platform takes or
\* because something outside failed: never because the steps are in a wrong
\* order.  Two publishers are excepted: YouTube's, which reads a header that the
\* client does not return, and TikTok's, which deletes the resized copies that
\* TikTok has yet to pull.
FailedForCause ==
    target = "FAILED" =>
        \/ hit # {} \/ ~post.complete \/ ~Accepts
        \/ platform = "youtube"
        \/ platform = "tiktok" /\ post.unfit # {}

\* However a publication ends, its temporary copies are deleted from the store,
\* unless the deletion fails, the process dies, or the reply to an upload was lost.
TempsCleaned ==
    todo = <<>> /\ hit \cap {"delete", "crash", "lostReply"} = {} => store = {}

\* Every publication ends, even when the platform never finishes a container:
\* only Threads' publisher would poll for ever.
PublisherEnds == <>(todo = <<>> \/ platform = "threads")
=============================================================================
