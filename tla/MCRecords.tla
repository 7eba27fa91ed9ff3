------------------------------ MODULE MCRecords ------------------------------
(***************************************************************************)
(* What the host writes down and gives out: a key's limits, the key file,  *)
(* the feed of runs, the image jobs and files, audio, the stream of a      *)
(* response and the agent's runtime.  They share no state, so a behaviour  *)
(* is one of these parts, chosen at the start.                             *)
(***************************************************************************)
EXTENDS Limiter, KeyStore, RunFeed, RunImages, ResponsesStream, AgentInstall, ImageJobs, AudioCalls,
        TLC

VARIABLE part

\* No cap at all, no output, a cap under the floor, and one that the budgets may shrink.
SomeOuts == {-1, 0, 1, 3}

Parts == {"limits", "keys", "feed", "images", "responses", "install", "pictures", "speech", "notes"}
RecordsInit ==
    /\ LimiterInit /\ KeyInit /\ FeedInit /\ ImagesInit /\ ResponsesInit /\ InstallInit
    /\ PicturesInit /\ AudioInit
    /\ part \in Parts /\ (part # "responses" => history = <<>>)
    /\ part \in {"speech", "notes"} \/ ~unreadable

LimiterStep == part = "limits" /\ LimiterNext
               /\ UNCHANGED <<keyVars, feedVars, imageVars, responseVars, installVars, pictureVars, audioVars, part>>
KeyStep == part = "keys" /\ KeyNext
           /\ UNCHANGED <<limiterVars, feedVars, imageVars, responseVars, installVars, pictureVars, audioVars, part>>
FeedStep == part = "feed" /\ FeedNext
            /\ UNCHANGED <<limiterVars, keyVars, imageVars, responseVars, installVars, pictureVars, audioVars, part>>
ImagesStep == part = "images" /\ ImagesNext
              /\ UNCHANGED <<limiterVars, keyVars, feedVars, responseVars, installVars, pictureVars, audioVars, part>>
ResponsesStep == part = "responses" /\ ResponsesNext
                 /\ UNCHANGED <<limiterVars, keyVars, feedVars, imageVars, installVars, pictureVars, audioVars, part>>
InstallStep == part = "install" /\ InstallNext
               /\ UNCHANGED <<limiterVars, keyVars, feedVars, imageVars, responseVars, pictureVars, audioVars, part>>
PicturesStep == part = "pictures" /\ PicturesNext
                /\ UNCHANGED <<limiterVars, keyVars, feedVars, imageVars, responseVars, installVars, audioVars, part>>
AudioStep == /\ part \in {"speech", "notes"} /\ AudioNext(IF part = "speech" THEN Voices ELSE Notes)
             /\ UNCHANGED <<limiterVars, keyVars, feedVars, imageVars, responseVars, installVars, pictureVars, part>>

recordsVars == <<limiterVars, keyVars, feedVars, imageVars, responseVars, installVars, pictureVars, audioVars, part>>
RecordsSpec ==
    /\ RecordsInit
    /\ [][LimiterStep \/ KeyStep \/ FeedStep \/ ImagesStep \/ ResponsesStep \/ InstallStep
        \/ PicturesStep \/ AudioStep]_recordsVars

\* Requests that hold concurrency, commands, runs, call ids, installers and two of the image
\* jobs are the same two model values.
RecordsSymmetry == Permutations(Commands)
=============================================================================
