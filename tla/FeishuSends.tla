---------------------------- MODULE FeishuSends ----------------------------
(***************************************************************************)
(* The sending side of the Feishu adapter (src/channels/feishu.ts): the    *)
(* tenant token, which is cached, renewed ahead of time and asked for by   *)
(* at most one request at a time; deliver, which shows one outbound        *)
(* message as several platform messages, each an API call that may be      *)
(* refused, lost, or carried out although its answer never came back; and  *)
(* the paged membership check that guards direct messages.                 *)
(* The delivery loop that calls deliver and calls it again after a failure *)
(* is module Delivery; here a job is tried at most MaxTries times.         *)
(***************************************************************************)
EXTENDS Naturals, Sequences, FiniteSets

CONSTANTS
    Jobs,         \* outbound messages handed to deliver
    Message,      \* Message[j]: [kind, images, chunks, threaded]
    MemberPage,   \* the page of the group's list that holds the participant
    GroupPages,   \* how many pages the group's member list has
    PageBudget,   \* the pages isMember reads at most (20 in the code)
    MaxTries,     \* attempts per job
    MaxApiTrouble \* calls that go wrong

VARIABLES
    cache,      \* tokenCache: "none", "good", or "old" (within the renewal margin)
    inflight,   \* tokenInflight # null
    asking,     \* authentication requests the platform has not answered
    part,       \* the part a job is about to show
    stage,      \* where its current call stands
    names,      \* images whose upload or send failed, to be named in the text
    firstId,    \* a part of this attempt has a message id
    outcome,    \* "none", "ok" or "failed": how the last attempt ended
    tries,      \* attempts started
    display,    \* what the chat shows of each attempt: [part, named, thread] in order
    cutCalls,   \* attempts in which a call was carried out unanswered
    page,       \* the page the membership check reads next, 0 = no check runs
    member,     \* its answer: "none", "yes", "no" or "unknown"
    apiTrouble

sendVars == <<cache, inflight, asking, part, stage, names, firstId, outcome,
              tries, display, cutCalls, page, member, apiTrouble>>
jobVars == <<part, stage, names, firstId, outcome, tries, display, cutCalls>>
tokenVars == <<cache, inflight, asking>>
memberVars == <<page, member>>

Idle == [is |-> "idle", n |-> 0]
Part(is, n) == [is |-> is, n |-> n]
Stages == {"idle", "token", "waiting", "call"}

Init ==
    /\ cache = "none"
    /\ inflight = FALSE
    /\ asking = 0
    /\ part = [j \in Jobs |-> Idle]
    /\ stage = [j \in Jobs |-> "idle"]
    /\ names = [j \in Jobs |-> {}]
    /\ firstId = [j \in Jobs |-> FALSE]
    /\ outcome = [j \in Jobs |-> "none"]
    /\ tries = [j \in Jobs |-> 0]
    /\ display = [j \in Jobs |-> [t \in 1..MaxTries |-> <<>>]]
    /\ cutCalls = {}
    /\ page = 0
    /\ member = "none"
    /\ apiTrouble = 0

Trouble == /\ apiTrouble < MaxApiTrouble
           /\ apiTrouble' = apiTrouble + 1
----------------------------------------------------------------------------
(* What a job shows next. *)

\* appendAttachmentSummary and splitForLimit: the text with the names of the
\* failed images, in chunks; without text the names alone make one chunk.
chunkCount(j, failed) ==
    IF Message[j].chunks > 0 THEN Message[j].chunks
    ELSE IF failed # {} THEN 1 ELSE 0

\* deliver: the first part, by the kind of the content.
firstPart(j) ==
    CASE Message[j].kind = "chat" /\ Message[j].images > 0 -> Part("upload", 1)
      [] Message[j].kind = "chat" /\ Message[j].images = 0 ->
             IF chunkCount(j, {}) > 0 THEN Part("text", 1) ELSE Idle
      [] OTHER -> Part(Message[j].kind, 1)

\* Mutant: an image whose upload failed is left out of the text.
namedIfShown(j, i, failed) == names[j]

\* The catch around an image: its file name goes to the text branch.
namedFiles(j, i, failed) == IF failed THEN names[j] \cup {i} ELSE names[j]

\* Where deliver goes after the part p, with the images in failed to name.
partAfter(j, p, failed) ==
    CASE p.is = "upload" -> Part("image", p.n)
      [] p.is = "image" /\ p.n < Message[j].images -> Part("upload", p.n + 1)
      [] p.is = "image" /\ p.n = Message[j].images ->
             IF chunkCount(j, failed) > 0 THEN Part("text", 1) ELSE Idle
      [] p.is = "text" /\ p.n < chunkCount(j, failed) -> Part("text", p.n + 1)
      [] p.is = "list" -> Part("unreact", 1)
      [] OTHER -> Idle

\* Parts that the chat shows as a message (uploads and lists are not).
Shows(p) == p.is \in {"image", "text", "question", "plain", "card", "edit", "react"}
InThread(j, p) == /\ Message[j].threaded
                  /\ p.is \in {"image", "text", "question", "plain", "card"}
                  /\ ~firstId[j]
                  /\ p.is = "text" => p.n = 1
----------------------------------------------------------------------------
(* The tenant token. *)

\* fetchTenantAccessToken: the cached token, the refresh under way, or a
\* refresh of one's own.
fetchTenantAccessToken(j) ==
    /\ stage[j] = "token"
    /\ \/ /\ cache = "good"
          /\ stage' = [stage EXCEPT ![j] = "call"]
          /\ UNCHANGED <<inflight, asking>>
       \/ /\ cache # "good" /\ inflight
          /\ stage' = [stage EXCEPT ![j] = "waiting"]
          /\ UNCHANGED <<inflight, asking>>
       \/ /\ cache # "good" /\ ~inflight
          /\ stage' = [stage EXCEPT ![j] = "waiting"]
          /\ inflight' = TRUE
          /\ asking' = asking + 1
    /\ UNCHANGED <<cache, part, names, firstId, outcome, tries, display, cutCalls,
                   memberVars, apiTrouble>>

\* The platform answers with a token: every caller goes on with it, and the
\* slot of the refresh under way is emptied.
RefreshSucceeds ==
    /\ asking > 0
    /\ asking' = asking - 1
    /\ cache' = "good"
    /\ inflight' = FALSE
    /\ stage' = [j \in Jobs |-> IF stage[j] = "waiting" THEN "call" ELSE stage[j]]
    /\ UNCHANGED <<part, names, firstId, outcome, tries, display, cutCalls,
                   memberVars, apiTrouble>>

\* The token comes within the renewal margin of its expiry, or expires.
TokenAges ==
    /\ cache = "good"
    /\ Trouble
    /\ cache' = "old"
    /\ UNCHANGED <<inflight, asking, jobVars, memberVars>>
----------------------------------------------------------------------------
(* deliver. *)

\* deliver goes on to part p, or returns when nothing is left.
GoOn(j, p) ==
    /\ part' = [part EXCEPT ![j] = p]
    /\ stage' = [stage EXCEPT ![j] = IF p = Idle THEN "idle" ELSE "token"]
    /\ outcome' = [outcome EXCEPT ![j] = IF p = Idle THEN "ok" ELSE "none"]

\* One more attempt at a message: nothing of an earlier attempt is known.
Deliver(j) ==
    /\ stage[j] = "idle" /\ outcome[j] # "ok"
    /\ tries[j] < MaxTries
    /\ tries' = [tries EXCEPT ![j] = @ + 1]
    /\ GoOn(j, firstPart(j))
    /\ names' = [names EXCEPT ![j] = {}]
    /\ firstId' = [firstId EXCEPT ![j] = FALSE]
    /\ UNCHANGED <<display, cutCalls, tokenVars, memberVars, apiTrouble>>

\* What one call leaves in the chat.
Entry(j, thread) == [part |-> part[j], thread |-> thread,
                     named |-> IF part[j].is = "text"
                                    /\ part[j].n = chunkCount(j, names[j])
                               THEN names[j] ELSE {}]
Displayed(j, thread) ==
    IF Shows(part[j]) THEN [display EXCEPT ![j][tries[j]] = Append(@, Entry(j, thread))] ELSE display

\* createMessage, patchMessage, the reaction calls and uploadImage succeed. A
\* thread whose message was withdrawn is left and the part is sent plainly.
CallSucceeds(j) ==
    /\ stage[j] = "call"
    /\ \/ display' = Displayed(j, InThread(j, part[j])) /\ UNCHANGED apiTrouble
       \/ InThread(j, part[j]) /\ Trouble /\ display' = Displayed(j, FALSE)
    /\ firstId' = [firstId EXCEPT ![j] = @ \/ Shows(part[j])]
    /\ GoOn(j, partAfter(j, part[j], names[j]))
    /\ UNCHANGED <<names, tries, cutCalls, tokenVars, memberVars>>

\* removing a reaction that the list does not show ends the delivery.
NothingToRemove(j) ==
    /\ stage[j] = "call" /\ part[j].is = "list"
    /\ GoOn(j, Idle)
    /\ UNCHANGED <<names, firstId, tries, display, cutCalls, tokenVars, memberVars, apiTrouble>>

\* A call of job j has thrown: a failed image is named in the text, a failed
\* question card falls back to plain text, anything else ends the attempt.
Thrown(j) ==
    LET p == part[j]
        failed == namedFiles(j, p.n, p.is \in {"upload", "image"})
    IN CASE p.is \in {"upload", "image"} ->
              [names |-> failed, next |-> partAfter(j, Part("image", p.n), failed)]
         [] p.is = "question" -> [names |-> names[j], next |-> Part("plain", 1)]
         [] OTHER -> [names |-> names[j], next |-> Idle]
Ends(j) == part[j].is \notin {"upload", "image", "question"}

\* The whole attempt of every job in js after its call has thrown.
Throws(js) ==
    /\ names' = [j \in Jobs |-> IF j \in js THEN Thrown(j).names ELSE names[j]]
    /\ part' = [j \in Jobs |-> IF j \in js THEN Thrown(j).next ELSE part[j]]
    /\ stage' = [j \in Jobs |-> IF j \notin js THEN stage[j]
                                ELSE IF Thrown(j).next = Idle THEN "idle" ELSE "token"]
    /\ outcome' = [j \in Jobs |-> IF j \notin js \/ Thrown(j).next # Idle THEN outcome[j]
                                  ELSE IF Ends(j) THEN "failed" ELSE "ok"]

\* A call is refused, times out or never reaches the platform; or the platform
\* carries it out and the answer is lost.
CallFails(j) ==
    /\ stage[j] = "call"
    /\ Trouble
    /\ \/ UNCHANGED <<display, cutCalls>>
       \/ /\ display' = Displayed(j, InThread(j, part[j]))
          /\ cutCalls' = cutCalls \cup {<<j, tries[j]>>}
    /\ Throws({j})
    /\ UNCHANGED <<firstId, tries, tokenVars, memberVars>>

\* The platform refuses the token, or the request times out: every caller that
\* waited for this refresh fails, and the next call asks again.
RefreshFails ==
    /\ asking > 0
    /\ Trouble
    /\ asking' = asking - 1
    /\ inflight' = FALSE
    /\ Throws({j \in Jobs : stage[j] = "waiting"})
    /\ UNCHANGED <<cache, firstId, tries, display, cutCalls, memberVars>>

\* callApi's own timer ends while it waits for the token.
CallTimesOut(j) ==
    /\ stage[j] = "waiting" /\ part[j].is # "upload"
    /\ Trouble
    /\ Throws({j})
    /\ UNCHANGED <<firstId, tries, display, cutCalls, tokenVars, memberVars>>
----------------------------------------------------------------------------
(* isMember. *)

\* The list ends here: the platform says there is no further page.
lastPage(n) == n = GroupPages

\* A membership check begins, for a group and an open_id.
CheckMember ==
    /\ page = 0 /\ member = "none"
    /\ page' = 1
    /\ UNCHANGED <<tokenVars, jobVars, member, apiTrouble>>

\* One page: found, the end of the list, the end of the budget, or an error.
isMember ==
    /\ page > 0
    /\ \/ /\ page = MemberPage
          /\ member' = "yes" /\ page' = 0 /\ UNCHANGED apiTrouble
       \/ /\ page # MemberPage /\ (lastPage(page) \/ page = PageBudget)
          /\ member' = "no" /\ page' = 0 /\ UNCHANGED apiTrouble
       \/ /\ page # MemberPage /\ ~lastPage(page) /\ page < PageBudget
          /\ page' = page + 1 /\ UNCHANGED <<member, apiTrouble>>
       \/ /\ Trouble
          /\ member' = "unknown" /\ page' = 0
    /\ UNCHANGED <<tokenVars, jobVars>>

Next ==
    \/ \E j \in Jobs : \/ fetchTenantAccessToken(j)
                       \/ Deliver(j)
                       \/ CallSucceeds(j)
                       \/ NothingToRemove(j)
                       \/ CallFails(j)
                       \/ CallTimesOut(j)
    \/ RefreshSucceeds
    \/ RefreshFails
    \/ TokenAges
    \/ CheckMember
    \/ isMember

Spec == Init /\ [][Next]_sendVars
----------------------------------------------------------------------------
(* Properties. *)

\* The state has its type.
TypeOK ==
    /\ cache \in {"none", "good", "old"}
    /\ inflight \in BOOLEAN /\ asking \in Nat
    /\ \A j \in Jobs : /\ stage[j] \in Stages
                       /\ stage[j] = "idle" <=> part[j] = Idle
                       /\ names[j] \subseteq 1..Message[j].images
                       /\ outcome[j] \in {"none", "ok", "failed"}
                       /\ tries[j] \in 0..MaxTries
    /\ page \in 0..PageBudget
    /\ member \in {"none", "yes", "no", "unknown"}

\* At most one authentication request is under way, callers wait only while
\* one is, and a failed one does not keep later callers waiting for ever: the
\* slot is taken exactly as long as the request runs (feishu.ts, tokenInflight).
OneRefresh ==
    /\ asking <= 1
    /\ inflight <=> asking = 1
    /\ (\E j \in Jobs : stage[j] = "waiting") => inflight

\* A delivery that reports success has, in that attempt, shown every image or
\* named it in the text, and shown the chunks of the text in order; the
\* delivery loop records it and nobody will look at it again.
SuccessShowsAll ==
    \A j \in Jobs : outcome[j] = "ok" /\ Message[j].kind = "chat" =>
        LET shown == display[j][tries[j]]
            texts == {k \in DOMAIN shown : shown[k].part.is = "text"}
            named == UNION {shown[k].named : k \in texts}
        IN /\ \A i \in 1..Message[j].images :
                  i \in named \/ \E k \in DOMAIN shown : shown[k].part = Part("image", i)
           /\ {shown[k].part.n : k \in texts} = 1..chunkCount(j, named)
           /\ \A a, b \in texts : a < b => shown[a].part.n < shown[b].part.n

\* Within one attempt nothing is shown in two forms - an image and its name, a
\* question card and its plain text - unless a call was carried out whose
\* answer was lost: the fallbacks replace what failed.
TwiceNeedsLostAnswer ==
    \A j \in Jobs : \A t \in 1..tries[j] : <<j, t>> \notin cutCalls =>
        LET shown == display[j][t] IN
        /\ ~ \E a, b \in DOMAIN shown : shown[a].part.is = "question"
                                        /\ shown[b].part.is = "plain"
        /\ ~ \E a, b \in DOMAIN shown : shown[a].part.is = "image"
                                        /\ shown[a].part.n \in shown[b].named

\* "No" is said of a participant only when none of the pages the budget
\* allows holds them (feishu.ts: "true / false on a definite answer from the
\* API"); somebody further down a larger group is said to be absent.
NoMeansAbsent == member = "no" => MemberPage \notin (1..GroupPages) \cap (1..PageBudget)

\* A send that reports success showed everything once, one token request runs
\* at a time, and a member is not taken for a stranger.
SendsHonest ==
  /\ TypeOK
  /\ OneRefresh
  /\ SuccessShowsAll
  /\ TwiceNeedsLostAnswer
  /\ NoMeansAbsent
=============================================================================
