------------------------- MODULE DocumentSyncProofs -------------------------
(***************************************************************************)
(* Theorems about the tab, its saves and the file, for every set of texts  *)
(* and all bounds.                                                         *)
(*                                                                         *)
(* Each invariant is strengthened by what is known of the messages that    *)
(* are under way.  The text (TextInv): a request of the present revision   *)
(* carries the buffer, so that its answer may call the buffer saved.  The  *)
(* times (TimeInv): an answer pairs a text with the time at which the file *)
(* had it.  The locks (Quiet): who holds which, and what is not sent under *)
(* them.  For each of the three the actions are first reduced to what they *)
(* do to it (the lemmas called ...Facts), then shown to keep it.           *)
(***************************************************************************)
EXTENDS DocumentSync, TLAPS

(* No request is newer than the tab.                                       *)
NotNewer ==
  \A s \in Slot : wire[s].stage \in {"sent", "committed", "ok"} => wire[s].rev <= tab.rev

(* Types, and that revisions go up: what saved # rev means depends on it.  *)
TypeInv == TypeOK /\ NotNewer

(* What the stage of a request or answer says about its other fields.      *)
LEMMA WireFacts ==
  ASSUME NEW w \in WireType, NEW s \in Slot
  PROVE  /\ w[s].stage \in {"sent", "committed", "failed"} => w[s] \in SentType
         /\ w[s].stage = "ok" => w[s] \in OkType
         /\ w[s].stage = "conflict" => w[s] \in RefusalType
BY DEF WireType, SentType, OkType, RefusalType, NoRequest

(* A bounded event is counted.                                             *)
LEMMA CountKept ==
  ASSUME TypeOK, NEW e \in Event, Count(e)
  PROVE  count' \in [Event -> Nat] /\ count'[e] # count[e]
BY DEF TypeOK, Count

(* What Remember leaves of the record it is given, and what it says of the *)
(* file having held the buffer.                                            *)
LEMMA GhostKept ==
  ASSUME NEW g \in GhostType, Remember(g)
  PROVE  /\ ghost' \in GhostType
         /\ ghost' = [g EXCEPT !.durable = ghost'.durable]
         /\ ghost'.durable <=> disk' = tab'.raw \/ (g.durable /\ tab'.raw = tab.raw)
<1>1. g.durable \in BOOLEAN
  BY DEF GhostType
<1> DEFINE d == disk' = tab'.raw \/ (g.durable /\ tab'.raw = tab.raw)
<1>2. ghost' = [g EXCEPT !.durable = d]
  BY DEF Remember
<1>3. d \in BOOLEAN
  OBVIOUS
<1> HIDE DEF d
<1>4. ghost'.durable = d
  BY <1>2 DEF GhostType
<1>5. ghost' \in GhostType
  BY <1>2, <1>3 DEF GhostType
<1> QED
  BY <1>2, <1>4, <1>5 DEF d

(* The tab's part.                                                         *)
TabOK ==
  /\ tab \in TabType /\ tab.saved <= tab.rev
  /\ tab.saving # None => Saving
  /\ tab.status = "external" => tab.extRaw # None \/ tab.extKind \in {"deleted", "unreadable"}

(* What a tab must satisfy whether or not a save is in flight.              *)
Fit(t) ==
  /\ t \in TabType /\ t.saved <= t.rev
  /\ t.status = "external" => t.extRaw # None \/ t.extKind \in {"deleted", "unreadable"}

(* Sending the buffer.                                                     *)
LEMMA SendType ==
  ASSUME NEW t, Fit(t), wire \in WireType,
         tab' = [t EXCEPT !.saving = t.rev, !.status = "saving"],
         wire' = [wire EXCEPT !["save"] = Request(t)]
  PROVE  /\ TabOK' /\ wire' \in WireType /\ tab'.rev = t.rev
         /\ wire'["save"] = Request(t) /\ wire'["save"].rev = t.rev
         /\ \A s \in Slot \ {"save"} : wire'[s] = wire[s]
<1>1. /\ tab' \in TabType /\ tab'.saved = t.saved /\ tab'.rev = t.rev
      /\ tab'.status = "saving"
  BY DEF Fit, TabType, Statuses
<1>2. Request(t) \in SentType /\ Request(t).rev = t.rev /\ Request(t).stage # "none"
  BY DEF Fit, TabType, SentType, Request
<1>3. wire'["save"] = Request(t) /\ \A s \in Slot \ {"save"} : wire'[s] = wire[s]
  BY DEF WireType, Slot
<1>4. wire' \in WireType
  BY <1>2 DEF WireType, Slot
<1> QED
  BY <1>1, <1>2, <1>3, <1>4 DEF TabOK, Fit, Saving

(* What Save and Again leave on the wire: what was there, or the buffer.   *)
Sends(t) ==
  /\ tab'.rev = t.rev /\ tab'.raw = t.raw /\ tab'.base = t.base
  /\ \A s \in Slot : wire'[s] \in {wire[s], NoRequest, Request(t)}

(* The two ends of Save and of its loop: sent, or not.                     *)
LEMMA SaveType ==
  ASSUME NEW t, Fit(t), t.saving # None => Saving, wire \in WireType, Save(t, ~ Saving)
  PROVE  TabOK' /\ wire' \in WireType /\ Sends(t)
<1>1. CASE tab' = t /\ UNCHANGED wire
  BY <1>1 DEF Fit, TabOK, Saving, Sends
<1>2. CASE tab' = [t EXCEPT !.status = "idle"] /\ UNCHANGED wire
  BY <1>2 DEF Fit, TabOK, Saving, Sends, TabType, Statuses
<1>3. CASE /\ tab' = [t EXCEPT !.saving = t.rev, !.status = "saving"]
           /\ wire' = [wire EXCEPT !["save"] = Request(t)]
  <2>1. tab'.raw = t.raw /\ tab'.base = t.base
    BY <1>3 DEF Fit, TabType
  <2> QED
    BY <1>3, <2>1, SendType DEF Sends
<1> QED
  BY <1>1, <1>2, <1>3 DEF Save

(* The loop of a save ends or sends the buffer again.                      *)
LEMMA AgainType ==
  ASSUME NEW t, Fit(t), t.saving = None, wire \in WireType, Again(t)
  PROVE  TabOK' /\ wire' \in WireType /\ Sends(t)
<1>1. CASE tab' = t /\ wire' = [wire EXCEPT !["save"] = NoRequest]
  BY <1>1 DEF Fit, TabOK, Saving, Sends, WireType, Slot
<1>2. CASE /\ tab' = [t EXCEPT !.saving = t.rev, !.status = "saving"]
           /\ wire' = [wire EXCEPT !["save"] = Request(t)]
  <2>1. tab'.raw = t.raw /\ tab'.base = t.base
    BY <1>2 DEF Fit, TabType
  <2> QED
    BY <1>2, <2>1, SendType DEF Sends
<1> QED
  BY <1>1, <1>2 DEF Again

(* No request overtakes the tab.                                           *)
LEMMA RevNat ==
  ASSUME wire \in WireType, NEW s \in Slot,
         wire[s].stage \in {"sent", "committed", "ok"}
  PROVE  wire[s].rev \in Nat
BY DEF WireType, SentType, OkType, RefusalType, NoRequest

(* Requests that keep their revision, or carry the present one of the tab, *)
(* are not newer than it.                                                  *)
LEMMA NotNewerKept ==
  ASSUME TypeInv, TabOK', tab.rev <= tab'.rev,
         \A s \in Slot : \/ wire'[s].stage \notin {"sent", "committed", "ok"}
                         \/ /\ wire[s].stage \in {"sent", "committed", "ok"}
                            /\ wire'[s].rev = wire[s].rev
                         \/ wire'[s].rev = tab'.rev
  PROVE  NotNewer'
<1>1. tab.rev \in Nat /\ tab'.rev \in Nat
  BY DEF TypeInv, TypeOK, TabOK, TabType
<1>2. \A s \in Slot : wire[s].stage \in {"sent", "committed", "ok"} => wire[s].rev \in Nat
  BY RevNat DEF TypeInv, TypeOK
<1> QED
  BY <1>1, <1>2 DEF TypeInv, NotNewer

(* What is to be shown of any step.                                        *)
LEMMA Frame ==
  ASSUME TypeInv, TabOK', disk' \in Text \union {Gone}, mtime' \in Nat,
         timer' \in BOOLEAN, wire' \in WireType, get' \in [Reader -> BodyType],
         poll' \in PollType, choice' \in ChoiceType, news' \in NewsType, question' \in QuestionType,
         question'.stage = "open" => question'.change.text \in Text,
         barrier' \in {"none", "waiting", "held"}, wide' \in BOOLEAN, globalLock' \in BOOLEAN,
         logout' \in LogoutStages, count' \in [Event -> Nat], ghost' \in GhostType, NotNewer'
  PROVE  TypeInv'
BY DEF TypeInv, TypeOK, TabOK

(* What the type invariant says of the tab.                                *)
LEMMA TabFacts ==
  ASSUME TypeInv
  PROVE  /\ tab \in TabType /\ Fit(tab) /\ TabOK /\ wire \in WireType /\ ghost \in GhostType
         /\ tab.saving # None => Saving
BY DEF TypeInv, TypeOK, Fit, TabOK

(* The actions that only save.                                             *)
LEMMA SavesType ==
  ASSUME TypeInv, Save(tab, ~ Saving), timer' \in BOOLEAN, Remember(ghost),
         KeepFile, KeepPolls, UNCHANGED <<get, choice, locks, count>>
  PROVE  TypeInv'
<1>1. ghost' \in GhostType
  BY TabFacts, GhostKept
<1>2. TabOK' /\ wire' \in WireType /\ Sends(tab)
  BY TabFacts, SaveType
<1>3. NotNewer'
  BY <1>2, TabFacts, NotNewerKept DEF Sends, NoRequest, Request, TabType
<1> QED
  BY <1>1, <1>2, <1>3, Frame DEF TypeInv, TypeOK, KeepFile, KeepPolls, newsVars, locks

(* onEditorChange keeps the types.                                         *)
LEMMA EditType == ASSUME TypeInv, NEW text \in Typed, Edit(text) PROVE TypeInv'
<1> DEFINE typed == [tab EXCEPT !.raw = text, !.rev = @ + 1]
           back == ~ Unresolved(tab) /\ text = tab.base
           g == [ghost EXCEPT !.mine = TRUE, !.draft = ~ back, !.back = back]
<1>1. g \in GhostType
  BY TabFacts DEF GhostType
<1>2. ghost' \in GhostType
  <2> HIDE DEF g
  <2>1. Remember(g)
    BY DEF Edit, g
  <2> QED
    BY <1>1, <2>1, GhostKept
<1>3. typed \in TabType /\ typed.rev = tab.rev + 1 /\ typed.saved = tab.saved
      /\ typed.extRaw = tab.extRaw /\ typed.extKind = tab.extKind /\ typed.saving = tab.saving
  <2>1. text \in Text /\ tab.rev + 1 \in Nat
    BY TabFacts, TextAssumption DEF TabType
  <2> DEFINE n == tab.rev + 1
  <2>2. [tab EXCEPT !.raw = text, !.rev = n] \in TabType
    <3> HIDE DEF n
    <3> QED BY <2>1, TabFacts DEF TabType, n
  <2>3. typed = [tab EXCEPT !.raw = text, !.rev = n]
    BY TabFacts DEF TabType
  <2> QED
    BY <2>1, <2>2, <2>3, TabFacts DEF TabType
<1> HIDE DEF typed
<1>4. \/ Unresolved(tab) /\ tab' = [typed EXCEPT !.status = "external"]
      \/ tab' = [typed EXCEPT !.saved = typed.rev, !.status = "idle"]
      \/ tab' = [typed EXCEPT !.status = "dirty"]
  BY DEF Edit, typed
<1>5. /\ tab' \in TabType /\ tab'.rev = typed.rev /\ tab'.extRaw = typed.extRaw
      /\ tab'.extKind = typed.extKind
      /\ tab'.saving = typed.saving /\ tab'.saved \in {typed.saved, typed.rev}
      /\ (tab'.status = "external" => Unresolved(tab))
  BY <1>3, <1>4 DEF TabType, Statuses
<1>6. TabOK'
  BY <1>3, <1>5, TabFacts DEF TabOK, Unresolved, Edit, Saving, TabType
<1>7. NotNewer'
  BY <1>3, <1>5, <1>6, TabFacts, NotNewerKept DEF Edit, TabType
<1>8. timer' \in BOOLEAN /\ count' \in [Event -> Nat]
  BY CountKept DEF Edit, Schedule, TypeInv, TypeOK, Event
<1> QED
  BY <1>2, <1>6, <1>7, <1>8, Frame
     DEF TypeInv, TypeOK, Edit, KeepFile, KeepPolls, newsVars, locks

(* The loop of a save ends or goes on.                                     *)
LEMMA LoopType ==
  ASSUME TypeInv, NEW t, Again(t), Fit(t), t.saving = None, t.rev = tab.rev,
         KeepFile, timer' \in BOOLEAN, ghost' \in GhostType,
         question' \in {NoQuestion, question}, UNCHANGED <<get, poll, choice, news, locks, count>>
  PROVE  TypeInv'
<1>1. TabOK' /\ wire' \in WireType /\ Sends(t)
  BY TabFacts, AgainType
<1>2. Request(t).rev = t.rev /\ NoRequest.stage = "none"
  BY DEF Request, NoRequest
<1>3. NotNewer'
  BY <1>1, <1>2, TabFacts, NotNewerKept DEF Sends, TabType
<1> QED
  BY <1>1, <1>3, Frame DEF TypeInv, TypeOK, KeepFile, locks, NoQuestion, QuestionType

(* So does the answer to a save, whichever it is,                          *)
LEMMA SaveReplyType == ASSUME TypeInv, SaveReply PROVE TypeInv'
<1> DEFINE ans == wire["save"]
<1>1. /\ UNCHANGED <<get, poll, choice, news, locks, count>> /\ KeepFile /\ timer' \in BOOLEAN
      /\ question' \in {NoQuestion, question}
  BY DEF SaveReply, TypeInv, TypeOK
<1>2. CASE ans.stage = "ok"
  <2> DEFINE kept == [tab EXCEPT !.base = ans.raw, !.saved = ans.rev, !.saving = None]
             done == IF Unresolved(tab) THEN [kept EXCEPT !.status = "external"]
                     ELSE [kept EXCEPT !.mtime = ans.mtime, !.extKind = "none",
                                  !.status = IF tab.rev = ans.rev THEN "saved" ELSE "dirty"]
             g == [ghost EXCEPT !.draft = IF Unresolved(tab) THEN @ ELSE tab.rev # ans.rev]
  <2>1. ans \in OkType /\ ans.rev <= tab.rev
    BY <1>2, TabFacts, WireFacts DEF Slot, TypeInv, NotNewer
  <2>2. kept \in TabType /\ kept.saved = ans.rev /\ kept.rev = tab.rev /\ kept.saving = None
        /\ kept.status = tab.status /\ kept.extRaw = tab.extRaw /\ kept.extKind = tab.extKind
    BY <2>1, TabFacts DEF TabType, OkType
  <2>3. Again(done) /\ Remember(g)
    BY <1>2 DEF SaveReply, Saved
  <2>4. g \in GhostType
    <3> DEFINE dr == IF Unresolved(tab) THEN ghost.draft ELSE tab.rev # ans.rev
    <3>1. dr \in BOOLEAN
      BY TabFacts DEF GhostType
    <3>2. g = [ghost EXCEPT !.draft = dr]
      OBVIOUS
    <3> HIDE DEF dr, g
    <3> QED
      BY <3>1, <3>2, TabFacts DEF GhostType
  <2>5. ghost' \in GhostType
    <3> HIDE DEF g
    <3> QED BY <2>3, <2>4, GhostKept
  <2>6. Fit(done) /\ done.saving = None /\ done.rev = tab.rev
    <3> HIDE DEF kept
    <3>1. CASE Unresolved(tab)
      BY <3>1, <2>1, <2>2, TabFacts DEF Fit, TabType, Statuses, Unresolved
    <3>2. CASE ~ Unresolved(tab)
      <4> DEFINE st == IF tab.rev = ans.rev THEN "saved" ELSE "dirty"
      <4>1. st \in Statuses /\ st # "external"
        BY DEF Statuses
      <4>2. done = [kept EXCEPT !.mtime = ans.mtime, !.extKind = "none", !.status = st]
        BY <3>2
      <4> HIDE DEF st, done
      <4> QED
        BY <4>1, <4>2, <2>1, <2>2, TabFacts DEF Fit, TabType, Kinds, OkType
    <3> QED
      BY <3>1, <3>2
  <2> HIDE DEF done
  <2> QED
    BY <1>1, <2>3, <2>5, <2>6, LoopType
<1>3. CASE ans.stage = "conflict"
  <2> DEFINE t == [tab EXCEPT !.extRaw = ans.text, !.extKind = "modified",
                       !.mtime = ans.mtime, !.status = "external", !.saving = None]
  <2>1. ans \in RefusalType
    BY <1>3, TabFacts, WireFacts DEF Slot
  <2>2. Fit(t) /\ t.saving = None /\ t.rev = tab.rev
    BY <2>1, TabFacts, TextAssumption DEF Fit, TabType, RefusalType, Statuses, Kinds
  <2>3. Again(t) /\ Remember(ghost)
    BY <1>3 DEF SaveReply, Conflicted
  <2> HIDE DEF t
  <2> QED
    BY <1>1, <2>2, <2>3, TabFacts, GhostKept, LoopType
<1>4. CASE ans.stage = "failed"
  <2>1. PICK status \in {"error", "offline"} : Again([tab EXCEPT !.status = status, !.saving = None])
    BY <1>4 DEF SaveReply, Failed
  <2> DEFINE t == [tab EXCEPT !.status = status, !.saving = None]
  <2>2. Fit(t) /\ t.saving = None /\ t.rev = tab.rev
    BY TabFacts DEF Fit, TabType, Statuses
  <2>3. Again(t) /\ Remember(ghost)
    BY <1>4, <2>1 DEF SaveReply, Failed
  <2> HIDE DEF t
  <2> QED
    BY <1>1, <2>2, <2>3, TabFacts, GhostKept, LoopType
<1> QED
  BY <1>2, <1>3, <1>4 DEF SaveReply

(* and a save whose connection breaks.                                     *)
LEMMA SaveLostType == ASSUME TypeInv, SaveLost PROVE TypeInv'
<1>1. PICK status \in {"error", "offline"} : tab' = [tab EXCEPT !.status = status, !.saving = None]
  BY DEF SaveLost
<1>2. PICK lost \in {NoRequest, wire["save"]} :
        wire' = [wire EXCEPT !["save"] = NoRequest,
                   !["late"] = IF lost.stage \in {"sent", "committed"} THEN lost ELSE NoRequest]
  BY DEF SaveLost
<1>3. TabOK' /\ tab'.rev = tab.rev
  BY <1>1, TabFacts DEF TabOK, TabType, Statuses, Fit
<1>4. wire' \in WireType
  BY <1>2, TabFacts DEF WireType, Slot
<1>5. /\ wire'["save"] = NoRequest /\ wire'["late"] \in {NoRequest, wire["save"]}
      /\ wire'["recover"] = wire["recover"] /\ wire'["older"] = wire["older"]
      /\ NoRequest.stage = "none"
  BY <1>2, TabFacts DEF WireType, Slot, NoRequest
<1>6. \A s \in Slot : wire'[s].stage \in {"sent", "committed", "ok"} => wire'[s].rev <= tab'.rev
  BY <1>3, <1>5 DEF TypeInv, NotNewer, Slot
<1>7. count' \in [Event -> Nat]
  BY CountKept DEF SaveLost, TypeInv, Event
<1>8. ghost' \in GhostType
  BY TabFacts, GhostKept DEF SaveLost
<1> QED
  BY <1>3, <1>4, <1>6, <1>7, <1>8, Frame
     DEF NotNewer, SaveLost, TypeInv, TypeOK, KeepFile, KeepPolls, newsVars, locks

-----------------------------------------------------------------------------
(* The server.                                                             *)

(* What is left to show of a step that leaves the client alone.            *)
LEMMA ServerFrame ==
  ASSUME TypeInv, KeepTab, NEW g \in GhostType, Remember(g),
         disk' \in Text \union {Gone}, mtime' \in Nat, wire' \in WireType,
         get' \in [Reader -> BodyType], poll' \in PollType, news' \in NewsType,
         question' = question, count' \in [Event -> Nat],
         \A s \in Slot : wire[s].stage # "none" \/ wire'[s] = wire[s],
         \A s \in {"save", "recover"} : wire[s].stage # "none" => wire'[s].stage # "none",
         \A s \in Slot : wire'[s].stage \in {"sent", "committed", "ok"} =>
           /\ wire[s].stage \in {"sent", "committed", "ok"}
           /\ wire'[s].rev = wire[s].rev
  PROVE  TypeInv'
<1>1. ghost' \in GhostType
  BY GhostKept
<1>2. TabOK'
  BY TabFacts DEF TabOK, Saving, KeepTab, Slot
<1>3. NotNewer'
  BY <1>2, NotNewerKept, TabFacts DEF KeepTab, TabType
<1> QED
  BY <1>1, <1>2, <1>3, Frame DEF TypeInv, TypeOK, KeepTab, locks

(* Taking the answer of a request.                                         *)
LEMMA AnswerType ==
  ASSUME TypeInv, NEW s \in Slot, wire[s].stage # "none", NEW ans, Answer(s, ans),
         ans.stage # "none",
         ans \in SentType \union OkType \union RefusalType,
         ans.stage \in {"sent", "committed", "ok"} =>
           wire[s].stage \in {"sent", "committed", "ok"} /\ ans.rev = wire[s].rev
  PROVE  /\ wire' \in WireType
         /\ \A z \in Slot : wire[z].stage # "none" \/ wire'[z] = wire[z]
         /\ \A z \in {"save", "recover"} : wire[z].stage # "none" => wire'[z].stage # "none"
         /\ \A z \in Slot : wire'[z].stage \in {"sent", "committed", "ok"} =>
              /\ wire[z].stage \in {"sent", "committed", "ok"}
              /\ wire'[z].rev = wire[z].rev
<1>1. PICK a \in {NoRequest, ans} :
        wire' = [wire EXCEPT ![s] = a] /\ (s \in {"save", "recover"} => a = ans)
  BY DEF Answer
<1>2. NoRequest.stage = "none"
  BY DEF NoRequest
<1>3. a \in {NoRequest} \union SentType \union OkType \union RefusalType
  BY <1>1
<1>4. wire' \in WireType /\ wire'[s] = a /\ \A z \in Slot \ {s} : wire'[z] = wire[z]
  BY <1>1, <1>3, TabFacts DEF WireType
<1> QED
  BY <1>1, <1>2, <1>4

(* A request fails.                                                        *)
LEMMA FailedFacts ==
  ASSUME NEW w \in SentType
  PROVE  [w EXCEPT !.stage = "failed"] \in SentType /\ [w EXCEPT !.stage = "failed"].stage = "failed"
BY DEF SentType

(* A request commits.                                                      *)
LEMMA CommittedType ==
  ASSUME TypeInv, NEW s \in Slot, wire[s] \in SentType, wire[s].stage = "sent",
         NEW stage \in {"committed", "failed"},
         wire' = [wire EXCEPT ![s].stage = stage]
  PROVE  /\ wire' \in WireType /\ wire'[s] = [wire[s] EXCEPT !.stage = stage]
         /\ wire'[s].stage = stage /\ wire'[s].rev = wire[s].rev /\ wire'[s].raw = wire[s].raw
         /\ \A z \in Slot \ {s} : wire'[z] = wire[z]
<1>1. wire' = [wire EXCEPT ![s] = [wire[s] EXCEPT !.stage = stage]]
  BY TabFacts DEF WireType
<1>2. PICK a : a = [wire[s] EXCEPT !.stage = stage]
  OBVIOUS
<1>3. a \in SentType /\ a.stage = stage /\ a.rev = wire[s].rev /\ a.raw = wire[s].raw
  BY <1>2 DEF SentType
<1>4. wire' \in WireType /\ wire'[s] = a /\ \A z \in Slot \ {s} : wire'[z] = wire[z]
  BY <1>1, <1>2, <1>3, TabFacts DEF WireType
<1> QED
  BY <1>2, <1>3, <1>4

(* PUT /api/posts keeps the types,                                         *)
LEMMA PutCommitType ==
  ASSUME TypeInv, NEW s \in Slot, PutCommit(s)
  PROVE  TypeInv'
<1> USE DEF PutCommit
<1>0. /\ KeepTab /\ get' = get /\ poll' = poll /\ news' = news /\ question' = question
      /\ count' = count
      /\ get \in [Reader -> BodyType] /\ poll \in PollType /\ news \in NewsType
      /\ count \in [Event -> Nat]
      /\ Remember(ghost) /\ ghost \in GhostType /\ disk \in Text \union {Gone} /\ mtime \in Nat
  BY DEF KeepPolls, newsVars, TypeInv, TypeOK
<1>1. /\ wire[s] \in SentType /\ wire[s].stage = "sent" /\ wire[s].rev \in Nat
      /\ wire[s].raw \in Text
  BY TabFacts, WireFacts DEF SentType
<1>2. ASSUME NEW ans \in SentType \union OkType \union RefusalType, Answer(s, ans), KeepFile,
             ans.stage # "none", ans.stage \in {"sent", "committed", "ok"} => ans.rev = wire[s].rev
      PROVE  TypeInv'
  BY <1>0, <1>1, <1>2, AnswerType, ServerFrame DEF KeepFile
<1>3. CASE Answer(s, [wire[s] EXCEPT !.stage = "failed"]) /\ KeepFile
  BY <1>1, <1>2, <1>3, FailedFacts
<1>4. CASE Answer(s, [stage |-> "ok", raw |-> disk, rev |-> wire[s].rev, mtime |-> mtime])
           /\ KeepFile /\ disk = wire[s].raw
  <2> DEFINE ans == [stage |-> "ok", raw |-> disk, rev |-> wire[s].rev, mtime |-> mtime]
  <2>1. ans \in OkType /\ ans.stage = "ok" /\ ans.rev = wire[s].rev
    BY <1>0, <1>1, <1>4 DEF OkType
  <2> HIDE DEF ans
  <2> QED BY <2>1, <1>2, <1>4 DEF ans
<1>5. CASE Answer(s, [stage |-> "conflict", text |-> disk, mtime |-> mtime]) /\ KeepFile /\ disk # Gone
  <2> DEFINE ans == [stage |-> "conflict", text |-> disk, mtime |-> mtime]
  <2>1. ans \in RefusalType /\ ans.stage = "conflict"
    BY <1>0, <1>1, <1>5 DEF RefusalType
  <2> HIDE DEF ans
  <2> QED BY <2>1, <1>2, <1>5 DEF ans
<1>6. CASE disk' = wire[s].raw /\ mtime' = mtime + 1 /\ wire' = [wire EXCEPT ![s].stage = "committed"]
  <2>1. /\ wire' \in WireType /\ wire'[s].stage = "committed" /\ wire'[s].rev = wire[s].rev
        /\ \A z \in Slot \ {s} : wire'[z] = wire[z]
    BY <1>1, <1>6, CommittedType
  <2>2. disk' \in Text \union {Gone} /\ mtime' \in Nat
    BY <1>0, <1>1, <1>6
  <2> QED
    BY <1>0, <1>1, <2>1, <2>2, ServerFrame DEF Slot
<1> QED
  BY <1>3, <1>4, <1>5, <1>6

(* What the server's steps leave alone.                                    *)
LEMMA ServerFacts ==
  ASSUME TypeInv
  PROVE  /\ get \in [Reader -> BodyType] /\ poll \in PollType /\ news \in NewsType
         /\ count \in [Event -> Nat] /\ ghost \in GhostType
         /\ disk \in Text \union {Gone} /\ mtime \in Nat /\ mtime + 1 \in Nat
BY DEF TypeInv, TypeOK

(* PUT /api/recover,                                                       *)
LEMMA RecoverCommitType ==
  ASSUME TypeInv, NEW s \in Slot, RecoverCommit(s)
  PROVE  TypeInv'
<1>0. /\ KeepTab /\ get' = get /\ poll' = poll /\ news' = news /\ question' = question
      /\ count' = count
      /\ Remember(ghost)
  BY DEF RecoverCommit, KeepPolls, newsVars
<1>1. /\ wire[s] \in SentType /\ wire[s].stage = "sent" /\ wire[s].rev \in Nat
      /\ wire[s].raw \in Text
  BY TabFacts, WireFacts DEF SentType, RecoverCommit
<1>2. PICK stage \in {"committed", "failed"} : Answer(s, [wire[s] EXCEPT !.stage = stage])
  BY DEF RecoverCommit
<1>3. PICK ans : ans = [wire[s] EXCEPT !.stage = stage]
  OBVIOUS
<1>4. ans \in SentType /\ ans.stage = stage /\ ans.rev = wire[s].rev
  BY <1>1, <1>3 DEF SentType
<1>5. disk' \in Text \union {Gone} /\ mtime' \in Nat
  BY <1>1, ServerFacts DEF RecoverCommit, KeepFile
<1>6. /\ wire' \in WireType
      /\ \A z \in Slot : wire[z].stage # "none" \/ wire'[z] = wire[z]
      /\ \A z \in {"save", "recover"} : wire[z].stage # "none" => wire'[z].stage # "none"
      /\ \A z \in Slot : wire'[z].stage \in {"sent", "committed", "ok"} =>
           /\ wire[z].stage \in {"sent", "committed", "ok"}
           /\ wire'[z].rev = wire[z].rev
  BY <1>1, <1>2, <1>3, <1>4, AnswerType
<1> QED
  BY <1>0, <1>5, <1>6, ServerFacts, ServerFrame

(* the end of either, with or without metadata,                            *)
LEMMA FinishType ==
  ASSUME TypeInv, NEW s \in Slot, Finish(s) \/ FinishFails(s)
  PROVE  TypeInv'
<1>0. /\ KeepTab /\ get' = get /\ poll' = poll /\ news' = news /\ question' = question
      /\ count' \in [Event -> Nat]
  BY CountKept, ServerFacts DEF Finish, FinishFails, KeepPolls, newsVars, TypeInv, Event
<1>1. /\ wire[s] \in SentType /\ wire[s].stage = "committed" /\ wire[s].raw \in Text
      /\ wire[s].rev \in Nat
      /\ wire[s].base \in Text \union {Gone}
  BY TabFacts, WireFacts DEF SentType, Finish, FinishFails
<1>2. PICK g \in GhostType : Remember(g)
  <2>1. CASE Finish(s)
    <3> DEFINE g == [ghost EXCEPT !.mispaired = @ \/ disk \notin {Gone, wire[s].raw}]
    <3>1. g \in GhostType
      BY ServerFacts DEF GhostType
    <3> QED BY <2>1, <3>1 DEF Finish
  <2>2. CASE FinishFails(s)
    BY <2>2, ServerFacts DEF FinishFails
  <2> QED BY <2>1, <2>2
<1>3. PICK ans : Answer(s, ans) /\ \/ ans = [wire[s] EXCEPT !.stage = "failed"]
                                   \/ ans = [stage |-> "ok", raw |-> wire[s].raw,
                                             rev |-> wire[s].rev, mtime |-> mtime]
  BY DEF Finish, FinishFails
<1>4. ans \in SentType \union OkType \union RefusalType /\ ans.stage \in {"failed", "ok"}
      /\ (ans.stage = "ok" => ans.rev = wire[s].rev)
  <2>1. CASE ans = [wire[s] EXCEPT !.stage = "failed"]
    BY <1>1, <2>1, FailedFacts
  <2>2. CASE ans = [stage |-> "ok", raw |-> wire[s].raw, rev |-> wire[s].rev, mtime |-> mtime]
    BY <1>1, <2>2, ServerFacts DEF OkType
  <2> QED BY <1>3, <2>1, <2>2
<1>5. disk' \in Text \union {Gone} /\ mtime' \in Nat
  BY <1>1, ServerFacts DEF Finish, FinishFails, KeepFile
<1> QED
  BY <1>0, <1>1, <1>2, <1>3, <1>4, <1>5, ServerFacts, ServerFrame, AnswerType

(* GET /api/posts,                                                         *)
LEMMA GetType ==
  ASSUME TypeInv, NEW r \in Reader, GetStat(r) \/ GetBody(r) \/ GetLost(r)
  PROVE  TypeInv'
<1>0. /\ KeepTab /\ poll' = poll /\ news' = news /\ question' = question /\ wire' = wire
      /\ KeepFile /\ Remember(ghost) /\ count' \in [Event -> Nat]
  BY CountKept, ServerFacts DEF GetStat, GetBody, GetLost, KeepPolls, newsVars, TypeInv,
     Event
<1>1. PICK b : get' = [get EXCEPT ![r] = b]
               /\ \/ b = [stage |-> "failed"] \/ b = [stage |-> "stat", mtime |-> mtime]
                  \/ get[r].stage = "stat" /\ disk # Gone
                     /\ b = [stage |-> "body", mtime |-> get[r].mtime, text |-> disk]
  BY DEF GetStat, GetBody, GetLost
<1>2. get[r].stage = "stat" => get[r].mtime \in Nat
  BY ServerFacts DEF BodyType, NoBody
<1>3. b \in BodyType
  BY <1>1, <1>2, ServerFacts DEF BodyType
<1>4. get' \in [Reader -> BodyType]
  BY <1>1, <1>3, ServerFacts
<1> QED
  BY <1>0, <1>4, ServerFacts, ServerFrame, TabFacts DEF KeepFile

(* another program or the assistant changing the file,                     *)
LEMMA WriteType == ASSUME TypeInv, External \/ Assist PROVE TypeInv'
<1>0. /\ KeepTab /\ poll' = poll /\ question' = question /\ wire' = wire /\ get' = get
      /\ Remember(ghost) /\ count' \in [Event -> Nat] /\ mtime' \in Nat
  BY CountKept, ServerFacts DEF External, Assist, KeepPolls, newsVars, TypeInv, Event
<1>1. disk' \in Text \union {Gone}
  BY TextAssumption DEF External, Assist
<1>2. news' \in NewsType
  BY TextAssumption, ServerFacts DEF External, Assist, KeepPolls, newsVars, NewsType,
     DoneType
<1> QED
  BY <1>0, <1>1, <1>2, ServerFacts, ServerFrame, TabFacts

(* and the announcement of what the assistant did.                         *)
LEMMA TellType == ASSUME TypeInv, Tell PROVE TypeInv'
<1>0. /\ KeepTab /\ poll' = poll /\ question' = question /\ wire' = wire /\ get' = get
      /\ KeepFile /\ count' = count
  BY DEF Tell
<1> DEFINE g == [ghost EXCEPT !.mispaired = @ \/ disk \notin {Gone, news.text}]
<1>1. g \in GhostType
  BY ServerFacts DEF GhostType
<1>2. news.text \in Text \union {Gone}
  BY ServerFacts DEF Tell, NewsType, NoNews, DoneType, ToldType
<1>3. news' \in NewsType
  BY <1>2, ServerFacts DEF Tell, NewsType, ToldType
<1>4. Remember(g)
  BY DEF Tell
<1> HIDE DEF g
<1> QED
  BY <1>0, <1>1, <1>3, <1>4, ServerFacts, ServerFrame, TabFacts DEF KeepFile

-----------------------------------------------------------------------------
(* The client.                                                             *)

(* What the tab may become without a request.                              *)
TabStep ==
  /\ tab' \in TabType /\ tab'.saved <= tab'.rev /\ tab.rev <= tab'.rev
  /\ tab'.saving \in {tab.saving, None}
  /\ tab'.status = "external" => tab'.extRaw # None \/ tab'.extKind \in {"deleted", "unreadable"}

(* What is left to show of a step that sends nothing.                      *)
LEMMA ClientFrame ==
  ASSUME TypeInv, NEW g \in GhostType, Remember(g), KeepFile, UNCHANGED <<wire, locks>>,
         TabStep,
         timer' \in BOOLEAN, get' \in [Reader -> BodyType], poll' \in PollType,
         choice' \in ChoiceType, news' \in NewsType, question' \in QuestionType,
         question'.stage = "open" => question'.change.text \in Text, count' \in [Event -> Nat]
  PROVE  TypeInv'
<1>1. ghost' \in GhostType
  BY GhostKept
<1>2. TabOK'
  BY TabFacts DEF TabOK, Saving, TabStep
<1>3. NotNewer'
  BY <1>2, NotNewerKept DEF TabStep
<1> QED
  BY <1>1, <1>2, <1>3, Frame DEF TypeInv, TypeOK, KeepFile, locks

(* What the type invariant says of what the client waits for.              *)
LEMMA ClientFacts ==
  ASSUME TypeInv
  PROVE  /\ poll.look \in {NoPoll, [stage |-> "asked"]}
                          \union [stage : {"states"}, exists : BOOLEAN, mtime : Nat]
         /\ poll.read \in {NoPoll} \union [stage : {"reading"}, was : TabType]
         /\ NoPolls \in PollType /\ NoBody \in BodyType /\ [stage |-> "asked"] \in BodyType
         /\ timer \in BOOLEAN /\ choice \in ChoiceType /\ question \in QuestionType
         /\ question.stage = "open" => question.change.text \in Text
         /\ NoChoice \in ChoiceType /\ NoQuestion \in QuestionType /\ NoQuestion.stage = "none"
         /\ NoNews \in NewsType
         /\ tab.rev \in Nat /\ tab.rev + 1 \in Nat /\ tab.saved \in Nat /\ tab.saved <= tab.rev
BY DEF TypeInv, TypeOK, PollType, NoPolls, NoPoll, BodyType, ChoiceType, QuestionType,
   NoQuestion, NewsType, TabType

(* A poll puts something into one of its two parts.                        *)
LEMMA PollPart ==
  ASSUME TypeInv
  PROVE  /\ \A l \in {NoPoll, [stage |-> "asked"]}
                     \union [stage : {"states"}, exists : BOOLEAN, mtime : Nat] :
              [poll EXCEPT !.look = l] \in PollType
         /\ \A l \in {NoPoll} \union [stage : {"reading"}, was : TabType] :
              [poll EXCEPT !.read = l] \in PollType /\ [NoPolls EXCEPT !.read = l] \in PollType
BY DEF TypeInv, TypeOK, PollType, NoPolls

(* The poll that asks for the states keeps the types.                      *)
LEMMA PollAskType ==
  ASSUME TypeInv, PollAsk \/ PollStates \/ PollStatesLost
  PROVE  TypeInv'
<1>1. poll' \in PollType
  <2>1. [stage |-> "states", exists |-> disk # Gone, mtime |-> mtime]
          \in [stage : {"states"}, exists : BOOLEAN, mtime : Nat]
    BY ServerFacts
  <2>2. PICK l \in {NoPoll, [stage |-> "asked"],
                    [stage |-> "states", exists |-> disk # Gone, mtime |-> mtime]} :
          poll' = [poll EXCEPT !.look = l]
    BY DEF PollAsk, PollStates, PollStatesLost
  <2> QED BY <2>1, <2>2, PollPart
<1> QED
  BY <1>1, ServerFacts, ServerFrame, TabFacts
     DEF PollAsk, PollStates, PollStatesLost, newsVars, KeepFile

(* A report of a missing file changes the conflict and nothing else.       *)
LEMMA DeletedFacts ==
  ASSUME NEW t \in TabType
  PROVE  LET d == Deleted(t) IN
         /\ d \in TabType /\ d.rev = t.rev /\ d.saved = t.saved /\ d.saving = t.saving
         /\ d.raw = t.raw
         /\ d.base = t.base /\ d.mtime = t.mtime
         /\ d.status = "external" /\ d.extKind = "deleted" /\ d.extRaw = None
BY DEF Deleted, TabType, Statuses, Kinds

(* A conflict brings the text and time of the file; the buffer stays.      *)
LEMMA ConflictFacts ==
  ASSUME NEW t \in TabType, NEW text \in Text, NEW time \in Nat
  PROVE  LET d == Conflict(t, text, time) IN
         /\ d \in TabType /\ d.rev = t.rev /\ d.saved = t.saved /\ d.saving = t.saving
         /\ d.raw = t.raw
         /\ d.base = t.base /\ d.mtime = time
         /\ d.status = "external" /\ d.extKind = "modified" /\ d.extRaw = text
BY DEF Conflict, TabType, Statuses, Kinds

(* A refresh replaces the buffer and its base by what was read.            *)
LEMMA RefreshFacts ==
  ASSUME NEW t \in TabType, NEW text \in Text, NEW time \in Nat
  PROVE  LET d == Refresh(t, text, time) IN
         /\ d \in TabType /\ d.rev = t.rev + 1 /\ d.saved = t.rev + 1
         /\ d.saving = t.saving /\ d.raw = text
         /\ d.base = text /\ d.mtime = time
         /\ d.status = "idle" /\ d.extKind = "none" /\ d.extRaw = t.extRaw
<1> DEFINE n == t.rev + 1
<1>1. n \in Nat
  BY DEF TabType
<1>2. Refresh(t, text, time) =
        [t EXCEPT !.raw = text, !.base = text, !.rev = n, !.saved = n,
                  !.mtime = time, !.status = "idle", !.extKind = "none"]
  BY DEF Refresh
<1> DEFINE d == Refresh(t, text, time)
<1> HIDE DEF n
<1>3. /\ d.rev = n /\ d.saved = n /\ d.saving = t.saving /\ d.raw = text
      /\ d.base = text /\ d.mtime = time
      /\ d.status = "idle" /\ d.extKind = "none" /\ d.extRaw = t.extRaw
  BY <1>2 DEF TabType
<1>4. d \in TabType
  BY <1>1, <1>2 DEF TabType, Statuses, Kinds
<1> QED
  BY <1>3, <1>4 DEF n

(* A report of an unreadable file keeps the text of an older conflict.     *)
LEMMA UnreadableFacts ==
  ASSUME NEW t \in TabType
  PROVE  LET d == [t EXCEPT !.extKind = "unreadable", !.status = "external"] IN
         /\ d \in TabType /\ d.rev = t.rev /\ d.saved = t.saved /\ d.saving = t.saving
         /\ d.raw = t.raw
         /\ d.base = t.base /\ d.mtime = t.mtime
         /\ d.status = "external" /\ d.extKind = "unreadable" /\ d.extRaw = t.extRaw
BY DEF TabType, Statuses, Kinds

(* The tab may stay,                                                       *)
LEMMA SameTabStep == ASSUME TypeInv, tab' = tab PROVE TabStep
BY TabFacts, ClientFacts DEF TabStep, Fit

(* be told of a missing or unreadable file,                                *)
LEMMA ReportStep ==
  ASSUME TypeInv,
         tab' \in {Deleted(tab), [tab EXCEPT !.extKind = "unreadable", !.status = "external"]}
  PROVE  TabStep
<1>1. /\ tab' \in TabType /\ tab'.rev = tab.rev /\ tab'.saved = tab.saved
      /\ tab'.saving = tab.saving
      /\ tab'.extKind \in {"deleted", "unreadable"}
  <2>1. tab \in TabType
    BY TabFacts
  <2>2. CASE tab' = Deleted(tab)
    BY <2>1, <2>2, DeletedFacts
  <2>3. CASE tab' = [tab EXCEPT !.extKind = "unreadable", !.status = "external"]
    BY <2>1, <2>3, UnreadableFacts
  <2> QED BY <2>2, <2>3
<1> QED
  BY <1>1, ClientFacts DEF TabStep

(* be put in conflict,                                                     *)
LEMMA ConflictStep ==
  ASSUME TypeInv, NEW text \in Text, NEW time \in Nat, tab' = Conflict(tab, text, time)
  PROVE  TabStep
<1>1. /\ tab' \in TabType /\ tab'.rev = tab.rev /\ tab'.saved = tab.saved
      /\ tab'.saving = tab.saving
      /\ tab'.extRaw = text
  <2>1. tab \in TabType
    BY TabFacts
  <2> QED BY <2>1, ConflictFacts
<1> QED
  BY <1>1, ClientFacts, TextAssumption DEF TabStep

(* or be refreshed.                                                        *)
LEMMA RefreshStep ==
  ASSUME TypeInv, NEW text \in Text, NEW time \in Nat, tab' = Refresh(tab, text, time)
  PROVE  TabStep
<1>1. /\ tab' \in TabType /\ tab'.rev = tab.rev + 1 /\ tab'.saved = tab.rev + 1
      /\ tab'.saving = tab.saving
      /\ tab'.status = "idle"
  <2>1. tab \in TabType
    BY TabFacts
  <2> QED BY <2>1, RefreshFacts
<1> QED
  BY <1>1, ClientFacts DEF TabStep

(* The poll that looks at the states keeps the types,                      *)
LEMMA PollLookType == ASSUME TypeInv, PollLook PROVE TypeInv'
<1>1. /\ KeepFile /\ UNCHANGED <<wire, locks, timer, news, question, choice, count>>
      /\ Remember(ghost)
  BY DEF PollLook, newsVars
<1>2. tab' = tab \/ tab' = Deleted(tab)
  BY DEF PollLook
<1>3. poll' \in PollType /\ get' \in [Reader -> BodyType]
  <2>1. [stage |-> "reading", was |-> tab] \in [stage : {"reading"}, was : TabType]
    BY TabFacts
  <2>2. get' = get \/ get' = [get EXCEPT ![Poll] = NoBody]
        \/ get' = [get EXCEPT ![Poll] = [stage |-> "asked"]]
    BY DEF PollLook, Supersede
  <2>3. get' \in [Reader -> BodyType]
    BY <2>2, ServerFacts, ClientFacts DEF Reader
  <2>4. poll' \in PollType
    <3>1. \/ poll' = [poll EXCEPT !.look = NoPoll] \/ poll' = NoPolls
          \/ poll' = [NoPolls EXCEPT !.read = [stage |-> "reading", was |-> tab]]
      BY DEF PollLook, Supersede
    <3>2. \A l \in {NoPoll} \union [stage : {"reading"}, was : TabType] :
            [NoPolls EXCEPT !.read = l] \in PollType
      BY PollPart
    <3>3. NoPolls \in PollType /\ [poll EXCEPT !.look = NoPoll] \in PollType
      BY PollPart, ClientFacts
    <3> QED BY <2>1, <3>1, <3>2, <3>3
  <2> QED BY <2>3, <2>4
<1>4. CASE tab' = tab
  BY <1>1, <1>3, <1>4, SameTabStep, ClientFacts, ServerFacts, ClientFrame
<1>5. CASE tab' = Deleted(tab)
  BY <1>1, <1>3, <1>5, ReportStep, ClientFacts, ServerFacts, ClientFrame
<1> QED
  BY <1>2, <1>4, <1>5

(* the poll that has read the body,                                        *)
LEMMA PollApplyType == ASSUME TypeInv, PollApply PROVE TypeInv'
<1> DEFINE body == get[Poll]
<1>1. /\ KeepFile /\ UNCHANGED <<wire, locks, timer, news, question, choice, count>>
  BY DEF PollApply, newsVars
<1>2. poll' \in PollType /\ get' \in [Reader -> BodyType]
  BY PollPart, ServerFacts, ClientFacts DEF PollApply, Reader
<1>3. body.text \in Text /\ body.mtime \in Nat
  BY ServerFacts DEF PollApply, BodyType, NoBody, Reader
<1>4. \/ tab' = tab /\ Remember(ghost)
      \/ tab' = Conflict(tab, body.text, body.mtime) /\ Remember(ghost)
      \/ /\ tab' = Refresh(tab, body.text, body.mtime)
         /\ Remember([ghost EXCEPT !.mine = FALSE, !.residue = @ \/ tab.extRaw # None])
  BY DEF PollApply
<1> HIDE DEF body
<1>5. CASE tab' = tab /\ Remember(ghost)
  BY <1>1, <1>2, <1>5, SameTabStep, ClientFacts, ServerFacts, ClientFrame
<1>6. CASE tab' = Conflict(tab, body.text, body.mtime) /\ Remember(ghost)
  BY <1>1, <1>2, <1>3, <1>6, ConflictStep, ClientFacts, ServerFacts, ClientFrame
<1>7. CASE /\ tab' = Refresh(tab, body.text, body.mtime)
           /\ Remember([ghost EXCEPT !.mine = FALSE, !.residue = @ \/ tab.extRaw # None])
  <2> DEFINE g == [ghost EXCEPT !.mine = FALSE, !.residue = @ \/ tab.extRaw # None]
  <2>1. g \in GhostType
    BY ServerFacts DEF GhostType
  <2>2. Remember(g)
    BY <1>7
  <2> HIDE DEF g
  <2> QED BY <1>1, <1>2, <1>3, <1>7, <2>1, <2>2, RefreshStep, ClientFacts, ServerFacts,
     ClientFrame
<1> QED
  BY <1>4, <1>5, <1>6, <1>7

(* and the poll that could not.                                            *)
LEMMA PollUnreadableType == ASSUME TypeInv, PollUnreadable PROVE TypeInv'
<1>1. /\ KeepFile /\ UNCHANGED <<wire, locks, timer, news, question, choice, count>>
      /\ Remember(ghost)
  BY DEF PollUnreadable, newsVars
<1>2. poll' \in PollType /\ get' \in [Reader -> BodyType]
  BY PollPart, ServerFacts, ClientFacts DEF PollUnreadable, Reader
<1>3. tab' = tab \/ tab' = [tab EXCEPT !.extKind = "unreadable", !.status = "external"]
  BY DEF PollUnreadable
<1>4. CASE tab' = tab
  BY <1>1, <1>2, <1>4, SameTabStep, ClientFacts, ServerFacts, ClientFrame
<1>5. CASE tab' = [tab EXCEPT !.extKind = "unreadable", !.status = "external"]
  BY <1>1, <1>2, <1>5, ReportStep, ClientFacts, ServerFacts, ClientFrame
<1> QED
  BY <1>3, <1>4, <1>5

(* The text on disk taken or the buffer kept.                              *)
LEMMA TakeDiskFacts ==
  ASSUME NEW t \in TabType, t.extRaw # None
  PROVE  LET d == TakeDisk(t) IN
         /\ d \in TabType /\ d.rev = t.rev + 1 /\ d.saved = t.rev + 1 /\ d.saving = None
         /\ d.raw = t.extRaw /\ d.base = t.extRaw /\ d.mtime = t.mtime
         /\ d.status = "idle" /\ d.extKind = "none" /\ d.extRaw = None
<1> DEFINE n == t.rev + 1
<1>1. n \in Nat /\ t.extRaw \in Text
  BY DEF TabType
<1>2. TakeDisk(t) =
        [t EXCEPT !.raw = t.extRaw, !.base = t.extRaw, !.rev = n, !.saved = n,
                  !.saving = None, !.status = "idle", !.extRaw = None, !.extKind = "none"]
  BY DEF TakeDisk
<1> DEFINE d == TakeDisk(t)
<1> HIDE DEF n
<1>3. /\ d.rev = n /\ d.saved = n /\ d.saving = None
      /\ d.raw = t.extRaw /\ d.base = t.extRaw /\ d.mtime = t.mtime
      /\ d.status = "idle" /\ d.extKind = "none" /\ d.extRaw = None
  BY <1>2 DEF TabType
<1>4. d \in TabType
  BY <1>1, <1>2 DEF TabType, Statuses, Kinds
<1> QED
  BY <1>3, <1>4 DEF n

(* The buffer is kept over the text on disk, which becomes its base.       *)
LEMMA KeepLocalFacts ==
  ASSUME NEW t \in TabType, t.extRaw # None
  PROVE  LET d == KeepLocal(t) IN
         /\ d \in TabType /\ d.rev = t.rev /\ d.raw = t.raw /\ d.base = t.extRaw
         /\ d.mtime = t.mtime /\ d.saving = t.saving /\ d.extRaw = None /\ d.extKind = "none"
         /\ IF t.raw = t.extRaw THEN d.saved = t.rev /\ d.status = "idle"
                                ELSE d.saved = t.saved /\ d.status = "dirty"
<1>1. t.extRaw \in Text
  BY DEF TabType
<1>2. CASE t.raw = t.extRaw
  BY <1>1, <1>2 DEF KeepLocal, TabType, Statuses, Kinds
<1>3. CASE t.raw # t.extRaw
  BY <1>1, <1>3 DEF KeepLocal, TabType, Statuses, Kinds
<1> QED
  BY <1>2, <1>3

(* A choice over the tab t, which is the tab or what has been read for it. *)
LEMMA DecideType ==
  ASSUME TypeInv, NEW t \in TabType, t.extRaw # None, t.rev = tab.rev, t.saved = tab.saved,
         t.saving = tab.saving, NEW strategy, Decide(t, strategy)
  PROVE  TabStep /\ timer' \in BOOLEAN /\ \E g \in GhostType : Remember(g)
<1>1. CASE tab' = TakeDisk(t) /\ UNCHANGED timer /\ Remember([ghost EXCEPT !.mine = FALSE])
  <2>1. /\ tab' \in TabType /\ tab'.rev = tab.rev + 1 /\ tab'.saved = tab.rev + 1
        /\ tab'.saving = None
        /\ tab'.status = "idle"
    BY <1>1, TakeDiskFacts
  <2>2. [ghost EXCEPT !.mine = FALSE] \in GhostType
    BY ServerFacts DEF GhostType
  <2> QED
    BY <1>1, <2>1, <2>2, ClientFacts DEF TabStep
<1>2. CASE ~(strategy = "disk")
  <2> DEFINE g == [ghost EXCEPT !.keptClean = IF tab'.status = "dirty" /\ Clean(t) THEN t.rev ELSE @,
                                !.agreed = IF t.raw = t.extRaw THEN t.rev ELSE @]
  <2>1. tab' = KeepLocal(t) /\ Remember(g) /\ timer' \in BOOLEAN
    BY <1>2, ClientFacts DEF Decide, Schedule
  <2>2. /\ tab' \in TabType /\ tab'.rev = tab.rev /\ tab'.saving = tab.saving
        /\ tab'.status \in {"idle", "dirty"} /\ tab'.saved \in {tab.rev, tab.saved}
    BY <2>1, KeepLocalFacts
  <2>3. g \in GhostType
    BY ServerFacts, ClientFacts DEF GhostType
  <2> QED
    BY <2>1, <2>2, <2>3, ClientFacts DEF TabStep
<1> QED
  BY <1>1, <1>2 DEF Decide

(* A choice that supersedes another replaces its request; the one that was *)
(* under way is kept apart.                                                *)
LEMMA SupersedingFacts ==
  ASSUME TypeInv, NEW r, Superseding(r),
         \/ r = NoRequest
         \/ r \in SentType /\ r.rev = tab.rev
  PROVE  /\ wire' \in WireType /\ wire'["save"] = wire["save"] /\ wire'["late"] = wire["late"]
         /\ wire'["recover"] = r
         /\ wire'["older"] \in {NoRequest, wire["older"], wire["recover"]}
         /\ Saving' = Saving
         /\ \A s \in Slot :
              \/ wire'[s].stage \notin {"sent", "committed", "ok"}
              \/ \E z \in Slot : /\ wire[z].stage \in {"sent", "committed", "ok"}
                                  /\ wire'[s].rev = wire[z].rev
              \/ r # NoRequest /\ wire'[s].rev = tab.rev
<1>1. PICK o \in {NoRequest, wire["older"], wire["recover"]} :
        wire' = [wire EXCEPT !["recover"] = r, !["older"] = o]
  BY TabFacts DEF Superseding, WireType, Slot
<1>2. o \in {NoRequest} \union SentType \union OkType \union RefusalType
  BY TabFacts DEF WireType, Slot
<1>3. /\ wire' \in WireType /\ wire'["save"] = wire["save"] /\ wire'["late"] = wire["late"]
      /\ wire'["recover"] = r /\ wire'["older"] = o
  BY <1>1, <1>2, TabFacts DEF WireType, Slot
<1>4. Slot = {"save", "late", "recover", "older"} /\ NoRequest.stage = "none"
  BY DEF Slot, NoRequest
<1> QED
  BY <1>3, <1>4 DEF Saving

(* What is left to show of a choice: no request of it is newer than the    *)
(* tab.                                                                    *)
LEMMA ChoiceFrame ==
  ASSUME TypeInv, TabStep, NEW g \in GhostType, Remember(g), KeepFile, UNCHANGED locks,
         timer' \in BOOLEAN, wire' \in WireType, get' \in [Reader -> BodyType], poll' \in PollType,
         choice' \in ChoiceType, news' = news, question' = question, count' \in [Event -> Nat],
         Saving' = Saving,
         \A s \in Slot :
           \/ wire'[s].stage \notin {"sent", "committed", "ok"}
           \/ \E z \in Slot : /\ wire[z].stage \in {"sent", "committed", "ok"}
                               /\ wire'[s].rev = wire[z].rev
           \/ wire'[s].rev = tab'.rev
  PROVE  TypeInv'
<1>1. TabOK'
  BY TabFacts DEF TabOK, TabStep
<1>2. tab.rev \in Nat /\ tab'.rev \in Nat /\ tab.rev <= tab'.rev
  BY <1>1, TabFacts DEF TabStep, TabOK, TabType
<1>3. \A z \in Slot : wire[z].stage \in {"sent", "committed", "ok"} =>
        wire[z].rev \in Nat /\ wire[z].rev <= tab.rev
  BY RevNat, TabFacts DEF TypeInv, NotNewer
<1>4. NotNewer'
  BY <1>2, <1>3 DEF NotNewer
<1>5. ghost' \in GhostType
  BY GhostKept
<1> QED
  BY <1>1, <1>4, <1>5, ServerFacts, Frame DEF TypeInv, TypeOK, KeepFile, locks

(* The three forms of a choice keep the types,                             *)
LEMMA ChooseType ==
  ASSUME TypeInv, NEW strategy \in {"disk", "local"}, Choose(strategy)
  PROVE  TypeInv'
<1>1. /\ KeepFile /\ UNCHANGED <<locks, news, question>> /\ poll' \in PollType
      /\ count' \in [Event -> Nat]
  BY CountKept, ClientFacts DEF Choose, newsVars, TypeInv, Event
<1>2. \A b \in BodyType : [get EXCEPT ![Poll] = NoBody, ![Choice] = b] \in [Reader -> BodyType]
  BY ServerFacts, ClientFacts DEF Reader
<1>3. CASE tab.extKind = "unreadable"
  <2>1. /\ choice' = [stage |-> "reading", strategy |-> strategy, rev |-> tab.rev]
        /\ get' = [get EXCEPT ![Poll] = NoBody, ![Choice] = [stage |-> "asked"]]
        /\ UNCHANGED <<tab, timer>> /\ Remember(ghost) /\ Superseding(NoRequest)
    BY <1>3 DEF Choose
  <2>2. choice' \in ChoiceType
    BY <2>1, ClientFacts DEF ChoiceType
  <2>3. get' \in [Reader -> BodyType]
    BY <2>1, <1>2, ClientFacts
  <2>4. TabStep /\ timer' \in BOOLEAN
    BY <2>1, SameTabStep, ClientFacts
  <2> QED
    BY <1>1, <2>1, <2>2, <2>3, <2>4, SupersedingFacts, ServerFacts, ChoiceFrame
<1>4. CASE tab.extKind = "deleted"
  <2> DEFINE r == [stage |-> "sent", raw |-> tab.raw, base |-> Gone, rev |-> tab.rev]
  <2>1. /\ choice' = [stage |-> "recovering", raw |-> tab.raw, rev |-> tab.rev]
        /\ Superseding(r)
        /\ get' = [get EXCEPT ![Poll] = NoBody, ![Choice] = NoBody]
        /\ UNCHANGED <<tab, timer>> /\ Remember(ghost)
    BY <1>4 DEF Choose
  <2>2. choice' \in ChoiceType
    BY <2>1, TabFacts DEF ChoiceType, TabType
  <2>3. get' \in [Reader -> BodyType]
    BY <2>1, <1>2, ClientFacts
  <2>4. r \in SentType /\ r.rev = tab.rev
    BY TabFacts DEF SentType, TabType
  <2>5. TabStep /\ timer' \in BOOLEAN
    BY <2>1, SameTabStep, ClientFacts
  <2> HIDE DEF r
  <2> QED
    BY <1>1, <2>1, <2>2, <2>3, <2>4, <2>5, SupersedingFacts, ServerFacts, ChoiceFrame
<1>5. CASE tab.extKind \notin {"unreadable", "deleted"}
  <2>1. /\ tab.extRaw # None /\ Decide(tab, strategy) /\ choice' = NoChoice
        /\ Superseding(NoRequest)
        /\ get' = [get EXCEPT ![Poll] = NoBody, ![Choice] = NoBody]
    BY <1>5 DEF Choose
  <2>2. TabStep /\ timer' \in BOOLEAN
    BY <2>1, TabFacts, DecideType
  <2>3. PICK g \in GhostType : Remember(g)
    BY <2>1, TabFacts, DecideType
  <2>4. get' \in [Reader -> BodyType]
    BY <2>1, <1>2, ClientFacts
  <2> QED
    BY <1>1, <2>1, <2>2, <2>3, <2>4, SupersedingFacts, ClientFacts, ChoiceFrame
<1> QED
  BY <1>3, <1>4, <1>5

(* the choice that has read the file,                                      *)
LEMMA ChoiceReadType == ASSUME TypeInv, ChoiceRead PROVE TypeInv'
<1> DEFINE body == get[Choice]
           t == [tab EXCEPT !.extRaw = body.text, !.extKind = "modified", !.mtime = body.mtime]
<1>1. /\ KeepFile /\ UNCHANGED <<locks, news, question, wire, count, poll>>
      /\ choice' = NoChoice
      /\ get' \in [Reader -> BodyType]
  BY ClientFacts, ServerFacts DEF ChoiceRead, KeepPolls, newsVars, Reader
<1>2. body.text \in Text /\ body.mtime \in Nat
  BY ServerFacts DEF ChoiceRead, BodyType, NoBody, Reader
<1>3. \/ UNCHANGED <<tab, timer>> /\ Remember(ghost)
      \/ tab' = t /\ Remember(ghost) /\ UNCHANGED timer
      \/ Decide(t, choice.strategy)
  BY DEF ChoiceRead
<1> HIDE DEF body
<1>4. /\ t \in TabType /\ t.extRaw = body.text /\ t.rev = tab.rev /\ t.saved = tab.saved
      /\ t.saving = tab.saving
  BY <1>2, TabFacts DEF TabType, Kinds
<1> HIDE DEF t
<1>5. TabStep /\ timer' \in BOOLEAN /\ \E g \in GhostType : Remember(g)
  <2>1. CASE UNCHANGED <<tab, timer>> /\ Remember(ghost)
    BY <2>1, SameTabStep, ClientFacts, ServerFacts
  <2>2. CASE tab' = t /\ Remember(ghost) /\ UNCHANGED timer
    BY <2>2, <1>2, <1>4, ClientFacts, ServerFacts, TextAssumption DEF TabStep
  <2>3. CASE Decide(t, choice.strategy)
    BY <2>3, <1>2, <1>4, TextAssumption, DecideType
  <2> QED BY <1>3, <2>1, <2>2, <2>3
<1>6. PICK g \in GhostType : Remember(g)
  BY <1>5
<1> QED
  BY <1>1, <1>5, <1>6, ClientFacts, ServerFacts, ClientFrame

(* and the choice that could not.                                          *)
LEMMA ChoiceFailsType == ASSUME TypeInv, ChoiceFails PROVE TypeInv'
<1>1. get' \in [Reader -> BodyType]
  BY ClientFacts, ServerFacts DEF ChoiceFails, Reader
<1>2. /\ KeepFile /\ UNCHANGED <<locks, news, question, wire, count, poll, tab, timer>>
      /\ choice' = NoChoice
      /\ Remember(ghost)
  BY DEF ChoiceFails, KeepPolls, newsVars
<1> QED
  BY <1>1, <1>2, SameTabStep, ClientFacts, ServerFacts, ClientFrame

(* The request for a recovery is answered and forgotten.                   *)
LEMMA DropRecover ==
  ASSUME TypeInv, wire' = [wire EXCEPT !["recover"] = NoRequest]
  PROVE  /\ wire' \in WireType /\ wire'["save"] = wire["save"]
         /\ wire'["recover"].stage = "none"
         /\ \A s \in Slot \ {"recover"} : wire'[s] = wire[s]
BY TabFacts DEF WireType, Slot, NoRequest

(* So does the request of a choice that was superseded.                    *)
LEMMA DropOlder ==
  ASSUME TypeInv, wire' = [wire EXCEPT !["older"] = NoRequest]
  PROVE  /\ wire' \in WireType /\ wire'["save"] = wire["save"]
         /\ wire'["older"].stage = "none"
         /\ \A s \in Slot \ {"older"} : wire'[s] = wire[s]
BY TabFacts DEF WireType, Slot, NoRequest

(* What a recovered document changes of the tab,                           *)
LEMMA SettleFacts ==
  ASSUME TypeInv, NEW s \in Slot, wire[s].stage = "ok", Settle(wire[s])
  PROVE  /\ TabStep /\ timer' \in BOOLEAN /\ tab'.rev = tab.rev
         /\ \E f \in Nat \union {None} : Remember([ghost EXCEPT !.forgotten = f])
<1> DEFINE ans == wire[s]
           same == tab.rev = ans.rev
           seen == StillAsked("modified") /\ tab.extRaw = ans.raw
           st == IF same THEN "saved" ELSE "dirty"
           f == IF seen /\ ~ same THEN tab.rev ELSE ghost.forgotten
<1>1. ans.raw \in Text /\ ans.mtime \in Nat /\ ans.rev \in Nat /\ ans.rev <= tab.rev
  <2>1. ans \in OkType /\ ans.rev <= tab.rev
    BY TabFacts, WireFacts DEF TypeInv, NotNewer
  <2> QED BY <2>1 DEF OkType
<1>2. CASE UNCHANGED <<tab, timer>> /\ Remember(ghost)
  <2>1. ghost = [ghost EXCEPT !.forgotten = ghost.forgotten] /\ ghost.forgotten \in Nat \union {None}
    BY ServerFacts DEF GhostType
  <2> QED
    BY <1>2, <2>1, SameTabStep, ClientFacts
<1>3. CASE StillAsked("deleted") \/ seen
  <2>1. /\ tab' = [tab EXCEPT !.base = ans.raw, !.saved = ans.rev, !.mtime = ans.mtime,
                              !.status = st, !.extRaw = None, !.extKind = "none"]
        /\ timer' \in BOOLEAN
    BY <1>3, ClientFacts DEF Settle, Schedule
  <2>2. Remember([ghost EXCEPT !.forgotten = f]) /\ f \in Nat \union {None}
    <3>1. Remember([ghost EXCEPT !.forgotten = IF seen /\ ~ same THEN tab.rev ELSE @])
      BY <1>3 DEF Settle
    <3>2. ghost.forgotten \in Nat \union {None} /\ tab.rev \in Nat
      BY ServerFacts, TabFacts DEF GhostType, TabType
    <3> QED BY <3>1, <3>2
  <2>3. st \in {"saved", "dirty"} /\ tab \in TabType
    BY TabFacts
  <2> HIDE DEF st, ans, f, seen, same
  <2>4. /\ tab' \in TabType /\ tab'.rev = tab.rev /\ tab'.saved = ans.rev
        /\ tab'.saving = tab.saving
        /\ tab'.status # "external"
    BY <1>1, <2>1, <2>3 DEF TabType, Statuses, Kinds
  <2> QED BY <1>1, <2>1, <2>2, <2>4, ClientFacts DEF TabStep
<1> QED
  BY <1>2, <1>3 DEF Settle

(* What is left to show of a step that forgets a request.                  *)
LEMMA DropFrame ==
  ASSUME TypeInv, TabStep, NEW g \in GhostType, Remember(g), KeepFile, UNCHANGED locks,
         timer' \in BOOLEAN, get' \in [Reader -> BodyType], poll' \in PollType,
         choice' \in ChoiceType, news' = news, question' = question, count' \in [Event -> Nat],
         NEW s \in {"recover", "older"}, wire' = [wire EXCEPT ![s] = NoRequest]
  PROVE  TypeInv'
<1>1. /\ wire' \in WireType /\ wire'["save"] = wire["save"] /\ wire'[s].stage = "none"
      /\ \A z \in Slot \ {s} : wire'[z] = wire[z]
  BY DropRecover, DropOlder
<1>2. Saving' = Saving
  BY <1>1 DEF Saving
<1> QED
  BY <1>1, <1>2, ChoiceFrame

(* A recovered document keeps the types,                                   *)
LEMMA RecoveredType == ASSUME TypeInv, Recovered PROVE TypeInv'
<1>1. /\ KeepFile /\ UNCHANGED <<locks, news, question, count, poll, get>> /\ choice' = NoChoice
      /\ wire' = [wire EXCEPT !["recover"] = NoRequest]
      /\ "recover" \in Slot /\ wire["recover"].stage = "ok" /\ Settle(wire["recover"])
  BY DEF Recovered, KeepPolls, newsVars, Slot
<1>2. /\ TabStep /\ timer' \in BOOLEAN
      /\ \E f \in Nat \union {None} : Remember([ghost EXCEPT !.forgotten = f])
  BY <1>1, SettleFacts
<1>3. PICK f \in Nat \union {None} : Remember([ghost EXCEPT !.forgotten = f])
  BY <1>2
<1>4. [ghost EXCEPT !.forgotten = f] \in GhostType
  BY ServerFacts DEF GhostType
<1> QED
  BY <1>1, <1>2, <1>3, <1>4, ClientFacts, ServerFacts, DropFrame

(* and so does one whose answer comes late, or not at all,                 *)
LEMMA OlderRecoveredType == ASSUME TypeInv, OlderRecovered PROVE TypeInv'
<1>1. /\ KeepFile /\ UNCHANGED <<locks, news, question, poll, get, choice>>
      /\ wire' = [wire EXCEPT !["older"] = NoRequest]
      /\ count' \in [Event -> Nat] /\ choice \in ChoiceType
  BY CountKept, ServerFacts DEF OlderRecovered, KeepPolls, newsVars, TypeInv, TypeOK, Event
<1>2. CASE UNCHANGED <<tab, timer>> /\ Remember(ghost)
  BY <1>1, <1>2, SameTabStep, ClientFacts, ServerFacts, DropFrame
<1>3. CASE wire["older"].stage = "ok" /\ Settle(wire["older"])
  <2>1. /\ TabStep /\ timer' \in BOOLEAN
        /\ \E f \in Nat \union {None} : Remember([ghost EXCEPT !.forgotten = f])
    BY <1>3, SettleFacts DEF Slot
  <2>2. PICK f \in Nat \union {None} : Remember([ghost EXCEPT !.forgotten = f])
    BY <2>1
  <2>3. [ghost EXCEPT !.forgotten = f] \in GhostType
    BY <2>2, ServerFacts DEF GhostType
  <2> QED
    BY <1>1, <2>1, <2>2, <2>3, ClientFacts, ServerFacts, DropFrame
<1> QED
  BY <1>2, <1>3 DEF OlderRecovered

(* a recovery that is refused or lost,                                     *)
LEMMA RecoverRefusedType == ASSUME TypeInv, RecoverRefused PROVE TypeInv'
<1>1. /\ KeepFile /\ UNCHANGED <<locks, news, question, tab, timer, poll>>
      /\ Remember(ghost) /\ wire' = [wire EXCEPT !["recover"] = NoRequest]
      /\ count' \in [Event -> Nat]
  BY CountKept, ServerFacts DEF RecoverRefused, KeepPolls, newsVars, TypeInv, Event
<1>2. get' \in [Reader -> BodyType]
  BY ClientFacts, ServerFacts DEF RecoverRefused, Reader
<1>3. choice' \in ChoiceType
  <2>1. choice.stage = "recovering"
    BY DEF RecoverRefused
  <2>2. choice \in [stage : {"recovering", "rereading"}, raw : Text, rev : Nat]
    BY <2>1, ClientFacts DEF ChoiceType, NoChoice
  <2>3. [choice EXCEPT !.stage = "rereading"]
          \in [stage : {"recovering", "rereading"}, raw : Text, rev : Nat]
    BY <2>2
  <2>4. choice' = NoChoice \/ choice' = [choice EXCEPT !.stage = "rereading"]
    BY DEF RecoverRefused
  <2> QED BY <2>3, <2>4, ClientFacts DEF ChoiceType
<1>5. /\ wire' \in WireType /\ wire'["save"] = wire["save"] /\ wire'["recover"].stage = "none"
      /\ \A s \in Slot \ {"recover"} : wire'[s] = wire[s]
  BY <1>1, DropRecover
<1>6. TabOK'
  BY <1>1, <1>5, TabFacts DEF TabOK, Saving
<1>7. NotNewer'
  BY <1>1, <1>5, <1>6, ClientFacts, NotNewerKept
<1> QED
  BY <1>1, <1>2, <1>3, <1>5, <1>6, <1>7, ClientFacts, ServerFacts, GhostKept, Frame
     DEF TypeInv, TypeOK, KeepFile, locks

(* and what is read after it.                                              *)
LEMMA RecoverRereadType == ASSUME TypeInv, RecoverReread PROVE TypeInv'
<1> DEFINE body == get[Choice]
<1>1. /\ KeepFile /\ UNCHANGED <<locks, news, question, wire, count, poll, timer>>
      /\ choice' = NoChoice
      /\ get' \in [Reader -> BodyType]
  BY ClientFacts, ServerFacts DEF RecoverReread, KeepPolls, newsVars, Reader
<1>2. body.text \in Text /\ body.mtime \in Nat
  BY ServerFacts DEF RecoverReread, BodyType, NoBody, Reader
<1>3. \/ tab' = tab /\ Remember(ghost)
      \/ /\ tab' = [tab EXCEPT !.base = body.text, !.saved = tab.rev, !.mtime = body.mtime,
                     !.saving = None, !.status = "saved", !.extRaw = None, !.extKind = "none"]
         /\ Remember([ghost EXCEPT !.agreed = tab.rev])
      \/ tab' = Conflict(tab, body.text, body.mtime) /\ Remember(ghost)
  BY DEF RecoverReread
<1> HIDE DEF body
<1>4. TabStep /\ \E g \in GhostType : Remember(g)
  <2>1. CASE tab' = tab /\ Remember(ghost)
    BY <2>1, SameTabStep, ServerFacts
  <2>2. CASE /\ tab' = [tab EXCEPT !.base = body.text, !.saved = tab.rev, !.mtime = body.mtime,
                     !.saving = None, !.status = "saved", !.extRaw = None, !.extKind = "none"]
             /\ Remember([ghost EXCEPT !.agreed = tab.rev])
    <3>1. [ghost EXCEPT !.agreed = tab.rev] \in GhostType
      BY ServerFacts, ClientFacts DEF GhostType
    <3>2. /\ tab' \in TabType /\ tab'.rev = tab.rev /\ tab'.saved = tab.rev
          /\ tab'.saving = None
          /\ tab'.status = "saved"
      BY <1>2, <2>2, TabFacts DEF TabType, Statuses, Kinds
    <3> QED BY <2>2, <3>1, <3>2, ClientFacts DEF TabStep
  <2>3. CASE tab' = Conflict(tab, body.text, body.mtime) /\ Remember(ghost)
    BY <1>2, <2>3, ConflictStep, ServerFacts
  <2> QED BY <1>3, <2>1, <2>2, <2>3
<1>5. PICK g \in GhostType : Remember(g)
  BY <1>4
<1> QED
  BY <1>1, <1>4, <1>5, ClientFacts, ServerFacts, ClientFrame

(* An announced change becomes the tab's text.                             *)
LEMMA AdoptType ==
  ASSUME TypeInv, NEW change \in ToldType, change.text \in Text, Adopt(change)
  PROVE  /\ TabStep /\ poll' \in PollType /\ get' \in [Reader -> BodyType]
         /\ \E g \in GhostType : Remember(g)
         /\ tab'.rev = tab.rev + 1 /\ tab'.saved = tab.rev + 1 /\ tab'.raw = change.text
         /\ tab'.base = change.text /\ tab'.mtime = change.mtime /\ tab'.status = "idle"
         /\ tab'.extRaw = None
<1> DEFINE n == tab.rev + 1
<1>1. n \in Nat /\ change.mtime \in Nat /\ tab \in TabType
  BY ClientFacts, TabFacts DEF ToldType
<1>2. tab' = [tab EXCEPT !.raw = change.text, !.base = change.text, !.mtime = change.mtime,
                         !.rev = n, !.saved = n, !.saving = None,
                         !.status = "idle", !.extRaw = None, !.extKind = "none"]
  BY DEF Adopt
<1> HIDE DEF n
<1>3. /\ tab' \in TabType /\ tab'.rev = n /\ tab'.saved = n /\ tab'.saving = None
      /\ tab'.raw = change.text /\ tab'.base = change.text /\ tab'.mtime = change.mtime
      /\ tab'.status = "idle" /\ tab'.extRaw = None
  BY <1>1, <1>2 DEF TabType, Statuses, Kinds
<1>4. [ghost EXCEPT !.mine = FALSE] \in GhostType
  BY ServerFacts DEF GhostType
<1>5. poll' \in PollType /\ get' \in [Reader -> BodyType]
  BY ClientFacts, ServerFacts DEF Adopt, Supersede, Reader
<1> QED
  BY <1>3, <1>4, <1>5, ClientFacts DEF n, TabStep, Adopt

(* An announced change keeps the types,                                    *)
LEMMA AnnouncedType == ASSUME TypeInv, Announced PROVE TypeInv'
<1>1. /\ KeepFile /\ UNCHANGED <<locks, wire, count, timer, choice>> /\ news' = NoNews
  BY DEF Announced
<1>2. news \in ToldType
  BY ServerFacts DEF Announced, NewsType, NoNews, DoneType
<1>3. CASE UNCHANGED <<tab, get, poll>> /\ Remember(ghost) /\ question' = NoQuestion
  BY <1>1, <1>3, SameTabStep, ClientFacts, ServerFacts, ClientFrame
<1>4. CASE tab' = Deleted(tab) /\ question' = NoQuestion /\ Supersede /\ Remember(ghost)
  <2>1. poll' \in PollType /\ get' \in [Reader -> BodyType]
    BY <1>4, ClientFacts, ServerFacts DEF Supersede, Reader
  <2> QED BY <1>1, <1>4, <2>1, ReportStep, ClientFacts, ServerFacts, ClientFrame
<1>5. CASE /\ news.text # Gone /\ question' = [stage |-> "open", change |-> news, was |-> tab]
           /\ UNCHANGED <<tab, get, poll>> /\ Remember(ghost)
  <2>1. question' \in QuestionType /\ question'.change.text \in Text
    BY <1>2, <1>5, TabFacts DEF QuestionType, ToldType
  <2> QED BY <1>1, <1>5, <2>1, SameTabStep, ClientFacts, ServerFacts, ClientFrame
<1>6. CASE news.text # Gone /\ Adopt(news) /\ question' = NoQuestion
  <2>1. news.text \in Text
    BY <1>2, <1>6 DEF ToldType
  <2>2. TabStep /\ poll' \in PollType /\ get' \in [Reader -> BodyType]
    BY <1>2, <1>6, <2>1, AdoptType
  <2>3. PICK g \in GhostType : Remember(g)
    BY <1>2, <1>6, <2>1, AdoptType
  <2> QED BY <1>1, <1>6, <2>2, <2>3, ClientFacts, ServerFacts, ClientFrame
<1> QED
  BY <1>3, <1>4, <1>5, <1>6 DEF Announced

(* The open question.                                                      *)
LEMMA QuestionFacts ==
  ASSUME TypeInv, question.stage = "open"
  PROVE  /\ question.change \in ToldType /\ question.change.text \in Text
         /\ question.change.mtime \in Nat /\ question.was \in TabType
<1>1. question \in [stage : {"open"}, change : ToldType, was : TabType]
  BY ClientFacts DEF QuestionType, NoQuestion
<1> QED
  BY <1>1, ClientFacts DEF ToldType

(* the user who accepts it,                                                *)
LEMMA AcceptType == ASSUME TypeInv, Accept PROVE TypeInv'
<1> DEFINE change == question.change
<1>1. /\ KeepFile /\ UNCHANGED <<locks, wire, count, timer, choice, news>>
      /\ question' = NoQuestion
  BY DEF Accept
<1>2. change \in ToldType /\ change.text \in Text /\ change.mtime \in Nat
  BY QuestionFacts DEF Accept
<1>3. TabStep /\ poll' \in PollType /\ get' \in [Reader -> BodyType] /\ \E g \in GhostType : Remember(g)
  <2>1. CASE Adopt(change)
    BY <1>2, <2>1, AdoptType
  <2>2. CASE /\ tab' = Conflict(tab, change.text, change.mtime)
             /\ UNCHANGED <<get, poll>> /\ Remember(ghost)
    BY <1>2, <2>2, ConflictStep, ServerFacts
  <2>3. CASE UNCHANGED <<tab, get, poll>> /\ Remember(ghost)
    BY <2>3, SameTabStep, ServerFacts
  <2> QED BY <2>1, <2>2, <2>3 DEF Accept
<1>4. PICK g \in GhostType : Remember(g)
  BY <1>3
<1> QED
  BY <1>1, <1>3, <1>4, ClientFacts, ServerFacts, ClientFrame

(* and the user who does not.                                              *)
LEMMA DeclineType == ASSUME TypeInv, Decline PROVE TypeInv'
<1> DEFINE time == question.change.mtime
<1>1. /\ KeepFile /\ UNCHANGED <<locks, wire, count, timer, choice, news, get, poll>>
      /\ question' = NoQuestion
  BY DEF Decline
<1>2. time \in Nat
  BY QuestionFacts DEF Decline
<1>3. \/ tab' = [tab EXCEPT !.mtime = time] /\ Remember([ghost EXCEPT !.declined = time])
      \/ tab' = tab /\ Remember(ghost)
  BY DEF Decline
<1> HIDE DEF time
<1>4. TabStep /\ \E g \in GhostType : Remember(g)
  <2>1. CASE tab' = [tab EXCEPT !.mtime = time] /\ Remember([ghost EXCEPT !.declined = time])
    <3>1. [ghost EXCEPT !.declined = time] \in GhostType
      BY <1>2, ServerFacts DEF GhostType
    <3>2. /\ tab' \in TabType /\ tab'.rev = tab.rev /\ tab'.saved = tab.saved
          /\ tab'.saving = tab.saving
          /\ tab'.status = tab.status /\ tab'.extRaw = tab.extRaw /\ tab'.extKind = tab.extKind
      BY <1>2, <2>1, TabFacts DEF TabType
    <3> QED BY <2>1, <3>1, <3>2, TabFacts, ClientFacts DEF TabStep, Fit
  <2>2. CASE tab' = tab /\ Remember(ghost)
    BY <2>2, SameTabStep, ServerFacts
  <2> QED BY <1>3, <2>1, <2>2
<1>5. PICK g \in GhostType : Remember(g)
  BY <1>4
<1> QED
  BY <1>1, <1>4, <1>5, ClientFacts, ServerFacts, ClientFrame

-----------------------------------------------------------------------------
(* The locks.                                                              *)

(* What is left to show of a step that leaves the tab and the file alone.  *)
LEMMA LockFrame ==
  ASSUME TypeInv, NEW g \in GhostType, Remember(g), KeepFile, KeepPolls,
         UNCHANGED <<tab, wire, get, choice>>, timer' \in BOOLEAN,
         barrier' \in {"none", "waiting", "held"}, wide' \in BOOLEAN, globalLock' \in BOOLEAN,
         logout' \in LogoutStages, count' \in [Event -> Nat]
  PROVE  TypeInv'
<1>1. ghost' \in GhostType
  BY GhostKept
<1>2. TabOK'
  BY TabFacts DEF TabOK, Saving
<1>3. NotNewer'
  BY DEF TypeInv, NotNewer
<1> QED
  BY <1>1, <1>2, <1>3, Frame DEF TypeInv, TypeOK, KeepFile, KeepPolls, newsVars

(* What the type invariant says of the locks.                              *)
LEMMA LockFacts ==
  ASSUME TypeInv
  PROVE  /\ timer \in BOOLEAN /\ barrier \in {"none", "waiting", "held"} /\ wide \in BOOLEAN
         /\ globalLock \in BOOLEAN /\ logout \in LogoutStages
         /\ \A b \in BOOLEAN : [ghost EXCEPT !.shared = b] \in GhostType
BY DEF TypeInv, TypeOK, GhostType

(* The barrier of a rename, move, delete or history operation keeps the    *)
(* types,                                                                  *)
LEMMA BarrierType ==
  ASSUME TypeInv, BarrierTake \/ BarrierHold \/ BarrierRelease
  PROVE  TypeInv'
<1>1. /\ KeepFile /\ KeepPolls /\ UNCHANGED <<tab, wire, get, choice, logout>>
      /\ count' \in [Event -> Nat] /\ timer' \in BOOLEAN
      /\ barrier' \in {"none", "waiting", "held"} /\ wide' \in BOOLEAN
      /\ globalLock' \in BOOLEAN
  BY CountKept, LockFacts, ServerFacts
     DEF BarrierTake, BarrierHold, BarrierRelease, TypeInv, Event
<1>2. PICK g \in GhostType : Remember(g)
  BY LockFacts, ServerFacts DEF BarrierTake, BarrierHold, BarrierRelease
<1> QED
  BY <1>1, <1>2, LockFacts, LockFrame

(* the stages of a logout,                                                 *)
LEMMA LogoutType ==
  ASSUME TypeInv, LogoutBegin \/ LogoutSaved \/ LogoutFlushed \/ LogoutAnswer \/ LogoutEnd
  PROVE  TypeInv'
<1>1. /\ KeepFile /\ KeepPolls /\ UNCHANGED <<tab, wire, get, choice, barrier, wide>>
  BY DEF LogoutBegin, LogoutSaved, LogoutFlushed, LogoutAnswer, LogoutEnd, Resume, KeepWork
<1>2. /\ timer' \in BOOLEAN /\ globalLock' \in BOOLEAN
  BY LockFacts DEF LogoutBegin, LogoutSaved, LogoutFlushed, LogoutAnswer, LogoutEnd, Resume
<1>3. logout' \in LogoutStages
  BY DEF LogoutBegin, LogoutSaved, LogoutFlushed, LogoutAnswer, LogoutEnd, Resume,
     LogoutStages, Snapshot
<1>4. count' \in [Event -> Nat]
  BY CountKept, ServerFacts DEF LogoutBegin, LogoutSaved, LogoutFlushed, LogoutAnswer,
     LogoutEnd, TypeInv, Event
<1>5. PICK g \in GhostType : Remember(g)
  BY LockFacts, ServerFacts DEF LogoutBegin, LogoutSaved, LogoutFlushed, LogoutAnswer,
     LogoutEnd, Resume
<1> QED
  BY <1>1, <1>2, <1>3, <1>4, <1>5, LockFacts, LockFrame

(* its own save,                                                           *)
LEMMA LogoutSaveType == ASSUME TypeInv, LogoutSave PROVE TypeInv'
<1>1. /\ KeepFile /\ KeepPolls
      /\ UNCHANGED <<get, choice, barrier, wide, globalLock, count>> /\ timer' \in BOOLEAN
      /\ Remember(ghost)
  BY DEF LogoutSave, KeepWork
<1>2. CASE logout' = Snapshot(tab) /\ UNCHANGED <<tab, wire>>
  <2>1. logout' \in LogoutStages
    BY <1>2 DEF Snapshot, LogoutStages
  <2> QED BY <1>1, <1>2, <2>1, LockFacts, ServerFacts, LockFrame
<1>3. CASE /\ logout' = "saving"
           /\ tab' = [tab EXCEPT !.saving = tab.rev, !.status = "saving"]
           /\ wire' = [wire EXCEPT !["save"] = Request(tab)]
  <2>1. /\ TabOK' /\ wire' \in WireType /\ tab'.rev = tab.rev /\ wire'["save"].rev = tab.rev
        /\ \A s \in Slot \ {"save"} : wire'[s] = wire[s]
    BY <1>3, TabFacts, SendType
  <2>2. NotNewer'
    BY <2>1, ClientFacts, NotNewerKept
  <2>3. logout' \in LogoutStages
    BY <1>3 DEF LogoutStages
  <2> QED
    BY <1>1, <1>3, <2>1, <2>2, <2>3, LockFacts, ServerFacts, GhostKept, Frame
       DEF TypeInv, TypeOK, KeepFile, KeepPolls, newsVars
<1> QED
  BY <1>2, <1>3 DEF LogoutSave

(* and doing nothing.                                                      *)
LEMMA StutterType == ASSUME TypeInv, UNCHANGED vars PROVE TypeInv'
<1>1. UNCHANGED <<disk, mtime, tab, timer, wire, get, poll, choice, news, question,
                  barrier, wide, globalLock, logout, count, ghost>>
  BY DEF vars, newsVars, locks
<1> QED
  BY <1>1 DEF TypeInv, TypeOK, NotNewer, Saving

-----------------------------------------------------------------------------

(* The types hold at the start,                                            *)
LEMMA InitType == Init => TypeInv
<1> SUFFICES ASSUME Init PROVE TypeInv
  OBVIOUS
<1>1. /\ tab \in TabType /\ tab.saved = 0 /\ tab.rev = 0 /\ tab.saving = None
      /\ tab.status = "idle"
  BY TextAssumption DEF Init, TabType, Statuses, Kinds
<1>2. poll \in PollType /\ wire \in WireType /\ get \in [Reader -> BodyType]
  BY DEF Init, PollType, NoPolls, NoPoll, WireType, BodyType
<1>3. /\ choice \in ChoiceType /\ news \in NewsType /\ question \in QuestionType
      /\ question.stage = "none"
  BY DEF Init, ChoiceType, NewsType, QuestionType, NoQuestion
<1>4. ghost \in GhostType
  BY DEF Init, GhostType
<1>5. NotNewer
  BY DEF Init, NotNewer, NoRequest
<1> QED
  <2>1. disk \in Text \union {Gone} /\ mtime \in Nat /\ count \in [Event -> Nat]
    BY TextAssumption DEF Init
  <2>2. /\ timer \in BOOLEAN /\ wide \in BOOLEAN /\ globalLock \in BOOLEAN
        /\ barrier \in {"none", "waiting", "held"} /\ logout \in LogoutStages
    BY DEF Init, LogoutStages
  <2> QED
    BY <1>1, <1>2, <1>3, <1>4, <1>5, <2>1, <2>2 DEF TypeInv, TypeOK

(* and every step keeps them.                                              *)
LEMMA NextType == TypeInv /\ [Next]_vars => TypeInv'
<1> SUFFICES ASSUME TypeInv, [Next]_vars PROVE TypeInv'
  OBVIOUS
<1>1. ASSUME User PROVE TypeInv'
  <2>1. CASE SaveNow \/ Online
    BY <2>1, LockFacts, SavesType DEF SaveNow, Online
  <2> QED
    BY <1>1, <2>1, EditType, ChooseType, BarrierType, AcceptType, DeclineType,
       LogoutType DEF User
<1>2. ASSUME Client PROVE TypeInv'
  <2>1. CASE TimerFires
    BY <2>1, SavesType DEF TimerFires
  <2> QED
    BY <1>2, <2>1, AnnouncedType, SaveReplyType, ChoiceReadType, ChoiceFailsType,
       RecoveredType, OlderRecoveredType, RecoverRefusedType, RecoverRereadType, BarrierType, LogoutSaveType, LogoutType
       DEF Client, ChoiceStep, LogoutStep
<1>3. ASSUME Server PROVE TypeInv'
  BY <1>3, PutCommitType, FinishType, RecoverCommitType, TellType, GetType DEF Server
<1>4. ASSUME Environment PROVE TypeInv'
  BY <1>4, SaveLostType, PollAskType, PollLookType, PollApplyType, PollUnreadableType,
     WriteType
     DEF Environment, PollStep
<1> QED
  BY <1>1, <1>2, <1>3, <1>4, StutterType DEF Next, LoggedOut

(* Every variable has its type, no saved revision is above the present one,*)
(* and savingRevision is set only while a save is in flight                *)
(* (useDocumentSave.ts).                                                   *)
THEOREM TypeCorrect == Spec => []TypeOK
<1>1. TypeInv => TypeOK
  BY DEF TypeInv
<1> QED
  BY <1>1, InitType, NextType, PTL DEF Spec

-----------------------------------------------------------------------------
(* The barrier.                                                            *)

(* Who holds the locks, and that nothing is sent or scheduled under them.  *)
Quiet ==
  /\ barrier = "none" => ~ wide
  /\ ghost.shared => wide
  /\ wide /\ ~ ghost.shared => globalLock /\ logout = "none"
  /\ barrier # "none" => ~ timer \/ ghost.shared
  /\ barrier = "held" => ~ Saving \/ ghost.shared

(* What is left to show of a step that leaves the locks alone.             *)
LEMMA QuietKept ==
  ASSUME TypeInv, Quiet, UNCHANGED locks, ghost'.shared = ghost.shared,
         timer' => timer \/ ~ Locked, Saving' => Saving \/ ~ Locked
  PROVE  Quiet'
BY LockFacts DEF Quiet, Locked, PathLocked, locks

(* What Remember leaves alone.                                             *)
LEMMA GhostFields ==
  ASSUME NEW g \in GhostType, Remember(g)
  PROVE  /\ ghost'.mine = g.mine /\ ghost'.draft = g.draft /\ ghost'.back = g.back
         /\ ghost'.mispaired = g.mispaired /\ ghost'.keptClean = g.keptClean
         /\ ghost'.residue = g.residue /\ ghost'.declined = g.declined
         /\ ghost'.agreed = g.agreed /\ ghost'.shared = g.shared
<1>1. ghost' = [g EXCEPT !.durable = ghost'.durable]
  BY GhostKept
<1> QED
  BY <1>1 DEF GhostType

(* Saves are not sent under a lock,                                        *)
LEMMA SavesQuiet ==
  ASSUME TypeInv, Quiet, Save(tab, ~ Saving), timer' => timer, Remember(ghost), UNCHANGED locks
  PROVE  Quiet'
<1>1. Saving' => Saving \/ ~ Locked
  BY DEF Save, Saving
<1> QED
  BY <1>1, GhostFields, ServerFacts, QuietKept

(* typing schedules none,                                                  *)
LEMMA EditQuiet ==
  ASSUME TypeInv, Quiet, NEW text \in Typed, Edit(text)
  PROVE  Quiet'
<1> DEFINE back == ~ Unresolved(tab) /\ text = tab.base
           g == [ghost EXCEPT !.mine = TRUE, !.draft = ~ back, !.back = back]
<1>1. g \in GhostType /\ g.shared = ghost.shared
  BY ServerFacts DEF GhostType
<1>2. Remember(g) /\ UNCHANGED locks /\ UNCHANGED wire /\ (timer' => timer \/ ~ Locked)
  BY DEF Edit, Schedule
<1> HIDE DEF g
<1> QED
  BY <1>1, <1>2, GhostFields, QuietKept DEF Saving

(* and the loop of a save ends at the lock of its path.                    *)
LEMMA SaveReplyQuiet == ASSUME TypeInv, Quiet, SaveReply PROVE Quiet'
<1> DEFINE ans == wire["save"]
           g == [ghost EXCEPT !.draft = IF Unresolved(tab) THEN @ ELSE tab.rev # ans.rev]
<1>1. g \in GhostType /\ g.shared = ghost.shared
  BY ServerFacts DEF GhostType
<1>2. Remember(g) \/ Remember(ghost)
  BY DEF SaveReply, Saved, Conflicted, Failed
<1> HIDE DEF g
<1>3. ghost'.shared = ghost.shared
  BY <1>1, <1>2, GhostFields, ServerFacts
<1>4. UNCHANGED locks /\ (timer' => timer) /\ Saving
  BY DEF SaveReply, Saving
<1> QED
  BY <1>3, <1>4, QuietKept

(* What the steps of the server and of other programs have in common.      *)
LEMMA ServerSteps ==
  ASSUME TypeInv, Server \/ External \/ Assist
  PROVE  /\ KeepTab /\ question' = question /\ poll' = poll /\ (Saving' => Saving)
         /\ ghost' \in GhostType
         /\ ghost'.mine = ghost.mine /\ ghost'.draft = ghost.draft /\ ghost'.back = ghost.back
         /\ ghost'.keptClean = ghost.keptClean /\ ghost'.residue = ghost.residue
         /\ ghost'.declined = ghost.declined /\ ghost'.agreed = ghost.agreed
         /\ ghost'.shared = ghost.shared /\ (ghost.mispaired => ghost'.mispaired)
         /\ ghost'.durable <=> disk' = tab.raw \/ ghost.durable
<1>1. KeepTab /\ question' = question /\ poll' = poll
  BY DEF Server, External, Assist, PutCommit, Finish, FinishFails, RecoverCommit, Tell,
     GetStat,
         GetBody, GetLost, KeepPolls, newsVars
<1>2. tab' = tab
  BY <1>1 DEF KeepTab
<1>3. Saving' => Saving
  <2>1. UNCHANGED wire \/ \E s \in Slot : wire[s].stage # "none" /\ \E w : wire' = [wire EXCEPT ![s] = w]
    <3>1. ASSUME NEW s \in Slot, PutCommit(s) \/ Finish(s) \/ FinishFails(s)
          PROVE  wire[s].stage # "none" /\ \E w : wire' = [wire EXCEPT ![s] = w]
      BY <3>1 DEF PutCommit, Finish, FinishFails, Answer
    <3>2. ASSUME NEW s \in Slot, RecoverCommit(s)
          PROVE  wire[s].stage # "none" /\ \E w : wire' = [wire EXCEPT ![s] = w]
      BY <3>2 DEF RecoverCommit, Answer
    <3> QED
      BY <3>1, <3>2 DEF Server, External, Assist, Tell, GetStat, GetBody, GetLost, Slot
  <2> QED
    BY <2>1, TabFacts DEF Saving, WireType, Slot
<1>4. PICK g \in GhostType : /\ Remember(g) /\ (ghost.mispaired => g.mispaired)
                             /\ g = [ghost EXCEPT !.mispaired = g.mispaired]
  <2>1. CASE Remember(ghost)
    BY <2>1, ServerFacts DEF GhostType
  <2>2. ASSUME NEW b \in BOOLEAN, Remember([ghost EXCEPT !.mispaired = @ \/ b])
        PROVE  \E g \in GhostType : /\ Remember(g) /\ (ghost.mispaired => g.mispaired)
                                    /\ g = [ghost EXCEPT !.mispaired = g.mispaired]
    <3> DEFINE h == [ghost EXCEPT !.mispaired = @ \/ b]
    <3>1. h \in GhostType /\ (ghost.mispaired => h.mispaired)
          /\ h = [ghost EXCEPT !.mispaired = h.mispaired]
      BY ServerFacts DEF GhostType
    <3>2. Remember(h)
      BY <2>2
    <3> HIDE DEF h
    <3> QED BY <3>1, <3>2
  <2>3. \/ Remember(ghost)
        \/ \E s \in Slot : Remember([ghost EXCEPT !.mispaired = @ \/ disk \notin {Gone, wire[s].raw}])
        \/ Remember([ghost EXCEPT !.mispaired = @ \/ disk \notin {Gone, news.text}])
    BY DEF Server, External, Assist, PutCommit, Finish, FinishFails, RecoverCommit, Tell,
       GetStat,
           GetBody, GetLost
  <2> QED
    BY <2>1, <2>2, <2>3
<1>5. /\ g.mine = ghost.mine /\ g.draft = ghost.draft /\ g.back = ghost.back
      /\ g.durable = ghost.durable
      /\ g.keptClean = ghost.keptClean /\ g.residue = ghost.residue
      /\ g.declined = ghost.declined
      /\ g.agreed = ghost.agreed /\ g.shared = ghost.shared
  BY <1>4, ServerFacts DEF GhostType
<1>6. ghost' \in GhostType /\ (ghost'.durable <=> disk' = tab.raw \/ ghost.durable)
  BY <1>2, <1>4, <1>5, GhostKept
<1>7. ghost.mispaired => ghost'.mispaired
  BY <1>4, GhostFields
<1> QED
  BY <1>1, <1>3, <1>4, <1>5, <1>6, <1>7, GhostFields

(* What Remember leaves alone when nothing else is to be remembered.       *)
LEMMA Remembered ==
  ASSUME TypeInv, Remember(ghost)
  PROVE  /\ ghost'.mine = ghost.mine /\ ghost'.draft = ghost.draft /\ ghost'.back = ghost.back
         /\ ghost'.mispaired = ghost.mispaired /\ ghost'.keptClean = ghost.keptClean
         /\ ghost'.residue = ghost.residue /\ ghost'.declined = ghost.declined
         /\ ghost'.agreed = ghost.agreed /\ ghost'.shared = ghost.shared
         /\ ghost'.durable <=> disk' = tab'.raw \/ (ghost.durable /\ tab'.raw = tab.raw)
BY ServerFacts, GhostFields, GhostKept

(* The steps that neither lock nor unlock, with what they remember.        *)
LEMMA OtherQuiet ==
  ASSUME TypeInv, Quiet, NEW g \in GhostType, Remember(g), g.shared = ghost.shared,
         UNCHANGED locks, timer' => timer \/ ~ Locked, Saving' => Saving
  PROVE  Quiet'
<1>1. ghost'.shared = ghost.shared
  BY GhostFields
<1> QED
  BY <1>1, QuietKept

(* Polls neither lock nor send,                                            *)
LEMMA PollQuiet == ASSUME TypeInv, Quiet, PollStep PROVE Quiet'
<1>1. UNCHANGED locks /\ timer' = timer /\ wire' = wire
  BY DEF PollStep, PollAsk, PollStates, PollStatesLost, PollLook, PollApply,
     PollUnreadable, KeepTab, locks
<1>2. Saving' = Saving
  BY <1>1 DEF Saving
<1>3. CASE Remember(ghost)
  BY <1>1, <1>2, <1>3, ServerFacts, OtherQuiet
<1>4. CASE Remember([ghost EXCEPT !.mine = FALSE, !.residue = @ \/ tab.extRaw # None])
  <2> DEFINE g == [ghost EXCEPT !.mine = FALSE, !.residue = @ \/ tab.extRaw # None]
  <2>1. g \in GhostType /\ g.shared = ghost.shared
    BY ServerFacts DEF GhostType
  <2>2. Remember(g)
    BY <1>4
  <2> HIDE DEF g
  <2> QED BY <1>1, <1>2, <2>1, <2>2, OtherQuiet
<1> QED
  BY <1>3, <1>4 DEF PollStep, PollAsk, PollStates, PollStatesLost, PollLook, PollApply,
     PollUnreadable

(* nor does a lost save.                                                   *)
LEMMA SaveLostQuiet == ASSUME TypeInv, Quiet, SaveLost PROVE Quiet'
BY ServerFacts, OtherQuiet DEF SaveLost, locks

(* What a choice between two texts remembers.                              *)
LEMMA DecideQuiet ==
  ASSUME TypeInv, Quiet, NEW t \in TabType, t.rev = tab.rev, NEW strategy, Decide(t, strategy),
         UNCHANGED locks, Saving' = Saving
  PROVE  Quiet'
<1>1. CASE strategy = "disk"
  <2>1. [ghost EXCEPT !.mine = FALSE] \in GhostType /\ [ghost EXCEPT !.mine = FALSE].shared = ghost.shared
    BY ServerFacts DEF GhostType
  <2>2. Remember([ghost EXCEPT !.mine = FALSE]) /\ (timer' => timer)
    BY <1>1 DEF Decide
  <2>3. PICK g \in GhostType : Remember(g) /\ g.shared = ghost.shared
    BY <2>1, <2>2
  <2> QED BY <2>2, <2>3, OtherQuiet
<1>2. CASE strategy # "disk"
  <2> DEFINE g == [ghost EXCEPT !.keptClean = IF tab'.status = "dirty" /\ Clean(t) THEN t.rev ELSE @,
                                !.agreed = IF t.raw = t.extRaw THEN t.rev ELSE @]
  <2>1. g \in GhostType /\ g.shared = ghost.shared
    BY ServerFacts, ClientFacts DEF GhostType
  <2>2. Remember(g) /\ (timer' => timer \/ ~ Locked)
    BY <1>2 DEF Decide, Schedule
  <2> HIDE DEF g
  <2> QED BY <2>1, <2>2, OtherQuiet
<1> QED
  BY <1>1, <1>2

(* A choice schedules nothing under a lock,                                *)
LEMMA ChooseQuiet ==
  ASSUME TypeInv, Quiet, NEW strategy, Choose(strategy)
  PROVE  Quiet'
<1>1. UNCHANGED locks
  BY DEF Choose
<1>2. Saving' = Saving
  BY TabFacts DEF Choose, Superseding, Saving, WireType, Slot
<1>3. CASE Decide(tab, strategy)
  BY <1>1, <1>2, <1>3, TabFacts, DecideQuiet
<1>4. CASE Remember(ghost) /\ timer' = timer
  BY <1>1, <1>2, <1>4, ServerFacts, OtherQuiet
<1> QED
  BY <1>3, <1>4 DEF Choose

(* nor do its answers,                                                     *)
LEMMA ChoiceQuiet == ASSUME TypeInv, Quiet, ChoiceStep PROVE Quiet'
<1>1. UNCHANGED locks
  BY DEF ChoiceStep, ChoiceRead, ChoiceFails, Recovered, OlderRecovered, RecoverRefused,
     RecoverReread
<1>2. Saving' = Saving
  BY TabFacts DEF ChoiceStep, ChoiceRead, ChoiceFails, Recovered, OlderRecovered,
     RecoverRefused, RecoverReread, Saving, WireType, Slot
<1>3. CASE ChoiceRead
  <2> DEFINE body == get[Choice]
             t == [tab EXCEPT !.extRaw = body.text, !.extKind = "modified", !.mtime = body.mtime]
  <2>1. body.text \in Text /\ body.mtime \in Nat
    BY <1>3, ServerFacts DEF ChoiceRead, BodyType, NoBody, Reader
  <2>2. Decide(t, choice.strategy) \/ (Remember(ghost) /\ timer' = timer)
    BY <1>3 DEF ChoiceRead
  <2> HIDE DEF body
  <2>3. t \in TabType /\ t.rev = tab.rev
    BY <2>1, TabFacts DEF TabType, Kinds
  <2> HIDE DEF t
  <2> QED BY <1>1, <1>2, <2>2, <2>3, ServerFacts, OtherQuiet, DecideQuiet
<1>4. CASE ChoiceFails \/ RecoverRefused
  BY <1>1, <1>2, <1>4, ServerFacts, OtherQuiet DEF ChoiceFails, RecoverRefused
<1>6. CASE Recovered \/ OlderRecovered
  <2>1. CASE UNCHANGED timer /\ Remember(ghost)
    BY <1>1, <1>2, <2>1, ServerFacts, OtherQuiet
  <2>2. ASSUME NEW s \in Slot, wire[s].stage = "ok", Settle(wire[s]) PROVE Quiet'
    <3>1. PICK f \in Nat \union {None} : Remember([ghost EXCEPT !.forgotten = f])
      BY <2>2, SettleFacts
    <3>2. /\ [ghost EXCEPT !.forgotten = f] \in GhostType
          /\ [ghost EXCEPT !.forgotten = f].shared = ghost.shared
      BY ServerFacts DEF GhostType
    <3>3. timer' => timer \/ ~ Locked
      BY <2>2 DEF Settle, Schedule
    <3> QED BY <1>1, <1>2, <3>1, <3>2, <3>3, OtherQuiet
  <2> QED BY <1>6, <2>1, <2>2 DEF Recovered, OlderRecovered, Slot
<1>5. CASE RecoverReread
  <2>1. /\ [ghost EXCEPT !.agreed = tab.rev] \in GhostType
        /\ [ghost EXCEPT !.agreed = tab.rev].shared = ghost.shared
    BY ServerFacts, ClientFacts DEF GhostType
  <2> QED BY <1>1, <1>2, <1>5, <2>1, ServerFacts, OtherQuiet DEF RecoverReread
<1> QED
  BY <1>3, <1>4, <1>5, <1>6 DEF ChoiceStep

(* and announced changes never schedule.                                   *)
LEMMA NewsQuiet ==
  ASSUME TypeInv, Quiet, Announced \/ Accept \/ Decline
  PROVE  Quiet'
<1>1. UNCHANGED locks /\ timer' = timer /\ wire' = wire
  BY DEF Announced, Accept, Decline
<1>2. Saving' = Saving
  BY <1>1 DEF Saving
<1>3. PICK g \in GhostType : Remember(g) /\ g.shared = ghost.shared
  <2>1. /\ [ghost EXCEPT !.mine = FALSE] \in GhostType
        /\ [ghost EXCEPT !.mine = FALSE].shared = ghost.shared
    BY ServerFacts DEF GhostType
  <2>2. CASE Decline
    <3> DEFINE time == question.change.mtime
    <3>1. time \in Nat
      BY <2>2, QuestionFacts DEF Decline
    <3>2. Remember([ghost EXCEPT !.declined = time]) \/ Remember(ghost)
      BY <2>2 DEF Decline
    <3> HIDE DEF time
    <3>3. /\ [ghost EXCEPT !.declined = time] \in GhostType
          /\ [ghost EXCEPT !.declined = time].shared = ghost.shared
      BY <3>1, ServerFacts DEF GhostType
    <3> QED BY <3>2, <3>3, ServerFacts
  <2>3. CASE Announced \/ Accept
    BY <2>1, <2>3, ServerFacts DEF Announced, Accept, Adopt
  <2> QED BY <2>2, <2>3
<1> QED
  BY <1>1, <1>2, <1>3, OtherQuiet

(* The barrier takes the lock, waits and releases it.                      *)
LEMMA BarrierSteps ==
  ASSUME TypeInv, Quiet, BarrierTake \/ BarrierHold \/ BarrierRelease
  PROVE  Quiet'
<1>1. wire' = wire /\ Saving' = Saving
  BY DEF BarrierTake, BarrierHold, BarrierRelease, Saving
<1>2. CASE BarrierTake
  BY <1>1, <1>2, Remembered, LockFacts DEF BarrierTake, Quiet
<1>3. CASE BarrierHold
  BY <1>1, <1>3, Remembered, LockFacts DEF BarrierHold, Quiet
<1>4. CASE BarrierRelease
  <2>1. [ghost EXCEPT !.shared = FALSE] \in GhostType /\ [ghost EXCEPT !.shared = FALSE].shared = FALSE
    BY ServerFacts DEF GhostType
  <2>2. ~ ghost'.shared
    BY <1>4, <2>1, GhostFields DEF BarrierRelease
  <2> QED BY <1>1, <1>4, <2>2, LockFacts DEF BarrierRelease, Quiet
<1> QED
  BY <1>2, <1>3, <1>4

(* A logout takes the global lock, which it may have to share.             *)
LEMMA LogoutSteps ==
  ASSUME TypeInv, Quiet, LogoutBegin \/ LogoutStep \/ LogoutAnswer
  PROVE  Quiet'
<1>1. CASE LogoutBegin
  <2>1. [ghost EXCEPT !.shared = wide] \in GhostType /\ [ghost EXCEPT !.shared = wide].shared = wide
    BY ServerFacts, LockFacts DEF GhostType
  <2>2. ghost'.shared = wide
    BY <1>1, <2>1, GhostFields DEF LogoutBegin
  <2>3. Saving' = Saving
    BY <1>1 DEF LogoutBegin, Saving
  <2> QED BY <1>1, <2>2, <2>3, LockFacts DEF LogoutBegin, Quiet, KeepWork
<1>2. CASE LogoutSave
  BY <1>2, Remembered, LockFacts DEF LogoutSave, Quiet, KeepWork, PathLocked, Saving
<1>3. CASE LogoutSaved \/ LogoutFlushed
  BY <1>3, Remembered, LockFacts DEF LogoutSaved, LogoutFlushed, Quiet, KeepWork, Saving
<1>4. CASE LogoutAnswer \/ LogoutEnd
  <2>1. /\ barrier' = barrier /\ wide' = wide /\ globalLock' = globalLock /\ wire' = wire
        /\ Remember(ghost)
        /\ timer' => timer \/ ~ PathLocked
        /\ logout # "none"
    <3>1. CASE Resume
      BY <1>4, <3>1, LockFacts DEF LogoutAnswer, LogoutEnd, Resume, KeepWork
    <3>2. CASE ~ Resume
      BY <1>4, <3>2 DEF LogoutAnswer, LogoutEnd, KeepWork
    <3> QED BY <3>1, <3>2
  <2>2. ghost'.shared = ghost.shared /\ Saving' = Saving
    BY <2>1, Remembered DEF Saving
  <2> QED BY <2>1, <2>2, LockFacts DEF Quiet, PathLocked
<1> QED
  BY <1>1, <1>2, <1>3, <1>4 DEF LogoutStep

(* Every step keeps the locks quiet,                                       *)
LEMMA QuietStep == ASSUME TypeInv, Quiet, [Next]_vars PROVE Quiet'
<1>1. CASE User
  <2>1. CASE SaveNow \/ Online
    <3>1. Save(tab, ~ Saving) /\ (timer' => timer) /\ Remember(ghost) /\ UNCHANGED locks
      BY <2>1 DEF SaveNow, Online
    <3> QED BY <3>1, SavesQuiet
  <2> QED
    BY <1>1, <2>1, EditQuiet, ChooseQuiet, BarrierSteps, NewsQuiet, LogoutSteps DEF User
<1>2. CASE Client
  <2>1. CASE TimerFires
    <3>1. Save(tab, ~ Saving) /\ (timer' => timer) /\ Remember(ghost) /\ UNCHANGED locks
      BY <2>1 DEF TimerFires
    <3> QED BY <3>1, SavesQuiet
  <2> QED
    BY <1>2, <2>1, NewsQuiet, SaveReplyQuiet, ChoiceQuiet, BarrierSteps, LogoutSteps
       DEF Client
<1>3. CASE Server \/ External \/ Assist
  BY <1>3, ServerSteps, QuietKept DEF KeepTab
<1>4. CASE SaveLost \/ PollStep
  BY <1>4, SaveLostQuiet, PollQuiet
<1>5. CASE UNCHANGED vars
  BY <1>5 DEF vars, locks, Quiet, Saving
<1> QED
  BY <1>1, <1>2, <1>3, <1>4, <1>5 DEF Next, Environment, LoggedOut

(* as they are at the start.                                               *)
LEMMA QuietInit == Init => Quiet
BY DEF Init, Quiet, Saving, NoRequest

(* While a rename, move, delete or history operation holds the barrier of  *)
(* the document, no save of it is in flight and none is scheduled          *)
(* (prepareDocumentMutation), unless a logout that began under the same    *)
(* lock of the whole Vault has released it.                                *)
THEOREM BarrierIsQuiet == Spec => []BarrierQuiet
<1>1. TypeInv /\ Quiet /\ [Next]_vars => (TypeInv /\ Quiet)'
  BY NextType, QuietStep
<1>2. Init => TypeInv /\ Quiet
  BY InitType, QuietInit
<1>3. Quiet => BarrierQuiet
  BY LockFacts DEF Quiet, BarrierQuiet
<1> QED
  BY <1>1, <1>2, <1>3, PTL DEF Spec

-----------------------------------------------------------------------------
(* What the steps do to the tab.                                           *)

(* The tab is t, but for a save that is sent or a mark that it is idle.    *)
Rest(t) ==
  /\ tab'.raw = t.raw /\ tab'.base = t.base /\ tab'.rev = t.rev /\ tab'.saved = t.saved
  /\ tab'.extRaw = t.extRaw /\ tab'.extKind = t.extKind /\ tab'.mtime = t.mtime
  /\ \/ tab'.status = t.status
     \/ tab'.status = "idle" /\ Clean(t)
     \/ tab'.status = "saving"
  /\ \A s \in Slot : wire'[s] \in {wire[s], NoRequest, Request(t)}

(* A tab whose buffer is sent keeps its text.                              *)
LEMMA SendRest ==
  ASSUME NEW t \in TabType, wire \in WireType,
         tab' = [t EXCEPT !.saving = t.rev, !.status = "saving"],
         wire' = [wire EXCEPT !["save"] = Request(t)]
  PROVE  Rest(t)
BY DEF Rest, TabType, WireType, Slot

(* Save keeps the tab but for that,                                        *)
LEMMA SaveRest == ASSUME TypeInv, Save(tab, ~ Saving) PROVE Rest(tab)
<1>1. CASE tab' = tab /\ UNCHANGED wire
  BY <1>1 DEF Rest
<1>2. CASE tab' = [tab EXCEPT !.status = "idle"] /\ UNCHANGED wire /\ Clean(tab)
  BY <1>2, TabFacts DEF Rest, TabType
<1>3. CASE /\ tab' = [tab EXCEPT !.saving = tab.rev, !.status = "saving"]
           /\ wire' = [wire EXCEPT !["save"] = Request(tab)]
  BY <1>3, TabFacts, SendRest
<1> QED
  BY <1>1, <1>2, <1>3 DEF Save

(* and so does the loop.                                                   *)
LEMMA AgainRest == ASSUME TypeInv, NEW t \in TabType, Again(t) PROVE Rest(t)
<1>1. CASE tab' = t /\ wire' = [wire EXCEPT !["save"] = NoRequest]
  BY <1>1, TabFacts DEF Rest, WireType, Slot
<1>2. CASE /\ tab' = [t EXCEPT !.saving = t.rev, !.status = "saving"]
           /\ wire' = [wire EXCEPT !["save"] = Request(t)]
  BY <1>2, TabFacts, SendRest
<1> QED
  BY <1>1, <1>2 DEF Again

(* The tab once the answer to a save has been taken in.                    *)
SavedAs(ans, t) ==
  /\ ans.stage = "ok" /\ ans \in OkType
  /\ t.base = ans.raw /\ t.saved = ans.rev /\ t.extRaw = tab.extRaw
  /\ IF Unresolved(tab)
       THEN t.status = "external" /\ t.extKind = tab.extKind /\ t.mtime = tab.mtime
       ELSE /\ t.status = IF tab.rev = ans.rev THEN "saved" ELSE "dirty"
            /\ t.extKind = "none" /\ t.mtime = ans.mtime
  /\ ghost'.draft = IF Unresolved(tab) THEN ghost.draft ELSE tab.rev # ans.rev

(* The tab once a save was refused with what the file holds, or failed.    *)
RefusedAs(ans, t) ==
  /\ t.base = tab.base /\ t.saved = tab.saved /\ ghost'.draft = ghost.draft
  /\ \/ /\ ans.stage = "conflict" /\ ans \in RefusalType
        /\ t.extRaw = ans.text /\ t.extKind = "modified" /\ t.mtime = ans.mtime
        /\ t.status = "external"
     \/ /\ t.extRaw = tab.extRaw /\ t.extKind = tab.extKind /\ t.mtime = tab.mtime
        /\ t.status \in {"error", "offline"}

(* Nothing is to be remembered but the draft, what the file has held, an   *)
(* answer with the wrong time and a change that the user did not want.     *)
LittleRemembered ==
  /\ ghost'.mine = ghost.mine /\ ghost'.back = ghost.back
  /\ (ghost.mispaired => ghost'.mispaired) /\ ghost'.keptClean = ghost.keptClean
  /\ ghost'.residue = ghost.residue
  /\ ghost'.agreed = ghost.agreed /\ (ghost.durable => ghost'.durable)

(* The answer has been taken in as t.                                      *)
Reply(t) ==
  /\ t \in TabType /\ Rest(t) /\ t.raw = tab.raw /\ t.rev = tab.rev
  /\ SavedAs(wire["save"], t) \/ RefusedAs(wire["save"], t)
  /\ LittleRemembered /\ ghost'.declined = ghost.declined

(* The answer to a save is taken in, and the loop goes on from there.      *)
LEMMA SaveReplyFacts == ASSUME TypeInv, SaveReply PROVE \E t : Reply(t)
<1> DEFINE ans == wire["save"]
<1>1. CASE ans.stage = "ok"
  <2> DEFINE kept == [tab EXCEPT !.base = ans.raw, !.saved = ans.rev, !.saving = None]
             done == IF Unresolved(tab) THEN [kept EXCEPT !.status = "external"]
                     ELSE [kept EXCEPT !.mtime = ans.mtime, !.extKind = "none",
                                  !.status = IF tab.rev = ans.rev THEN "saved" ELSE "dirty"]
             d == IF Unresolved(tab) THEN ghost.draft ELSE tab.rev # ans.rev
             g == [ghost EXCEPT !.draft = d]
  <2>1. ans \in OkType
    BY <1>1, TabFacts, WireFacts DEF Slot
  <2>2. /\ kept \in TabType /\ kept.saved = ans.rev /\ kept.rev = tab.rev /\ kept.saving = None
        /\ kept.status = tab.status /\ kept.extRaw = tab.extRaw /\ kept.extKind = tab.extKind
        /\ kept.raw = tab.raw /\ kept.base = ans.raw /\ kept.mtime = tab.mtime
    BY <2>1, TabFacts DEF TabType, OkType
  <2>3. Again(done) /\ Remember(g)
    BY <1>1 DEF SaveReply, Saved
  <2>4. g \in GhostType /\ g.draft = d /\ g.mine = ghost.mine /\ g.back = ghost.back
        /\ g.mispaired = ghost.mispaired /\ g.keptClean = ghost.keptClean
        /\ g.residue = ghost.residue
        /\ g.declined = ghost.declined /\ g.agreed = ghost.agreed /\ g.durable = ghost.durable
    <3>1. d \in BOOLEAN
      BY ServerFacts DEF GhostType
    <3> HIDE DEF d
    <3> QED BY <3>1, ServerFacts DEF GhostType
  <2>5. /\ done \in TabType /\ done.raw = tab.raw /\ done.rev = tab.rev /\ done.base = ans.raw
        /\ done.saved = ans.rev /\ done.extRaw = tab.extRaw
        /\ IF Unresolved(tab)
             THEN done.status = "external" /\ done.extKind = tab.extKind /\ done.mtime = tab.mtime
             ELSE /\ done.status = IF tab.rev = ans.rev THEN "saved" ELSE "dirty"
                  /\ done.extKind = "none" /\ done.mtime = ans.mtime
    <3> HIDE DEF kept
    <3>1. CASE Unresolved(tab)
      BY <3>1, <2>1, <2>2 DEF TabType, Statuses
    <3>2. CASE ~ Unresolved(tab)
      <4> DEFINE st == IF tab.rev = ans.rev THEN "saved" ELSE "dirty"
      <4>1. st \in Statuses
        BY DEF Statuses
      <4>2. done = [kept EXCEPT !.mtime = ans.mtime, !.extKind = "none", !.status = st]
        BY <3>2
      <4>3. /\ done \in TabType /\ done.raw = tab.raw /\ done.rev = tab.rev
            /\ done.base = ans.raw
            /\ done.saved = ans.rev /\ done.extRaw = tab.extRaw
            /\ done.status = st /\ done.extKind = "none" /\ done.mtime = ans.mtime
        <5> HIDE DEF st, done
        <5> QED BY <4>1, <4>2, <2>1, <2>2 DEF TabType, Kinds, OkType
      <4> HIDE DEF done
      <4> QED BY <3>2, <4>3
    <3> QED
      BY <3>1, <3>2
  <2> HIDE DEF done, g
  <2>6. Rest(done)
    BY <2>3, <2>5, AgainRest
  <2>7. tab'.raw = tab.raw
    BY <2>5, <2>6 DEF Rest
  <2>8. ghost'.draft = d /\ (ghost.durable => ghost'.durable)
    BY <2>3, <2>4, <2>7, GhostFields, GhostKept
  <2>9. SavedAs(ans, done)
    BY <1>1, <2>1, <2>5, <2>8 DEF SavedAs
  <2>10. LittleRemembered /\ ghost'.declined = ghost.declined
    BY <2>3, <2>4, <2>8, GhostFields DEF LittleRemembered
  <2>11. Reply(done)
    BY <2>5, <2>6, <2>9, <2>10 DEF Reply
  <2> QED
    BY <2>11
<1>2. ASSUME NEW t \in TabType, Again(t), t.raw = tab.raw, t.rev = tab.rev, Remember(ghost),
             ghost'.draft = ghost.draft => RefusedAs(ans, t)
      PROVE  Reply(t)
  <2>1. Rest(t)
    BY <1>2, AgainRest
  <2>2. tab'.raw = tab.raw
    BY <1>2, <2>1 DEF Rest
  <2> QED
    BY <1>2, <2>1, <2>2, Remembered DEF Reply, LittleRemembered
<1>3. CASE ans.stage = "conflict"
  <2> DEFINE t == [tab EXCEPT !.extRaw = ans.text, !.extKind = "modified",
                       !.mtime = ans.mtime, !.status = "external", !.saving = None]
  <2>1. ans \in RefusalType
    BY <1>3, TabFacts, WireFacts DEF Slot
  <2>2. /\ t \in TabType /\ t.raw = tab.raw /\ t.rev = tab.rev /\ t.base = tab.base
        /\ t.saved = tab.saved /\ t.extRaw = ans.text /\ t.extKind = "modified"
        /\ t.mtime = ans.mtime /\ t.status = "external"
    BY <2>1, TabFacts DEF TabType, RefusalType, Statuses, Kinds
  <2>3. Again(t) /\ Remember(ghost)
    BY <1>3 DEF SaveReply, Conflicted
  <2> HIDE DEF t
  <2>4. ghost'.draft = ghost.draft => RefusedAs(ans, t)
    BY <1>3, <2>1, <2>2 DEF RefusedAs
  <2> QED
    BY <1>2, <2>2, <2>3, <2>4
<1>4. CASE ans.stage = "failed"
  <2>1. PICK status \in {"error", "offline"} : Again([tab EXCEPT !.status = status, !.saving = None])
    BY <1>4 DEF SaveReply, Failed
  <2> DEFINE t == [tab EXCEPT !.status = status, !.saving = None]
  <2>2. /\ t \in TabType /\ t.raw = tab.raw /\ t.rev = tab.rev /\ t.base = tab.base
        /\ t.saved = tab.saved /\ t.extRaw = tab.extRaw /\ t.extKind = tab.extKind
        /\ t.mtime = tab.mtime /\ t.status = status
    BY TabFacts DEF TabType, Statuses
  <2>3. Again(t) /\ Remember(ghost)
    BY <1>4, <2>1 DEF SaveReply, Failed
  <2> HIDE DEF t
  <2>4. ghost'.draft = ghost.draft => RefusedAs(ans, t)
    BY <1>4, <2>2 DEF RefusedAs
  <2> QED
    BY <1>2, <2>2, <2>3, <2>4
<1> QED
  BY <1>1, <1>3, <1>4 DEF SaveReply

(* The request is under way, or its answer is.                             *)
Under(w) == w.stage \in {"sent", "committed", "ok"}

(* What the server's steps, and those of other programs, do to a request:  *)
(* it fails, is refused with what the file holds, has changed the file, or *)
(* is answered, with the time of its own text unless another has come in   *)
(* between.                                                                *)
Served(s) ==
  \/ wire'[s] = wire[s]
  \/ wire'[s].stage \in {"none", "failed"}
  \/ /\ wire'[s].stage = "conflict" /\ wire'[s].text = disk /\ wire'[s].mtime = mtime
     /\ disk # Gone /\ KeepFile
  \/ /\ wire'[s].stage = "committed" /\ wire[s].stage = "sent"
     /\ wire'[s].rev = wire[s].rev /\ wire'[s].raw = wire[s].raw /\ disk' = wire[s].raw
  \/ /\ wire'[s].stage = "ok" /\ Under(wire[s])
     /\ wire'[s].rev = wire[s].rev /\ wire'[s].raw = wire[s].raw
     /\ wire[s].stage = "committed" \/ disk = wire[s].raw
     /\ disk \in {Gone, wire[s].raw} \/ ghost'.mispaired
     /\ wire'[s].mtime = mtime /\ KeepFile

(* No step of the server or of other programs does anything else to one.   *)
LEMMA ServerWire ==
  ASSUME TypeInv, Server \/ External \/ Assist
  PROVE  \A s \in Slot : Served(s)
<1>1. CASE wire' = wire
  BY <1>1 DEF Served
<1>2. ASSUME NEW s \in Slot, NEW ans, Answer(s, ans), ans.stage = "failed" PROVE \A z \in Slot : Served(z)
  <2>1. (wire'[s] = ans \/ wire'[s] = NoRequest) /\ \A z \in Slot \ {s} : wire'[z] = wire[z]
    BY <1>2, TabFacts DEF Answer, WireType
  <2> QED
    BY <1>2, <2>1 DEF Served, NoRequest
<1>3. ASSUME NEW s \in Slot, PutCommit(s) PROVE \A z \in Slot : Served(z)
  <2>1. wire[s] \in SentType /\ wire[s].stage = "sent"
    BY <1>3, TabFacts, WireFacts DEF PutCommit
  <2>2. CASE Answer(s, [wire[s] EXCEPT !.stage = "failed"])
    BY <1>2, <2>1, <2>2, FailedFacts
  <2>3. CASE /\ disk = wire[s].raw /\ KeepFile
             /\ Answer(s, [stage |-> "ok", raw |-> disk, rev |-> wire[s].rev, mtime |-> mtime])
    <3> DEFINE ans == [stage |-> "ok", raw |-> disk, rev |-> wire[s].rev, mtime |-> mtime]
    <3>1. ans.stage = "ok" /\ ans.raw = disk /\ ans.rev = wire[s].rev /\ ans.mtime = mtime
      OBVIOUS
    <3>2. (wire'[s] = ans \/ wire'[s] = NoRequest) /\ \A z \in Slot \ {s} : wire'[z] = wire[z]
      BY <2>3, TabFacts DEF Answer, WireType
    <3> HIDE DEF ans
    <3>3. Served(s)
      BY <2>1, <2>3, <3>1, <3>2 DEF Served, NoRequest, Under
    <3> QED
      BY <3>2, <3>3 DEF Served
  <2>4. CASE /\ disk # Gone /\ KeepFile
             /\ Answer(s, [stage |-> "conflict", text |-> disk, mtime |-> mtime])
    <3> DEFINE ans == [stage |-> "conflict", text |-> disk, mtime |-> mtime]
    <3>1. ans.stage = "conflict" /\ ans.text = disk /\ ans.mtime = mtime
      OBVIOUS
    <3>2. (wire'[s] = ans \/ wire'[s] = NoRequest) /\ \A z \in Slot \ {s} : wire'[z] = wire[z]
      BY <2>4, TabFacts DEF Answer, WireType
    <3> HIDE DEF ans
    <3> QED
      BY <2>4, <3>1, <3>2 DEF Served, NoRequest
  <2>5. CASE disk' = wire[s].raw /\ wire' = [wire EXCEPT ![s].stage = "committed"]
    <3>1. /\ wire'[s].stage = "committed" /\ wire'[s].rev = wire[s].rev
          /\ wire'[s].raw = wire[s].raw
          /\ \A z \in Slot \ {s} : wire'[z] = wire[z]
      BY <2>1, <2>5, CommittedType
    <3> QED
      BY <2>1, <2>5, <3>1 DEF Served
  <2> QED
    BY <1>3, <2>2, <2>3, <2>4, <2>5 DEF PutCommit
<1>4. ASSUME NEW s \in Slot, RecoverCommit(s) PROVE \A z \in Slot : Served(z)
  <2>1. wire[s] \in SentType /\ wire[s].stage = "sent"
    BY <1>4, TabFacts, WireFacts DEF RecoverCommit
  <2>2. CASE Answer(s, [wire[s] EXCEPT !.stage = "failed"])
    BY <1>2, <2>1, <2>2, FailedFacts
  <2>3. CASE disk' = wire[s].raw /\ Answer(s, [wire[s] EXCEPT !.stage = "committed"])
    <3>1. PICK ans : ans = [wire[s] EXCEPT !.stage = "committed"]
      OBVIOUS
    <3>2. ans.stage = "committed" /\ ans.rev = wire[s].rev /\ ans.raw = wire[s].raw
      BY <2>1, <3>1 DEF SentType
    <3>3. (wire'[s] = ans \/ wire'[s] = NoRequest) /\ \A z \in Slot \ {s} : wire'[z] = wire[z]
      BY <2>3, <3>1, TabFacts DEF Answer, WireType
    <3> QED
      BY <2>1, <2>3, <3>2, <3>3 DEF Served, NoRequest
  <2> QED
    BY <1>4, <2>2, <2>3 DEF RecoverCommit
<1>5. ASSUME NEW s \in Slot, Finish(s) \/ FinishFails(s) PROVE \A z \in Slot : Served(z)
  <2>1. wire[s] \in SentType /\ wire[s].stage = "committed"
    BY <1>5, TabFacts, WireFacts DEF Finish, FinishFails
  <2>2. CASE Answer(s, [wire[s] EXCEPT !.stage = "failed"])
    BY <1>2, <2>1, <2>2, FailedFacts
  <2>3. CASE /\ Finish(s) /\ KeepFile
             /\ Answer(s, [stage |-> "ok", raw |-> wire[s].raw, rev |-> wire[s].rev, mtime |-> mtime])
    <3> DEFINE ans == [stage |-> "ok", raw |-> wire[s].raw, rev |-> wire[s].rev, mtime |-> mtime]
               g == [ghost EXCEPT !.mispaired = @ \/ disk \notin {Gone, wire[s].raw}]
    <3>1. /\ ans.stage = "ok" /\ ans.raw = wire[s].raw /\ ans.rev = wire[s].rev
          /\ ans.mtime = mtime
      OBVIOUS
    <3>2. (wire'[s] = ans \/ wire'[s] = NoRequest) /\ \A z \in Slot \ {s} : wire'[z] = wire[z]
      BY <2>3, TabFacts DEF Answer, WireType
    <3>3. g \in GhostType /\ (disk \notin {Gone, wire[s].raw} => g.mispaired)
      BY ServerFacts DEF GhostType
    <3>4. Remember(g)
      BY <2>3 DEF Finish
    <3> HIDE DEF ans, g
    <3>5. disk \in {Gone, wire[s].raw} \/ ghost'.mispaired
      BY <3>3, <3>4, GhostFields
    <3>6. Served(s)
      BY <2>1, <2>3, <3>1, <3>2, <3>5 DEF Served, NoRequest, Under
    <3> QED
      BY <3>2, <3>6 DEF Served
  <2> QED
    BY <1>5, <2>2, <2>3 DEF Finish, FinishFails
<1> QED
  BY <1>1, <1>3, <1>4, <1>5 DEF Server, External, Assist, Tell, GetStat, GetBody, GetLost

-----------------------------------------------------------------------------
(* The buffer, what is sent of it and what is known of it.                 *)

(* A request of the tab's present revision carries its text, and once it   *)
(* has been carried out the file has held it.                              *)
Carries ==
  \A s \in Slot : Under(wire[s]) /\ wire[s].rev = tab.rev =>
    /\ wire[s].raw = tab.raw
    /\ wire[s].stage # "sent" => ghost.durable

(* A tab without unsaved revisions holds the text it is based on, unless   *)
(* the user kept it so, and only such a tab is shown as saved.             *)
CleanBase ==
  /\ Clean(tab) => tab.raw = tab.base \/ KeptClean
  /\ tab.status \in {"idle", "saved"} => Clean(tab)

(* Nothing that the user typed is still to be said to the file.            *)
NothingLost == ~ ghost.mine \/ ghost.durable \/ ghost.back \/ Agreed

(* A tab that looks safe is, and so it is to the end of a logout.          *)
SafeText ==
  /\ Clean(tab) /\ tab.raw = tab.base => NothingLost
  /\ logout \in {"safe", "ready"} => NothingLost

(* Together with the draft these are inductive.                            *)
TextInv == TypeInv /\ Carries /\ DraftKept /\ CleanBase /\ SafeText

(* Requests stay, move or are forgotten.                                   *)
RequestsKept ==
  \A s \in Slot : ~ Under(wire'[s]) \/ \E z \in Slot : wire'[s] = wire[z]

(* Carries is kept when requests stay, fail or carry the present buffer.   *)
LEMMA CarriesKept ==
  ASSUME TextInv, tab'.rev \in Nat, tab.rev <= tab'.rev,
         tab'.rev = tab.rev => tab'.raw = tab.raw /\ (ghost.durable => ghost'.durable),
         \A s \in Slot : \/ ~ Under(wire'[s])
                         \/ \E z \in Slot : wire'[s] = wire[z]
                         \/ wire'[s].stage = "sent" /\ wire'[s].raw = tab'.raw
  PROVE  Carries'
<1>1. tab.rev \in Nat /\ \A z \in Slot : Under(wire[z]) => wire[z].rev \in Nat /\ wire[z].rev <= tab.rev
  BY ClientFacts, RevNat, TabFacts DEF TextInv, TypeInv, NotNewer, Under
<1> QED
  BY <1>1 DEF TextInv, Carries, Under

(* The server keeps it: a request that is carried out leaves its text in   *)
(* the file.                                                               *)
LEMMA ServerCarries ==
  ASSUME TextInv, Server \/ External \/ Assist
  PROVE  Carries'
<1>1. tab' = tab /\ (ghost'.durable <=> disk' = tab.raw \/ ghost.durable)
  BY ServerSteps DEF KeepTab, TextInv
<1>2. \A s \in Slot : Served(s)
  BY ServerWire DEF TextInv
<1>3. SUFFICES ASSUME NEW s \in Slot, Under(wire'[s]), wire'[s].rev = tab.rev
               PROVE  wire'[s].raw = tab.raw /\ (wire'[s].stage # "sent" => ghost'.durable)
  BY <1>1 DEF Carries, Under
<1>4. CASE wire'[s] = wire[s]
  BY <1>1, <1>3, <1>4 DEF TextInv, Carries, Under
<1>5. CASE /\ wire'[s].stage = "committed" /\ wire[s].stage = "sent"
           /\ wire'[s].rev = wire[s].rev /\ wire'[s].raw = wire[s].raw /\ disk' = wire[s].raw
  BY <1>1, <1>3, <1>5 DEF TextInv, Carries, Under
<1>6. CASE /\ wire'[s].stage = "ok" /\ Under(wire[s])
           /\ wire'[s].rev = wire[s].rev /\ wire'[s].raw = wire[s].raw
           /\ wire[s].stage = "committed" \/ disk = wire[s].raw
           /\ KeepFile
  BY <1>1, <1>3, <1>6 DEF TextInv, Carries, Under, KeepFile
<1> QED
  BY <1>2, <1>3, <1>4, <1>5, <1>6 DEF Served, Under

(* A step that changes neither the buffer nor what it is based on.         *)
LEMMA TextKept ==
  ASSUME TextInv, TypeInv', Carries',
         tab'.raw = tab.raw, tab'.rev = tab.rev, tab'.base = tab.base, tab'.saved = tab.saved,
         tab'.status \in {"idle", "saved"} => Clean(tab),
         LittleRemembered, ghost'.draft = ghost.draft,
         logout' \in {"safe", "ready"} =>
           logout \in {"safe", "ready"} \/ (Clean(tab) /\ tab.raw = tab.base)
  PROVE  TextInv'
BY DEF TextInv, DraftKept, CleanBase, SafeText, NothingLost, Agreed, KeptClean, Clean,
   LittleRemembered

(* A step after which the buffer is based on another text.                 *)
LEMMA TextBased ==
  ASSUME TextInv, TypeInv', Carries', DraftKept', logout' = logout,
         tab'.raw = tab.raw, tab'.rev = tab.rev,
         tab'.status \in {"idle", "saved"} => Clean(tab'),
         Clean(tab') => \/ tab'.raw = tab'.base /\ (ghost'.durable \/ ghost'.agreed = tab.rev)
                        \/ tab'.raw # tab'.base /\ ghost'.keptClean = tab.rev,
         ghost'.mine = ghost.mine, ghost'.back = ghost.back, ghost.durable => ghost'.durable,
         ghost.agreed = tab.rev => ghost'.agreed = tab.rev
  PROVE  TextInv'
BY DEF TextInv, CleanBase, SafeText, NothingLost, Agreed, KeptClean

(* A step that replaces the buffer by a text that the user did not type.   *)
LEMMA TextReplaced ==
  ASSUME TextInv, TypeInv', tab'.rev = tab.rev + 1, tab'.saved = tab'.rev, tab'.raw = tab'.base,
         ~ ghost'.mine, RequestsKept
  PROVE  TextInv'
<1>1. tab.rev \in Nat /\ tab'.rev \in Nat /\ tab.rev <= tab'.rev /\ tab.rev # tab'.rev
  BY ClientFacts DEF TextInv
<1>2. Carries'
  BY <1>1, CarriesKept DEF RequestsKept
<1> QED
  BY <1>2 DEF TextInv, DraftKept, CleanBase, SafeText, NothingLost, Clean

(* What is sent is the buffer.                                             *)
LEMMA SentBuffer ==
  ASSUME TextInv, tab'.rev = tab.rev, tab'.raw = tab.raw, ghost.durable => ghost'.durable,
         \A s \in Slot : wire'[s] \in {wire[s], NoRequest, Request(tab')}
  PROVE  Carries'
<1>1. NoRequest.stage = "none" /\ Request(tab').stage = "sent" /\ Request(tab').raw = tab'.raw
  BY DEF NoRequest, Request
<1> QED
  BY <1>1, ClientFacts, CarriesKept DEF TextInv, Under

(* Steps that save, or do nothing to the tab.                              *)
LEMMA SavesText ==
  ASSUME TextInv, TypeInv', Rest(tab), Remember(ghost),
         logout' \in {"safe", "ready"} =>
           logout \in {"safe", "ready"} \/ (Clean(tab) /\ tab.raw = tab.base)
  PROVE  TextInv'
<1>1. LittleRemembered /\ ghost'.draft = ghost.draft
  BY Remembered DEF Rest, LittleRemembered, TextInv
<1>2. Request(tab) = Request(tab')
  BY DEF Rest, Request
<1>3. Carries'
  BY <1>1, <1>2, SentBuffer DEF Rest, LittleRemembered
<1>4. tab'.status \in {"idle", "saved"} => Clean(tab)
  BY DEF Rest, TextInv, CleanBase
<1> QED
  BY <1>1, <1>3, <1>4, TextKept DEF Rest

(* The server, other programs and the assistant do not touch the tab.      *)
LEMMA ServerText ==
  ASSUME TextInv, TypeInv', Server \/ External \/ Assist
  PROVE  TextInv'
<1>1. tab' = tab /\ logout' = logout
  BY ServerSteps DEF KeepTab, locks, TextInv
<1>2. LittleRemembered /\ ghost'.draft = ghost.draft
  BY ServerSteps DEF LittleRemembered, TextInv, KeepTab
<1> QED
  BY <1>1, <1>2, ServerCarries, TextKept DEF TextInv, CleanBase

(* What typing does.                                                       *)
LEMMA EditFacts ==
  ASSUME TypeInv, NEW text \in Typed, Edit(text)
  PROVE  /\ tab'.raw = text /\ tab'.rev = tab.rev + 1 /\ tab'.base = tab.base
         /\ tab'.extRaw = tab.extRaw /\ tab'.extKind = tab.extKind /\ tab'.mtime = tab.mtime
         /\ \/ /\ tab'.saved = tab'.rev /\ tab'.status = "idle" /\ tab'.raw = tab'.base
               /\ ghost'.back
            \/ /\ tab'.saved = tab.saved /\ tab'.status \in {"external", "dirty"}
               /\ ghost'.draft
         /\ ghost'.mispaired = ghost.mispaired /\ ghost'.residue = ghost.residue
         /\ ghost'.declined = ghost.declined
<1> DEFINE n == tab.rev + 1
           typed == [tab EXCEPT !.raw = text, !.rev = n]
           back == ~ Unresolved(tab) /\ text = tab.base
           g == [ghost EXCEPT !.mine = TRUE, !.draft = ~ back, !.back = back]
<1>1. /\ g \in GhostType /\ g.draft = ~ back /\ g.back = back /\ g.mispaired = ghost.mispaired
      /\ g.residue = ghost.residue /\ g.declined = ghost.declined
  BY ServerFacts DEF GhostType
<1>2. Remember(g)
  BY DEF Edit
<1>3. /\ ghost'.draft = ~ back /\ ghost'.back = back /\ ghost'.mispaired = ghost.mispaired
      /\ ghost'.residue = ghost.residue /\ ghost'.declined = ghost.declined
  <2> HIDE DEF g
  <2> QED BY <1>1, <1>2, GhostFields
<1>4. /\ typed \in TabType /\ typed.raw = text /\ typed.rev = n /\ typed.base = tab.base
      /\ typed.saved = tab.saved /\ typed.extRaw = tab.extRaw /\ typed.extKind = tab.extKind
      /\ typed.mtime = tab.mtime
  <2>1. text \in Text /\ n \in Nat /\ tab \in TabType
    BY ClientFacts, TabFacts, TextAssumption
  <2> HIDE DEF n
  <2> QED BY <2>1 DEF TabType
<1>5. \/ tab' = [typed EXCEPT !.status = "external"] /\ ~ back
      \/ tab' = [typed EXCEPT !.saved = typed.rev, !.status = "idle"] /\ back
      \/ tab' = [typed EXCEPT !.status = "dirty"] /\ ~ back
  BY DEF Edit
<1> HIDE DEF typed, n
<1>6. \/ /\ tab'.status \in {"external", "dirty"} /\ tab'.saved = tab.saved /\ ~ back
      \/ /\ tab'.status = "idle" /\ tab'.saved = n /\ back
  BY <1>4, <1>5 DEF TabType
<1>7. /\ tab'.raw = text /\ tab'.rev = n /\ tab'.base = tab.base /\ tab'.extRaw = tab.extRaw
      /\ tab'.extKind = tab.extKind /\ tab'.mtime = tab.mtime
  BY <1>4, <1>5 DEF TabType
<1> QED
  BY <1>3, <1>6, <1>7 DEF n

(* Typing: a draft is written, or the text the tab is based on is back.    *)
LEMMA EditText ==
  ASSUME TextInv, TypeInv', NEW text \in Typed, Edit(text)
  PROVE  TextInv'
<1>1. /\ tab'.rev = tab.rev + 1
      /\ \/ /\ tab'.saved = tab'.rev /\ tab'.status = "idle" /\ tab'.raw = tab'.base
            /\ ghost'.back
         \/ /\ tab'.saved = tab.saved /\ tab'.status \in {"external", "dirty"}
            /\ ghost'.draft
  BY EditFacts DEF TextInv
<1>2. tab.rev \in Nat /\ tab'.rev \in Nat /\ tab.rev <= tab'.rev /\ tab.rev # tab'.rev
      /\ tab.saved # tab'.rev
  BY <1>1, ClientFacts DEF TextInv
<1>3. wire' = wire /\ logout' = "none"
  BY DEF Edit, locks
<1>4. Carries'
  BY <1>2, <1>3, CarriesKept
<1> QED
  BY <1>1, <1>2, <1>3, <1>4 DEF TextInv, DraftKept, CleanBase, SafeText, NothingLost, Clean

(* An answer that bases the tab on another text than the buffer leaves the *)
(* tab dirty.                                                              *)
LEMMA SaveReplyText == ASSUME TextInv, TypeInv', SaveReply PROVE TextInv'
<1>1. PICK t : Reply(t)
  BY SaveReplyFacts DEF TextInv
<1>2. /\ tab'.raw = tab.raw /\ tab'.rev = tab.rev /\ tab'.base = t.base /\ tab'.saved = t.saved
      /\ LittleRemembered /\ logout' = logout
  BY <1>1 DEF Reply, Rest, SaveReply, locks
<1>3. Carries'
  <2>1. Request(t) = Request(tab')
    BY <1>1 DEF Reply, Rest, Request
  <2> QED
    BY <1>1, <1>2, <2>1, SentBuffer DEF Reply, Rest, LittleRemembered
<1>4. CASE RefusedAs(wire["save"], t)
  <2>1. tab'.status \in {"idle", "saved"} => Clean(tab)
    BY <1>1, <1>4 DEF Reply, Rest, RefusedAs, Clean
  <2> QED
    BY <1>2, <1>3, <1>4, <2>1, TextKept DEF RefusedAs
<1>5. CASE SavedAs(wire["save"], t)
  <2>1. tab.rev = wire["save"].rev => wire["save"].raw = tab.raw /\ ghost.durable
    BY <1>5 DEF TextInv, Carries, Under, SavedAs, Slot
  <2>2. tab'.status \in {"idle", "saved"} => Clean(tab')
    BY <1>1, <1>2, <1>5 DEF Reply, Rest, SavedAs, Clean
  <2>3. Clean(tab') => tab'.raw = tab'.base /\ ghost'.durable
    BY <1>2, <1>5, <2>1 DEF SavedAs, Clean, LittleRemembered
  <2>4. DraftKept'
    BY <1>2, <1>5, <2>1 DEF SavedAs, TextInv, DraftKept, LittleRemembered
  <2> QED
    <3>1. /\ ghost'.mine = ghost.mine /\ ghost'.back = ghost.back
          /\ ghost'.agreed = ghost.agreed
          /\ (ghost.durable => ghost'.durable) /\ (ghost.agreed = tab.rev => ghost'.agreed = tab.rev)
      BY <1>2 DEF LittleRemembered
    <3>2. Clean(tab') => \/ tab'.raw = tab'.base /\ (ghost'.durable \/ ghost'.agreed = tab.rev)
                         \/ tab'.raw # tab'.base /\ ghost'.keptClean = tab.rev
      BY <2>3
    <3> QED
      BY <1>2, <1>3, <2>2, <2>3, <2>4, <3>1, <3>2, TextBased
<1> QED
  BY <1>1, <1>4, <1>5 DEF Reply

(* What a save whose connection breaks leaves of the tab and the requests. *)
LEMMA SaveLostFacts ==
  ASSUME TypeInv, SaveLost
  PROVE  /\ tab'.raw = tab.raw /\ tab'.rev = tab.rev /\ tab'.base = tab.base
         /\ tab'.saved = tab.saved
         /\ tab'.extRaw = tab.extRaw /\ tab'.extKind = tab.extKind /\ tab'.mtime = tab.mtime
         /\ tab'.status \in {"error", "offline"}
         /\ wire'["save"] = NoRequest /\ wire'["recover"] = wire["recover"]
         /\ wire'["older"] = wire["older"]
         /\ wire'["late"] = NoRequest \/ wire'["late"] = wire["save"]
<1>1. PICK status \in {"error", "offline"} : tab' = [tab EXCEPT !.status = status, !.saving = None]
  BY DEF SaveLost
<1>2. PICK lost \in {NoRequest, wire["save"]} :
        wire' = [wire EXCEPT !["save"] = NoRequest,
                   !["late"] = IF lost.stage \in {"sent", "committed"} THEN lost ELSE NoRequest]
  BY DEF SaveLost
<1> QED
  BY <1>1, <1>2, TabFacts DEF TabType, WireType, Slot

(* A lost save leaves the buffer, its base and its draft.                  *)
LEMMA SaveLostText == ASSUME TextInv, TypeInv', SaveLost PROVE TextInv'
<1>1. LittleRemembered /\ ghost'.draft = ghost.draft /\ logout' = logout
  BY SaveLostFacts, Remembered DEF SaveLost, LittleRemembered, TextInv, locks
<1>2. Carries'
  BY <1>1, SaveLostFacts, CarriesKept, ClientFacts
     DEF TextInv, Slot, NoRequest, Under, LittleRemembered
<1> QED
  BY <1>1, <1>2, SaveLostFacts, TextKept DEF TextInv

(* A step that reports something of the file, or nothing.                  *)
LEMMA ReportText ==
  ASSUME TextInv, TypeInv', Remember(ghost),
         tab'.raw = tab.raw, tab'.rev = tab.rev, tab'.base = tab.base, tab'.saved = tab.saved,
         tab'.status \in {"external", tab.status},
         logout' \in {"safe", "ready"} =>
           logout \in {"safe", "ready"} \/ (Clean(tab) /\ tab.raw = tab.base),
         \A s \in Slot : \/ ~ Under(wire'[s])
                         \/ \E z \in Slot : wire'[s] = wire[z]
                         \/ wire'[s].stage = "sent" /\ wire'[s].raw = tab.raw
  PROVE  TextInv'
<1>1. LittleRemembered /\ ghost'.draft = ghost.draft
  BY Remembered DEF LittleRemembered, TextInv
<1>2. Carries'
  BY <1>1, CarriesKept, ClientFacts DEF TextInv, LittleRemembered
<1>3. tab'.status \in {"idle", "saved"} => Clean(tab)
  BY DEF TextInv, CleanBase
<1> QED
  BY <1>1, <1>2, <1>3, TextKept

(* What a poll does to the tab.                                            *)
LEMMA PollFacts ==
  ASSUME TypeInv, PollStep
  PROVE  /\ wire' = wire /\ logout' = logout /\ KeepFile
         /\ \/ tab' = tab /\ Remember(ghost)
            \/ tab' = Deleted(tab) /\ Remember(ghost)
            \/ tab' = [tab EXCEPT !.extKind = "unreadable", !.status = "external"] /\ Remember(ghost)
            \/ /\ get[Poll].stage = "body"
               /\ \/ tab' = Conflict(tab, get[Poll].text, get[Poll].mtime) /\ Remember(ghost)
                  \/ /\ tab' = Refresh(tab, get[Poll].text, get[Poll].mtime) /\ ~ Dirty(tab)
                     /\ Remember([ghost EXCEPT !.mine = FALSE, !.residue = @ \/ tab.extRaw # None])
<1>1. wire' = wire /\ logout' = logout /\ KeepFile
  BY DEF PollStep, PollAsk, PollStates, PollStatesLost, PollLook, PollApply,
     PollUnreadable, KeepTab, locks
<1>2. CASE PollAsk \/ PollStates \/ PollStatesLost
  BY <1>1, <1>2 DEF PollAsk, PollStates, PollStatesLost, KeepTab
<1>3. CASE PollLook
  BY <1>1, <1>3 DEF PollLook
<1>4. CASE PollApply
  BY <1>1, <1>4 DEF PollApply
<1>5. CASE PollUnreadable
  BY <1>1, <1>5 DEF PollUnreadable
<1> QED
  BY <1>2, <1>3, <1>4, <1>5 DEF PollStep

(* What a GET has brought.                                                 *)
LEMMA BodyFacts ==
  ASSUME TypeInv, NEW r \in Reader, get[r].stage = "body"
  PROVE  get[r].text \in Text /\ get[r].mtime \in Nat
BY ServerFacts DEF BodyType, NoBody

(* A poll replaces only a buffer with nothing unsaved.                     *)
LEMMA PollText == ASSUME TextInv, TypeInv', PollStep PROVE TextInv'
<1> DEFINE body == get[Poll]
<1>1. wire' = wire /\ logout' = logout /\ tab \in TabType
  BY PollFacts, TabFacts DEF TextInv
<1>2. body.stage = "body" => body.text \in Text /\ body.mtime \in Nat
  BY BodyFacts DEF TextInv, Reader
<1>3. CASE tab' = tab /\ Remember(ghost)
  BY <1>1, <1>3, ReportText
<1>4. CASE tab' = Deleted(tab) /\ Remember(ghost)
  <2>1. /\ tab'.raw = tab.raw /\ tab'.rev = tab.rev /\ tab'.base = tab.base
        /\ tab'.saved = tab.saved
        /\ tab'.status = "external"
    BY <1>1, <1>4, DeletedFacts
  <2> QED BY <1>1, <1>4, <2>1, ReportText
<1>5. CASE tab' = [tab EXCEPT !.extKind = "unreadable", !.status = "external"] /\ Remember(ghost)
  <2>1. /\ tab'.raw = tab.raw /\ tab'.rev = tab.rev /\ tab'.base = tab.base
        /\ tab'.saved = tab.saved
        /\ tab'.status = "external"
    BY <1>1, <1>5, UnreadableFacts
  <2> QED BY <1>1, <1>5, <2>1, ReportText
<1>6. CASE body.stage = "body" /\ tab' = Conflict(tab, body.text, body.mtime) /\ Remember(ghost)
  <2>1. /\ tab'.raw = tab.raw /\ tab'.rev = tab.rev /\ tab'.base = tab.base
        /\ tab'.saved = tab.saved
        /\ tab'.status = "external"
    BY <1>1, <1>2, <1>6, ConflictFacts
  <2> QED BY <1>1, <1>6, <2>1, ReportText
<1>7. CASE /\ body.stage = "body" /\ tab' = Refresh(tab, body.text, body.mtime)
           /\ Remember([ghost EXCEPT !.mine = FALSE, !.residue = @ \/ tab.extRaw # None])
  <2> DEFINE g == [ghost EXCEPT !.mine = FALSE, !.residue = @ \/ tab.extRaw # None]
  <2>1. tab'.rev = tab.rev + 1 /\ tab'.saved = tab'.rev /\ tab'.raw = tab'.base
    BY <1>1, <1>2, <1>7, RefreshFacts
  <2>2. g \in GhostType /\ ~ g.mine
    BY ServerFacts DEF GhostType, TextInv
  <2>3. Remember(g)
    BY <1>7
  <2> HIDE DEF g
  <2>4. ~ ghost'.mine
    BY <2>2, <2>3, GhostFields
  <2> QED BY <1>1, <2>1, <2>4, TextReplaced DEF RequestsKept
<1> QED
  BY <1>3, <1>4, <1>5, <1>6, <1>7, PollFacts DEF TextInv

(* What a choice between two texts does, over t: the tab, or what has been *)
(* read for it.                                                            *)
Over(t) ==
  /\ t \in TabType /\ t.extRaw # None /\ t.raw = tab.raw /\ t.rev = tab.rev
  /\ t.saved = tab.saved /\ t.base = tab.base /\ t.status = "external"

(* The text on disk has been taken,                                        *)
Taken(t) ==
  /\ tab'.rev = tab.rev + 1 /\ tab'.saved = tab'.rev /\ tab'.raw = t.extRaw
  /\ ~ ghost'.mine

(* or the buffer kept: clean if it is that text, else dirty.               *)
Kept(t) ==
  /\ tab'.rev = tab.rev /\ tab'.raw = tab.raw
  /\ \/ /\ tab.raw = t.extRaw /\ tab'.saved = tab.rev /\ tab'.status = "idle"
        /\ ghost'.agreed = tab.rev
     \/ /\ tab.raw # t.extRaw /\ tab'.saved = tab.saved /\ tab'.status = "dirty"
        /\ ghost'.agreed = ghost.agreed
        /\ Clean(tab) => ghost'.keptClean = tab.rev
  /\ ghost'.mine = ghost.mine /\ ghost'.back = ghost.back /\ ghost'.draft = ghost.draft
  /\ (ghost.durable => ghost'.durable)

(* Nothing else comes of the choice.                                       *)
LEMMA DecideFacts ==
  ASSUME TypeInv, NEW t, Over(t), NEW strategy, Decide(t, strategy)
  PROVE  /\ Taken(t) \/ Kept(t)
         /\ tab'.base = t.extRaw /\ tab'.extRaw = None /\ tab'.extKind = "none"
         /\ tab'.mtime = t.mtime
         /\ ghost'.mispaired = ghost.mispaired /\ ghost'.residue = ghost.residue
         /\ ghost'.declined = ghost.declined
<1>0. t \in TabType /\ t.extRaw # None
  BY DEF Over
<1>1. CASE tab' = TakeDisk(t) /\ Remember([ghost EXCEPT !.mine = FALSE])
  <2> DEFINE g == [ghost EXCEPT !.mine = FALSE]
  <2>1. /\ tab'.rev = t.rev + 1 /\ tab'.saved = t.rev + 1 /\ tab'.raw = t.extRaw
        /\ tab'.base = t.extRaw
        /\ tab'.extRaw = None /\ tab'.extKind = "none" /\ tab'.mtime = t.mtime
    BY <1>0, <1>1, TakeDiskFacts
  <2>2. /\ g \in GhostType /\ ~ g.mine /\ g.mispaired = ghost.mispaired
        /\ g.residue = ghost.residue
        /\ g.declined = ghost.declined
    BY ServerFacts DEF GhostType
  <2> HIDE DEF g
  <2>3. ~ ghost'.mine /\ ghost'.mispaired = ghost.mispaired /\ ghost'.residue = ghost.residue
        /\ ghost'.declined = ghost.declined
    BY <1>1, <2>2, GhostFields DEF g
  <2> QED BY <2>1, <2>3 DEF Over, Taken
<1>2. CASE strategy # "disk"
  <2> DEFINE k == IF tab'.status = "dirty" /\ Clean(t) THEN t.rev ELSE ghost.keptClean
             a == IF t.raw = t.extRaw THEN t.rev ELSE ghost.agreed
             g == [ghost EXCEPT !.keptClean = k, !.agreed = a]
  <2>1. tab' = KeepLocal(t) /\ Remember(g)
    BY <1>2 DEF Decide
  <2>2. /\ tab'.rev = t.rev /\ tab'.raw = t.raw /\ tab'.base = t.extRaw
        /\ tab'.mtime = t.mtime /\ tab'.extRaw = None /\ tab'.extKind = "none"
        /\ IF t.raw = t.extRaw THEN tab'.saved = t.rev /\ tab'.status = "idle"
                               ELSE tab'.saved = t.saved /\ tab'.status = "dirty"
    BY <1>0, <2>1, KeepLocalFacts
  <2>3. k \in Nat \union {None} /\ a \in Nat \union {None}
    BY ServerFacts, <1>0 DEF GhostType, TabType
  <2>4. /\ g \in GhostType /\ g.keptClean = k /\ g.agreed = a /\ g.mine = ghost.mine
        /\ g.back = ghost.back
        /\ g.draft = ghost.draft /\ g.durable = ghost.durable /\ g.mispaired = ghost.mispaired
        /\ g.residue = ghost.residue /\ g.declined = ghost.declined
    <3> HIDE DEF k, a
    <3> QED BY <2>3, ServerFacts DEF GhostType
  <2> HIDE DEF g
  <2>5. tab'.raw = tab.raw
    BY <2>2 DEF Over
  <2>6. ghost.durable => ghost'.durable
    BY <2>1, <2>4, <2>5, GhostKept
  <2>7. Kept(t)
    BY <2>1, <2>2, <2>4, <2>5, <2>6, GhostFields DEF Kept, Over, Clean
  <2> QED BY <2>1, <2>2, <2>4, <2>7, GhostFields
<1> QED
  BY <1>1, <1>2 DEF Decide

(* A buffer that was kept and is not the text on disk is still to be saved.*)
LEMMA DecideText ==
  ASSUME TextInv, TypeInv', NEW t, Over(t), NEW strategy, Decide(t, strategy),
         RequestsKept, logout' = logout
  PROVE  TextInv'
<1>1. tab'.base = t.extRaw /\ (Taken(t) \/ Kept(t))
  BY DecideFacts DEF TextInv
<1>2. CASE Taken(t)
  BY <1>1, <1>2, TextReplaced DEF Taken
<1>3. CASE Kept(t)
  <2>1. Carries'
    BY <1>3, CarriesKept, ClientFacts DEF Kept, TextInv, RequestsKept
  <2>2. DraftKept'
    BY <1>3 DEF Kept, TextInv, DraftKept
  <2>3. tab'.status \in {"idle", "saved"} => Clean(tab')
    BY <1>3 DEF Kept, Clean
  <2>4. Clean(tab') => \/ tab'.raw = tab'.base /\ (ghost'.durable \/ ghost'.agreed = tab.rev)
                       \/ tab'.raw # tab'.base /\ ghost'.keptClean = tab.rev
    BY <1>1, <1>3 DEF Kept, Clean
  <2>5. ghost.agreed = tab.rev => ghost'.agreed = tab.rev
    BY <1>3 DEF Kept
  <2> QED BY <1>3, <2>1, <2>2, <2>3, <2>4, <2>5, TextBased DEF Kept
<1> QED
  BY <1>1, <1>2, <1>3

(* A choice that supersedes another keeps the other's request.             *)
LEMMA SupersededKept ==
  ASSUME TypeInv, NEW r, Superseding(r), r = NoRequest \/ (r \in SentType /\ r.rev = tab.rev)
  PROVE  /\ wire'["recover"] = r
         /\ \A s \in Slot \ {"recover"} : ~ Under(wire'[s]) \/ \E z \in Slot : wire'[s] = wire[z]
         /\ r = NoRequest => RequestsKept
<1>1. /\ wire'["save"] = wire["save"] /\ wire'["late"] = wire["late"] /\ wire'["recover"] = r
      /\ wire'["older"] \in {NoRequest, wire["older"], wire["recover"]}
  BY SupersedingFacts
<1> QED
  BY <1>1 DEF Slot, Under, NoRequest, RequestsKept

(* A choice keeps what is known of the text,                               *)
LEMMA ChooseText ==
  ASSUME TextInv, TypeInv', NEW strategy, Choose(strategy)
  PROVE  TextInv'
<1>1. logout' = logout
  BY DEF Choose, locks
<1>2. CASE UNCHANGED tab /\ Remember(ghost) /\ Superseding(NoRequest)
  <2>1. RequestsKept
    BY <1>2, SupersededKept DEF TextInv
  <2> QED
    BY <1>1, <1>2, <2>1, ReportText DEF RequestsKept
<1>3. CASE /\ UNCHANGED tab /\ Remember(ghost)
           /\ Superseding([stage |-> "sent", raw |-> tab.raw, base |-> Gone, rev |-> tab.rev])
  <2> DEFINE r == [stage |-> "sent", raw |-> tab.raw, base |-> Gone, rev |-> tab.rev]
  <2>1. r.stage = "sent" /\ r.raw = tab.raw /\ r.rev = tab.rev /\ r \in SentType
    BY TabFacts DEF SentType, TabType, TextInv
  <2>2. Superseding(r)
    BY <1>3
  <2> HIDE DEF r
  <2>3. /\ wire'["recover"] = r
        /\ \A s \in Slot \ {"recover"} : ~ Under(wire'[s]) \/ \E z \in Slot : wire'[s] = wire[z]
    BY <2>1, <2>2, SupersededKept DEF TextInv
  <2> QED
    BY <1>1, <1>3, <2>1, <2>3, ReportText
<1>4. CASE /\ tab.extKind \notin {"unreadable", "deleted"} /\ tab.extRaw # None
           /\ Decide(tab, strategy) /\ Superseding(NoRequest)
  <2>1. Over(tab)
    BY <1>4, TabFacts DEF Choose, Over, TextInv
  <2>2. RequestsKept
    BY <1>4, SupersededKept DEF TextInv
  <2> QED
    BY <1>1, <1>4, <2>1, <2>2, DecideText
<1> QED
  BY <1>2, <1>3, <1>4 DEF Choose

(* The tab with what has been read for a choice.                           *)
Reread ==
  [tab EXCEPT !.extRaw = get[Choice].text, !.extKind = "modified", !.mtime = get[Choice].mtime]

(* What comes of a choice once the file has been read.                     *)
LEMMA ChoiceReadFacts ==
  ASSUME TypeInv, ChoiceRead
  PROVE  /\ wire' = wire /\ logout' = logout /\ KeepFile
         /\ get[Choice].text \in Text /\ get[Choice].mtime \in Nat
         /\ \/ tab' = tab /\ Remember(ghost)
            \/ tab' = Reread /\ Remember(ghost) /\ Over(Reread)
            \/ Decide(Reread, choice.strategy) /\ Over(Reread)
         /\ Reread.extRaw = get[Choice].text /\ Reread.extKind = "modified"
         /\ Reread.mtime = get[Choice].mtime
<1>1. get[Choice].text \in Text /\ get[Choice].mtime \in Nat
  BY BodyFacts DEF ChoiceRead, Reader
<1>2. /\ Reread \in TabType /\ Reread.extRaw = get[Choice].text /\ Reread.extKind = "modified"
      /\ Reread.mtime = get[Choice].mtime /\ Reread.raw = tab.raw /\ Reread.rev = tab.rev
      /\ Reread.saved = tab.saved /\ Reread.base = tab.base /\ Reread.status = tab.status
  BY <1>1, TabFacts DEF Reread, TabType, Kinds
<1>3. StillAsked("unreadable") => Over(Reread)
  BY <1>1, <1>2, TextAssumption DEF StillAsked, Over
<1> QED
  BY <1>1, <1>2, <1>3 DEF ChoiceRead, Reread, locks

(* What comes of the recovery of a deleted document.                       *)
Restored(ans) ==
  /\ tab'.raw = tab.raw /\ tab'.rev = tab.rev /\ tab'.base = ans.raw /\ tab'.saved = ans.rev
  /\ tab'.mtime = ans.mtime /\ tab'.extRaw = None /\ tab'.extKind = "none"
  /\ tab'.status = IF tab.rev = ans.rev THEN "saved" ELSE "dirty"

(* What is known of the buffer is not changed by it.                       *)
NothingLearnt ==
  /\ LittleRemembered /\ ghost'.draft = ghost.draft
  /\ ghost'.mispaired = ghost.mispaired /\ ghost'.residue = ghost.residue
  /\ ghost'.declined = ghost.declined

(* The answer to a recovery restores the tab or comes too late; that of one*)
(* that was superseded may also be lost.                                   *)
LEMMA RecoveredFacts ==
  ASSUME TypeInv, Recovered \/ OlderRecovered
  PROVE  /\ logout' = logout /\ KeepFile
         /\ \A s \in Slot : wire'[s] = wire[s] \/ wire'[s] = NoRequest
         /\ \/ tab' = tab /\ Remember(ghost)
            \/ /\ NothingLearnt
               /\ \E s \in Slot : wire[s].stage = "ok" /\ wire[s] \in OkType /\ Restored(wire[s])
<1>1. logout' = logout /\ KeepFile
  BY DEF Recovered, OlderRecovered, locks
<1>2. \A s \in Slot : wire'[s] = wire[s] \/ wire'[s] = NoRequest
  BY TabFacts DEF Recovered, OlderRecovered, WireType
<1>3. ASSUME NEW s \in Slot, wire[s].stage = "ok", Settle(wire[s])
      PROVE  \/ tab' = tab /\ Remember(ghost)
             \/ NothingLearnt /\ wire[s] \in OkType /\ Restored(wire[s])
  <2> DEFINE ans == wire[s]
             st == IF tab.rev = ans.rev THEN "saved" ELSE "dirty"
  <2>1. ans \in OkType
    BY <1>3, TabFacts, WireFacts
  <2>2. CASE tab' = [tab EXCEPT !.base = ans.raw, !.saved = ans.rev, !.mtime = ans.mtime,
                       !.status = st, !.extRaw = None, !.extKind = "none"]
    <3>1. Restored(ans)
      BY <2>2, TabFacts DEF Restored, TabType
    <3>2. PICK f \in Nat \union {None} : Remember([ghost EXCEPT !.forgotten = f])
      BY <1>3, SettleFacts
    <3> DEFINE g == [ghost EXCEPT !.forgotten = f]
    <3>3. /\ g \in GhostType /\ g.mine = ghost.mine /\ g.draft = ghost.draft
          /\ g.back = ghost.back /\ g.mispaired = ghost.mispaired
          /\ g.keptClean = ghost.keptClean /\ g.residue = ghost.residue
          /\ g.declined = ghost.declined /\ g.agreed = ghost.agreed
          /\ g.durable = ghost.durable
      BY ServerFacts DEF GhostType
    <3>4. Remember(g)
      BY <3>2
    <3> HIDE DEF g
    <3>5. tab'.raw = tab.raw
      BY <3>1 DEF Restored
    <3>6. NothingLearnt
      BY <3>3, <3>4, <3>5, GhostFields, GhostKept DEF NothingLearnt, LittleRemembered
    <3> QED
      BY <2>1, <3>1, <3>6
  <2> QED
    BY <1>3, <2>2 DEF Settle
<1> QED
  BY <1>1, <1>2, <1>3 DEF Recovered, OlderRecovered, Slot

(* A recovered tab is based on what was recovered, and dirty if it has gone*)
(* on.                                                                     *)
LEMMA RecoveredText ==
  ASSUME TextInv, TypeInv', Recovered \/ OlderRecovered
  PROVE  TextInv'
<1>1. /\ logout' = logout
      /\ \A s \in Slot : wire'[s] = wire[s] \/ wire'[s] = NoRequest
      /\ \/ tab' = tab /\ Remember(ghost)
         \/ NothingLearnt /\ \E s \in Slot : wire[s].stage = "ok" /\ Restored(wire[s])
  BY RecoveredFacts DEF TextInv
<1>2. CASE tab' = tab /\ Remember(ghost)
  BY <1>1, <1>2, ReportText DEF NoRequest, Under
<1>3. ASSUME NEW s \in Slot, wire[s].stage = "ok", Restored(wire[s]), NothingLearnt PROVE TextInv'
  <2> DEFINE ans == wire[s]
  <2>1. tab.rev = ans.rev => ans.raw = tab.raw /\ ghost.durable
    BY <1>3 DEF TextInv, Carries, Under
  <2>2. tab'.rev = tab.rev /\ tab'.raw = tab.raw
    BY <1>3 DEF Restored
  <2>3. LittleRemembered /\ ghost'.draft = ghost.draft
    BY <1>3 DEF NothingLearnt
  <2>4. Carries'
    BY <1>1, <2>2, <2>3, CarriesKept, ClientFacts
       DEF TextInv, NoRequest, Under, LittleRemembered
  <2>5. DraftKept'
    BY <2>3 DEF DraftKept, TextInv, LittleRemembered
  <2>6. tab'.status \in {"idle", "saved"} => Clean(tab')
    BY <1>3 DEF Restored, Clean
  <2>7. Clean(tab') => tab'.raw = tab'.base /\ ghost'.durable
    BY <1>3, <2>1, <2>3 DEF Restored, Clean, LittleRemembered
  <2>8. /\ ghost'.mine = ghost.mine /\ ghost'.back = ghost.back /\ (ghost.durable => ghost'.durable)
        /\ (ghost.agreed = tab.rev => ghost'.agreed = tab.rev)
    BY <2>3 DEF LittleRemembered
  <2> QED
    BY <1>1, <2>2, <2>4, <2>5, <2>6, <2>7, <2>8, TextBased
<1> QED
  BY <1>1, <1>2, <1>3

(* After a refused recovery: too late, another text, or the text of the    *)
(* buffer, which is then found saved.                                      *)
LEMMA RecoverRereadFacts ==
  ASSUME TypeInv, RecoverReread
  PROVE  /\ wire' = wire /\ logout' = logout /\ KeepFile
         /\ get[Choice].stage = "body" /\ get[Choice].text \in Text /\ get[Choice].mtime \in Nat
         /\ \/ tab' = tab /\ Remember(ghost)
            \/ tab' = Conflict(tab, get[Choice].text, get[Choice].mtime) /\ Remember(ghost)
            \/ /\ tab'.raw = tab.raw /\ tab'.rev = tab.rev /\ tab'.base = tab.raw /\ tab'.saved = tab.rev
               /\ tab'.status = "saved" /\ tab'.extRaw = None /\ tab'.extKind = "none"
               /\ tab'.mtime = get[Choice].mtime /\ tab'.base = get[Choice].text
               /\ ghost'.agreed = tab.rev /\ ghost'.mine = ghost.mine
               /\ ghost'.back = ghost.back
               /\ ghost'.draft = ghost.draft /\ (ghost.durable => ghost'.durable)
               /\ ghost'.mispaired = ghost.mispaired /\ ghost'.residue = ghost.residue
               /\ ghost'.declined = ghost.declined
<1> DEFINE body == get[Choice]
           g == [ghost EXCEPT !.agreed = tab.rev]
<1>1. body.text \in Text /\ body.mtime \in Nat /\ body.stage = "body"
  BY BodyFacts DEF RecoverReread, Reader
<1>2. wire' = wire /\ logout' = logout /\ KeepFile
  BY DEF RecoverReread, locks
<1>3. \/ tab' = tab /\ Remember(ghost)
      \/ tab' = Conflict(tab, body.text, body.mtime) /\ Remember(ghost)
      \/ /\ tab' = [tab EXCEPT !.base = body.text, !.saved = tab.rev, !.mtime = body.mtime,
                     !.saving = None, !.status = "saved", !.extRaw = None, !.extKind = "none"]
         /\ body.text = tab.raw /\ Remember(g)
  BY DEF RecoverReread
<1>4. CASE /\ tab' = [tab EXCEPT !.base = body.text, !.saved = tab.rev, !.mtime = body.mtime,
                     !.saving = None, !.status = "saved", !.extRaw = None, !.extKind = "none"]
           /\ body.text = tab.raw /\ Remember(g)
  <2>1. /\ tab'.raw = tab.raw /\ tab'.rev = tab.rev /\ tab'.base = body.text
        /\ tab'.saved = tab.rev
        /\ tab'.status = "saved" /\ tab'.extRaw = None /\ tab'.extKind = "none"
        /\ tab'.mtime = body.mtime
    BY <1>4, TabFacts DEF TabType
  <2>2. /\ g \in GhostType /\ g.agreed = tab.rev /\ g.mine = ghost.mine /\ g.back = ghost.back
        /\ g.draft = ghost.draft /\ g.durable = ghost.durable /\ g.mispaired = ghost.mispaired
        /\ g.residue = ghost.residue /\ g.declined = ghost.declined
    BY ServerFacts, ClientFacts DEF GhostType
  <2>3. Remember(g)
    BY <1>4
  <2> HIDE DEF g
  <2>4. ghost.durable => ghost'.durable
    BY <2>1, <2>2, <2>3, GhostKept
  <2> QED
    BY <1>1, <1>2, <1>4, <2>1, <2>2, <2>3, <2>4, GhostFields
<1> QED
  BY <1>1, <1>2, <1>3, <1>4

(* A buffer found equal to the text read from the file is agreed.          *)
LEMMA RecoverRereadText ==
  ASSUME TextInv, TypeInv', RecoverReread
  PROVE  TextInv'
<1> DEFINE body == get[Choice]
<1>1. /\ wire' = wire /\ logout' = logout /\ body.text \in Text /\ body.mtime \in Nat
      /\ tab \in TabType
  BY RecoverRereadFacts, TabFacts DEF TextInv
<1>2. CASE tab' = tab /\ Remember(ghost)
  BY <1>1, <1>2, ReportText
<1>3. CASE tab' = Conflict(tab, body.text, body.mtime) /\ Remember(ghost)
  <2>1. /\ tab'.raw = tab.raw /\ tab'.rev = tab.rev /\ tab'.base = tab.base
        /\ tab'.saved = tab.saved
        /\ tab'.status = "external"
    BY <1>1, <1>3, ConflictFacts
  <2> QED BY <1>1, <1>3, <2>1, ReportText
<1>4. CASE /\ tab'.raw = tab.raw /\ tab'.rev = tab.rev /\ tab'.base = tab.raw /\ tab'.saved = tab.rev
           /\ tab'.status = "saved"
           /\ ghost'.agreed = tab.rev /\ ghost'.mine = ghost.mine /\ ghost'.back = ghost.back
           /\ ghost'.draft = ghost.draft /\ (ghost.durable => ghost'.durable)
  <2>1. Carries'
    BY <1>1, <1>4, CarriesKept, ClientFacts DEF TextInv
  <2>2. DraftKept'
    BY <1>4 DEF DraftKept, TextInv
  <2> QED
    BY <1>1, <1>4, <2>1, <2>2, TextBased DEF Clean
<1> QED
  BY <1>2, <1>3, <1>4, RecoverRereadFacts DEF TextInv

(* The answers of a choice keep what is known of the text.                 *)
LEMMA ChoiceText == ASSUME TextInv, TypeInv', ChoiceStep PROVE TextInv'
<1>1. CASE ChoiceRead
  <2>1. /\ wire' = wire /\ logout' = logout
        /\ \/ tab' = tab /\ Remember(ghost)
           \/ tab' = Reread /\ Remember(ghost) /\ Over(Reread)
           \/ Decide(Reread, choice.strategy) /\ Over(Reread)
    BY <1>1, ChoiceReadFacts DEF TextInv
  <2>2. CASE tab' = tab /\ Remember(ghost)
    BY <2>1, <2>2, ReportText
  <2>3. CASE tab' = Reread /\ Remember(ghost) /\ Over(Reread)
    BY <2>1, <2>3, ReportText DEF Over
  <2>4. CASE Decide(Reread, choice.strategy) /\ Over(Reread)
    BY <2>1, <2>4, DecideText DEF RequestsKept
  <2> QED BY <2>1, <2>2, <2>3, <2>4
<1>2. CASE ChoiceFails
  BY <1>2, ReportText DEF ChoiceFails, locks
<1>3. CASE RecoverRefused
  <2>1. \A s \in Slot : wire'[s] = wire[s] \/ wire'[s] = NoRequest
    BY <1>3, TabFacts DEF RecoverRefused, WireType, TextInv
  <2> QED
    BY <1>3, <2>1, ReportText DEF RecoverRefused, locks, NoRequest, Under
<1> QED
  BY <1>1, <1>2, <1>3, RecoveredText, RecoverRereadText DEF ChoiceStep

(* What an announced change does to the tab.                               *)
Adopted(change) ==
  /\ tab'.rev = tab.rev + 1 /\ tab'.saved = tab'.rev /\ tab'.raw = change.text
  /\ tab'.base = change.text /\ tab'.mtime = change.mtime /\ tab'.extRaw = None
  /\ ~ ghost'.mine
  /\ ghost'.mispaired = ghost.mispaired /\ ghost'.residue = ghost.residue
  /\ ghost'.declined = ghost.declined

(* Adopt replaces the buffer and all that belongs to it.                   *)
LEMMA AdoptFacts ==
  ASSUME TypeInv, NEW change \in ToldType, change.text \in Text, Adopt(change)
  PROVE  Adopted(change)
<1> DEFINE g == [ghost EXCEPT !.mine = FALSE]
<1>1. g \in GhostType /\ ~ g.mine /\ g.mispaired = ghost.mispaired /\ g.residue = ghost.residue
      /\ g.declined = ghost.declined
  BY ServerFacts DEF GhostType
<1>2. Remember(g)
  BY DEF Adopt
<1> HIDE DEF g
<1>3. ~ ghost'.mine /\ ghost'.mispaired = ghost.mispaired /\ ghost'.residue = ghost.residue
      /\ ghost'.declined = ghost.declined
  BY <1>1, <1>2, GhostFields
<1> QED
  BY <1>3, AdoptType DEF Adopted

(* An announced change replaces only a buffer that is what the tab is based*)
(* on,                                                                     *)
LEMMA AnnouncedFacts ==
  ASSUME TypeInv, Announced
  PROVE  /\ wire' = wire /\ logout' = logout /\ KeepFile /\ news' = NoNews
         /\ news \in ToldType
         /\ \/ tab' = tab /\ Remember(ghost)
            \/ tab' = Deleted(tab) /\ Remember(ghost)
            \/ news.text # Gone /\ tab.raw = tab.base /\ Adopted(news)
<1>1. news \in ToldType
  BY ServerFacts DEF Announced, NewsType, NoNews, DoneType
<1>2. news.text # Gone => news.text \in Text
  BY <1>1 DEF ToldType
<1> QED
  BY <1>1, <1>2, AdoptFacts DEF Announced, locks

(* an accepted one only the buffer the question was about,                 *)
LEMMA AcceptFacts ==
  ASSUME TypeInv, Accept
  PROVE  /\ wire' = wire /\ logout' = logout /\ KeepFile
         /\ question.stage = "open"
         /\ question.change.text \in Text /\ question.change.mtime \in Nat
         /\ \/ tab' = tab /\ Remember(ghost)
            \/ tab' = Conflict(tab, question.change.text, question.change.mtime) /\ Remember(ghost)
            \/ question.was.raw = tab.raw /\ Adopted(question.change)
<1>1. /\ question.change \in ToldType /\ question.change.text \in Text
      /\ question.change.mtime \in Nat
  BY QuestionFacts DEF Accept
<1> QED
  BY <1>1, AdoptFacts DEF Accept, locks, Unmoved

(* and a declined one only moves the time that polling compares.           *)
LEMMA DeclineFacts ==
  ASSUME TypeInv, Decline
  PROVE  /\ wire' = wire /\ logout' = logout /\ KeepFile
         /\ question.stage = "open" /\ question.change.mtime \in Nat
         /\ \/ tab' = tab /\ Remember(ghost)
            \/ /\ tab'.raw = tab.raw /\ tab'.rev = tab.rev /\ tab'.base = tab.base
               /\ tab'.saved = tab.saved /\ tab'.status = tab.status
               /\ tab'.extRaw = tab.extRaw /\ tab'.extKind = tab.extKind
               /\ tab'.mtime = question.change.mtime /\ ghost'.declined = question.change.mtime
               /\ LittleRemembered /\ ghost'.draft = ghost.draft
<1> DEFINE time == question.change.mtime
           g == [ghost EXCEPT !.declined = time]
<1>1. time \in Nat
  BY QuestionFacts DEF Decline
<1>2. CASE tab' = [tab EXCEPT !.mtime = time] /\ Remember(g)
  <2>1. /\ tab'.raw = tab.raw /\ tab'.rev = tab.rev /\ tab'.base = tab.base
        /\ tab'.saved = tab.saved /\ tab'.status = tab.status
        /\ tab'.extRaw = tab.extRaw /\ tab'.extKind = tab.extKind /\ tab'.mtime = time
    BY <1>2, TabFacts DEF TabType
  <2>2. /\ g \in GhostType /\ g.declined = time /\ g.mine = ghost.mine /\ g.back = ghost.back
        /\ g.draft = ghost.draft /\ g.durable = ghost.durable /\ g.mispaired = ghost.mispaired
        /\ g.residue = ghost.residue /\ g.agreed = ghost.agreed /\ g.keptClean = ghost.keptClean
    <3> HIDE DEF time
    <3> QED BY <1>1, ServerFacts DEF GhostType
  <2>3. Remember(g)
    BY <1>2
  <2> HIDE DEF g
  <2>4. ghost.durable => ghost'.durable
    BY <2>1, <2>2, <2>3, GhostKept
  <2>5. LittleRemembered /\ ghost'.draft = ghost.draft /\ ghost'.declined = time
    BY <2>2, <2>3, <2>4, GhostFields DEF LittleRemembered
  <2> QED
    BY <1>1, <2>1, <2>5 DEF Decline, locks
<1>3. CASE tab' = tab /\ Remember(ghost)
  BY <1>1, <1>3 DEF Decline, locks
<1> QED
  BY <1>2, <1>3 DEF Decline

(* Announced changes keep what is known of the text.                       *)
LEMMA NewsText ==
  ASSUME TextInv, TypeInv', Announced \/ Accept \/ Decline
  PROVE  TextInv'
<1>1. wire' = wire /\ logout' = logout /\ tab \in TabType
  BY AnnouncedFacts, AcceptFacts, DeclineFacts, TabFacts DEF TextInv
<1>2. CASE tab' = tab /\ Remember(ghost)
  BY <1>1, <1>2, ReportText
<1>3. CASE tab' = Deleted(tab) /\ Remember(ghost)
  <2>1. /\ tab'.raw = tab.raw /\ tab'.rev = tab.rev /\ tab'.base = tab.base
        /\ tab'.saved = tab.saved
        /\ tab'.status = "external"
    BY <1>1, <1>3, DeletedFacts
  <2> QED BY <1>1, <1>3, <2>1, ReportText
<1>4. ASSUME NEW text \in Text, NEW time \in Nat, tab' = Conflict(tab, text, time),
             Remember(ghost)
      PROVE  TextInv'
  <2>1. /\ tab'.raw = tab.raw /\ tab'.rev = tab.rev /\ tab'.base = tab.base
        /\ tab'.saved = tab.saved
        /\ tab'.status = "external"
    BY <1>1, <1>4, ConflictFacts
  <2> QED BY <1>1, <1>4, <2>1, ReportText
<1>5. ASSUME NEW change, Adopted(change) PROVE TextInv'
  BY <1>1, <1>5, TextReplaced DEF Adopted, RequestsKept
<1>6. CASE Announced
  BY <1>2, <1>3, <1>5, <1>6, AnnouncedFacts DEF TextInv
<1>7. CASE Accept
  BY <1>2, <1>4, <1>5, <1>7, AcceptFacts DEF TextInv
<1>8. CASE Decline
  <2>1. CASE /\ tab'.raw = tab.raw /\ tab'.rev = tab.rev /\ tab'.base = tab.base
             /\ tab'.saved = tab.saved /\ tab'.status = tab.status
             /\ LittleRemembered /\ ghost'.draft = ghost.draft
    <3>1. Carries'
      BY <1>1, <2>1, CarriesKept, ClientFacts DEF TextInv, LittleRemembered
    <3> QED
      BY <1>1, <2>1, <3>1, TextKept DEF TextInv, CleanBase
  <2> QED
    BY <1>2, <1>8, <2>1, DeclineFacts DEF TextInv
<1> QED
  BY <1>6, <1>7, <1>8

(* So do the barrier and the beginning of a logout,                        *)
LEMMA LocksText ==
  ASSUME TextInv, TypeInv', BarrierTake \/ BarrierHold \/ BarrierRelease \/ LogoutBegin
  PROVE  TextInv'
<1>1. tab' = tab /\ wire' = wire /\ (logout' \in {"safe", "ready"} => logout \in {"safe", "ready"})
  BY DEF BarrierTake, BarrierHold, BarrierRelease, LogoutBegin, KeepWork
<1>2. PICK g \in GhostType : /\ Remember(g) /\ g.mine = ghost.mine /\ g.draft = ghost.draft
                             /\ g.back = ghost.back /\ g.durable = ghost.durable
                             /\ g.mispaired = ghost.mispaired /\ g.residue = ghost.residue
                             /\ g.agreed = ghost.agreed /\ g.keptClean = ghost.keptClean
  <2>1. PICK b : Remember([ghost EXCEPT !.shared = b]) /\ b \in BOOLEAN
    <3>1. Remember(ghost) => Remember([ghost EXCEPT !.shared = ghost.shared]) /\ ghost.shared \in BOOLEAN
      BY ServerFacts DEF GhostType, TextInv
    <3> QED
      BY <3>1, LockFacts DEF BarrierTake, BarrierHold, BarrierRelease, LogoutBegin, TextInv
  <2> DEFINE g == [ghost EXCEPT !.shared = b]
  <2>2. /\ g \in GhostType /\ g.mine = ghost.mine /\ g.back = ghost.back
        /\ g.draft = ghost.draft /\ g.durable = ghost.durable /\ g.mispaired = ghost.mispaired
        /\ g.residue = ghost.residue /\ g.agreed = ghost.agreed /\ g.keptClean = ghost.keptClean
    BY <2>1, ServerFacts DEF GhostType, TextInv
  <2>3. Remember(g)
    BY <2>1
  <2> HIDE DEF g
  <2> QED BY <2>2, <2>3
<1>3. LittleRemembered /\ ghost'.draft = ghost.draft
  BY <1>1, <1>2, GhostFields, GhostKept DEF LittleRemembered
<1>4. Carries'
  BY <1>1, <1>3, CarriesKept, ClientFacts DEF TextInv, LittleRemembered
<1> QED
  BY <1>1, <1>3, <1>4, TextKept DEF TextInv, CleanBase

(* and its stages: it goes on only with a tab that looks safe or a user who*)
(* has agreed.                                                             *)
LEMMA LogoutText ==
  ASSUME TextInv, TypeInv', LogoutStep \/ LogoutAnswer
  PROVE  TextInv'
<1>1. Snapshot(tab) = "safe" => Clean(tab) /\ tab.raw = tab.base
  BY DEF Snapshot, Unsafe
<1>2. Snapshot(tab) \in {"safe", "unsafe"}
  BY DEF Snapshot
<1>3. CASE LogoutSave
  <2>1. CASE logout' = Snapshot(tab) /\ UNCHANGED <<tab, wire>>
    BY <1>1, <1>2, <1>3, <2>1, ReportText DEF LogoutSave
  <2>2. CASE /\ logout' = "saving"
             /\ tab' = [tab EXCEPT !.saving = tab.rev, !.status = "saving"]
             /\ wire' = [wire EXCEPT !["save"] = Request(tab)]
    <3>1. Rest(tab)
      BY <2>2, TabFacts, SendRest DEF TextInv
    <3> QED
      BY <1>3, <2>2, <3>1, SavesText DEF LogoutSave
  <2> QED
    BY <1>3, <2>1, <2>2 DEF LogoutSave
<1>4. CASE LogoutSaved \/ LogoutFlushed
  BY <1>1, <1>2, <1>4, ReportText DEF LogoutSaved, LogoutFlushed, KeepWork
<1>5. CASE LogoutEnd \/ LogoutAnswer
  <2>1. Remember(ghost) /\ tab' = tab /\ wire' = wire /\ logout' \notin {"safe", "ready"}
    BY <1>5 DEF LogoutEnd, LogoutAnswer, Resume, KeepWork
  <2> QED
    BY <2>1, ReportText
<1> QED
  BY <1>3, <1>4, <1>5 DEF LogoutStep

(* It holds at the start,                                                  *)
LEMMA TextInit == Init => TextInv
<1> SUFFICES ASSUME Init PROVE TextInv
  OBVIOUS
<1>1. Carries /\ CleanBase
  BY DEF Init, Carries, Under, NoRequest, CleanBase, Clean
<1>2. DraftKept /\ SafeText
  BY DEF Init, DraftKept, SafeText, NothingLost
<1> QED
  BY <1>1, <1>2, InitType DEF TextInv

(* every step keeps it,                                                    *)
LEMMA TextStep == TextInv /\ [Next]_vars => TextInv'
<1> SUFFICES ASSUME TextInv, [Next]_vars PROVE TextInv'
  OBVIOUS
<1>1. TypeInv'
  BY NextType DEF TextInv
<1>2. CASE User
  <2>1. CASE SaveNow \/ Online
    <3>1. Save(tab, ~ Saving) /\ Remember(ghost) /\ UNCHANGED locks
      BY <2>1 DEF SaveNow, Online
    <3> QED BY <1>1, <3>1, SaveRest, SavesText DEF locks, TextInv
  <2> QED
    BY <1>1, <1>2, <2>1, EditText, ChooseText, LocksText, NewsText, LogoutText DEF User
<1>3. CASE Client
  <2>1. CASE TimerFires
    <3>1. Save(tab, ~ Saving) /\ Remember(ghost) /\ UNCHANGED locks
      BY <2>1 DEF TimerFires
    <3> QED BY <1>1, <3>1, SaveRest, SavesText DEF locks, TextInv
  <2> QED
    BY <1>1, <1>3, <2>1, NewsText, SaveReplyText, ChoiceText, LocksText, LogoutText
       DEF Client
<1>4. CASE Server \/ Environment
  BY <1>1, <1>4, ServerText, SaveLostText, PollText DEF Environment
<1>5. CASE UNCHANGED vars
  BY <1>1, <1>5 DEF vars, locks, TextInv, Carries, DraftKept, CleanBase, SafeText, NothingLost,
     Agreed, KeptClean, Clean
<1> QED
  BY <1>2, <1>3, <1>4, <1>5 DEF Next, LoggedOut

(* and so it always holds.                                                 *)
LEMMA TextHolds == Spec => []TextInv
BY TextInit, TextStep, PTL DEF Spec

(* A buffer that the user typed and that no answer has confirmed is in the *)
(* draft store (the draft is cleared only by an answer for the present     *)
(* revision, doSave).                                                      *)
THEOREM DraftIsKept == Spec => []DraftKept
<1>1. TextInv => DraftKept
  BY DEF TextInv
<1> QED
  BY <1>1, TextHolds, PTL

(* A tab that is shown as idle or saved holds the text it is based on,     *)
(* unless the user chose to keep a clean buffer over a changed file        *)
(* (KeepLocal).                                                            *)
THEOREM SavedShown == Spec => []IdleMeansSavedOrKept
<1>1. TextInv => IdleMeansSavedOrKept
  BY DEF TextInv, CleanBase, IdleMeansSavedOrKept, IdleMeansSaved
<1> QED
  BY <1>1, TextHolds, PTL

(* A logout that is ready to end the session leaves no text of the user    *)
(* behind that the file has not held, was not read from it and was not     *)
(* there before, unless the user agreed to lose it (prepareActiveLogout).  *)
THEOREM LogoutIsSafe == Spec => []LogoutKeepsText
<1>1. TextInv => LogoutKeepsText
  BY DEF TextInv, SafeText, NothingLost, LogoutKeepsText
<1> QED
  BY <1>1, TextHolds, PTL

-----------------------------------------------------------------------------
(* Times and texts.                                                        *)

(* If the file still has this time, and is there, it has this text.        *)
Fits(text, time) == time = mtime /\ disk # Gone => text = disk

(* An answer does not come from the future, and pairs a time with the text *)
(* that the file had then.                                                 *)
Pairs(text, time) == time <= mtime /\ (Fits(text, time) \/ ghost.mispaired)

(* What PUT has answered, or refused with,                                 *)
WireTimes ==
  \A s \in Slot :
    /\ wire[s].stage = "ok" => Pairs(wire[s].raw, wire[s].mtime)
    /\ wire[s].stage = "conflict" => Pairs(wire[s].text, wire[s].mtime)

(* what GET has read, its time before its text,                            *)
GetTimes ==
  \A r \in Reader :
    /\ get[r].stage \in {"stat", "body"} => get[r].mtime <= mtime
    /\ get[r].stage = "body" => Pairs(get[r].text, get[r].mtime)

(* what has been announced or asked about,                                 *)
NewsTimes ==
  /\ news.stage = "told" /\ news.text # Gone => Pairs(news.text, news.mtime)
  /\ question.stage = "open" => Pairs(question.change.text, question.change.mtime)

(* What excuses the tab.                                                   *)
Excuse == ghost.mispaired \/ ghost.residue \/ ghost.declined = tab.mtime

(* The tab's time is that of the text it last saw in the file.             *)
Seen == IF tab.extRaw = None THEN tab.base ELSE tab.extRaw

(* The tab has seen a text of the file that no report has put in question. *)
HasSeen == tab.extRaw # None \/ tab.extKind \notin {"deleted", "unreadable"}

(* and what the tab has seen.                                              *)
TabTimes ==
  /\ tab.mtime <= mtime
  /\ HasSeen => Fits(Seen, tab.mtime) \/ Excuse

(* Together these are inductive.                                           *)
TimeInv == TypeInv /\ WireTimes /\ GetTimes /\ NewsTimes /\ TabTimes

(* What the times are.                                                     *)
LEMMA TimeFacts ==
  ASSUME TypeInv
  PROVE  /\ mtime \in Nat /\ tab.mtime \in Nat
         /\ \A s \in Slot : wire[s].stage = "ok" => wire[s].mtime \in Nat /\ wire[s].raw \in Text
         /\ \A s \in Slot : wire[s].stage = "conflict" =>
                              wire[s].mtime \in Nat /\ wire[s].text \in Text
         /\ \A r \in Reader : get[r].stage \in {"stat", "body"} => get[r].mtime \in Nat
         /\ news.stage = "told" => news.mtime \in Nat /\ news.text \in Text \union {Gone}
         /\ question.stage = "open" => question.change.mtime \in Nat
<1>1. mtime \in Nat /\ tab.mtime \in Nat
  BY ServerFacts, TabFacts DEF TabType
<1>2. ASSUME NEW s \in Slot
      PROVE  /\ wire[s].stage = "ok" => wire[s].mtime \in Nat /\ wire[s].raw \in Text
             /\ wire[s].stage = "conflict" => wire[s].mtime \in Nat /\ wire[s].text \in Text
  BY TabFacts, WireFacts DEF OkType, RefusalType
<1>3. ASSUME NEW r \in Reader PROVE get[r].stage \in {"stat", "body"} => get[r].mtime \in Nat
  BY ServerFacts DEF BodyType, NoBody
<1>4. news.stage = "told" => news.mtime \in Nat /\ news.text \in Text \union {Gone}
  BY ServerFacts DEF NewsType, NoNews, DoneType, ToldType
<1> QED
  BY <1>1, <1>2, <1>3, <1>4, QuestionFacts

(* The file is as it was, or has a new time.                               *)
Clock == KeepFile \/ mtime' = mtime + 1

(* A time goes on fitting its text, for a file that changes has a new time.*)
LEMMA FitsKept ==
  ASSUME Clock, mtime \in Nat, NEW text, NEW time \in Nat, time <= mtime,
         ghost.mispaired => ghost'.mispaired
  PROVE  /\ time <= mtime' /\ (Fits(text, time) => Fits(text, time)')
         /\ Pairs(text, time) => Pairs(text, time)'
         /\ mtime' # mtime => Fits(text, time)'
BY DEF Clock, KeepFile, Fits, Pairs

(* The tab sees a text that came with a time ...                           *)
LEMMA TabSees ==
  ASSUME TimeInv, KeepFile, ghost.mispaired => ghost'.mispaired, NEW text, NEW time,
         Pairs(text, time),
         tab'.mtime = time, Seen' = text \/ ghost'.residue
  PROVE  TabTimes'
BY DEF TabTimes, HasSeen, Pairs, Fits, KeepFile, Excuse

(* ... or goes on seeing the one it saw, or none.                          *)
LEMMA TabKept ==
  ASSUME TimeInv, KeepFile, ghost.mispaired => ghost'.mispaired,
         ghost.residue => ghost'.residue,
         ghost'.declined = ghost.declined, tab'.mtime = tab.mtime,
         ~ HasSeen' \/ (HasSeen /\ Seen' = Seen)
  PROVE  TabTimes'
BY DEF TimeInv, TabTimes, Fits, KeepFile, Excuse, HasSeen

(* What a step of the client leaves of what it has been told.              *)
ToldKept ==
  /\ \A s \in Slot : \/ wire'[s].stage \notin {"ok", "conflict"}
                     \/ \E z \in Slot : wire'[s] = wire[z]
  /\ \A r \in Reader : get'[r] = get[r] \/ get'[r].stage \notin {"stat", "body"}
  /\ news' = news \/ news'.stage # "told"
  /\ \/ question' = question
     \/ question'.stage # "open"
     \/ news.stage = "told" /\ news.text # Gone /\ question'.change = news

(* What is left to show of a step of the client.                           *)
LEMMA ClientTimes ==
  ASSUME TimeInv, TypeInv', KeepFile, ghost.mispaired => ghost'.mispaired, ToldKept, TabTimes'
  PROVE  TimeInv'
<1>1. WireTimes'
  BY DEF TimeInv, WireTimes, Pairs, Fits, KeepFile, ToldKept
<1>2. GetTimes'
  BY DEF TimeInv, GetTimes, Pairs, Fits, KeepFile, ToldKept
<1>3. NewsTimes'
  BY DEF TimeInv, NewsTimes, Pairs, Fits, KeepFile, ToldKept
<1> QED
  BY <1>1, <1>2, <1>3 DEF TimeInv

(* Whoever changes the file gives it a new time.                           *)
LEMMA ServerClock == ASSUME TypeInv, Server \/ External \/ Assist PROVE Clock
BY DEF Server, External, Assist, PutCommit, Finish, FinishFails, RecoverCommit, Tell,
   GetStat, GetBody,
       GetLost, Clock, KeepFile

(* A body that is read later than its time fits it, or the file has a new  *)
(* time by then.                                                           *)
LEMMA ServerGets ==
  ASSUME TimeInv, Server \/ External \/ Assist
  PROVE  GetTimes'
<1>1. /\ mtime \in Nat /\ \A r \in Reader : get[r].stage \in {"stat", "body"} => get[r].mtime \in Nat
  BY TimeFacts DEF TimeInv
<1>2. Clock /\ (ghost.mispaired => ghost'.mispaired)
  BY ServerClock, ServerSteps DEF TimeInv
<1>3. CASE get' = get
  BY <1>1, <1>2, <1>3, FitsKept DEF TimeInv, GetTimes, Fits, Pairs
<1>4. ASSUME NEW r \in Reader, GetStat(r) \/ GetBody(r) \/ GetLost(r) PROVE GetTimes'
  <2>1. PICK b : get' = [get EXCEPT ![r] = b]
                 /\ \/ b = [stage |-> "failed"] \/ b = [stage |-> "stat", mtime |-> mtime]
                    \/ /\ get[r].stage = "stat" /\ disk # Gone
                       /\ b = [stage |-> "body", mtime |-> get[r].mtime, text |-> disk]
    BY <1>4 DEF GetStat, GetBody, GetLost
  <2>2. KeepFile
    BY <1>4 DEF GetStat, GetBody, GetLost
  <2>3. get'[r] = b /\ \A q \in Reader \ {r} : get'[q] = get[q]
    BY <2>1, ServerFacts DEF TimeInv
  <2>4. \/ b.stage = "failed"
        \/ b.stage = "stat" /\ b.mtime = mtime
        \/ b.stage = "body" /\ b.mtime = get[r].mtime /\ b.text = disk /\ get[r].stage = "stat"
    BY <2>1
  <2> QED
    BY <1>1, <1>2, <2>2, <2>3, <2>4 DEF TimeInv, GetTimes, Fits, Pairs, KeepFile
<1> QED
  BY <1>3, <1>4 DEF Server, External, Assist, PutCommit, Finish, FinishFails,
     RecoverCommit, Tell

(* The time of an announcement is read after the commit: if another text   *)
(* has come in between, it is mispaired.                                   *)
LEMMA ServerNews ==
  ASSUME TimeInv, Server \/ External \/ Assist
  PROVE  NewsTimes'
<1>1. /\ mtime \in Nat /\ (news.stage = "told" => news.mtime \in Nat)
      /\ (question.stage = "open" => question.change.mtime \in Nat)
  BY TimeFacts DEF TimeInv
<1>2. Clock /\ (ghost.mispaired => ghost'.mispaired) /\ question' = question
  BY ServerClock, ServerSteps DEF TimeInv
<1>3. question.stage = "open" => Pairs(question.change.text, question.change.mtime)'
  BY <1>1, <1>2, FitsKept DEF TimeInv, NewsTimes, Fits, Pairs
<1>4. CASE news' = news
  BY <1>1, <1>2, <1>3, <1>4, FitsKept DEF TimeInv, NewsTimes, Fits, Pairs
<1>5. CASE Assist
  <2>1. news'.stage = "done"
    BY <1>5 DEF Assist
  <2> QED
    BY <1>2, <1>3, <2>1 DEF NewsTimes
<1>6. CASE Tell
  <2> DEFINE g == [ghost EXCEPT !.mispaired = @ \/ disk \notin {Gone, news.text}]
  <2>1. g \in GhostType /\ (disk \notin {Gone, news.text} => g.mispaired)
    BY ServerFacts DEF GhostType, TimeInv
  <2>2. Remember(g) /\ KeepFile
    BY <1>6 DEF Tell
  <2> HIDE DEF g
  <2>3. disk \in {Gone, news.text} \/ ghost'.mispaired
    BY <2>1, <2>2, GhostFields
  <2>4. \/ news'.stage = "none"
        \/ news'.text = news.text /\ news'.mtime = mtime
    BY <1>6 DEF Tell, NoNews
  <2> QED
    BY <1>1, <1>2, <1>3, <2>2, <2>3, <2>4 DEF NewsTimes, Pairs, Fits, KeepFile
<1> QED
  BY <1>4, <1>5, <1>6 DEF Server, External, PutCommit, Finish, FinishFails, RecoverCommit,
     GetStat, GetBody,
     GetLost, KeepPolls, newsVars

(* So the server, other programs and the assistant keep the times.         *)
LEMMA ServerTimes ==
  ASSUME TimeInv, TypeInv', Server \/ External \/ Assist
  PROVE  TimeInv'
<1>1. Clock /\ (ghost.mispaired => ghost'.mispaired) /\ tab' = tab
      /\ ghost'.residue = ghost.residue /\ ghost'.declined = ghost.declined
  BY ServerClock, ServerSteps DEF TimeInv, KeepTab
<1>2. /\ mtime \in Nat /\ tab.mtime \in Nat
      /\ \A s \in Slot : wire[s].stage = "ok" => wire[s].mtime \in Nat
      /\ \A s \in Slot : wire[s].stage = "conflict" => wire[s].mtime \in Nat
  BY TimeFacts DEF TimeInv
<1>3. WireTimes'
  <2>1. \A s \in Slot : Served(s)
    BY ServerWire DEF TimeInv
  <2>2. SUFFICES ASSUME NEW s \in Slot
                 PROVE  /\ wire'[s].stage = "ok" => Pairs(wire[s].raw, wire[s].mtime)'
                        /\ wire'[s].stage = "conflict" => Pairs(wire[s].text, wire[s].mtime)'
    BY DEF WireTimes
  <2>3. CASE wire'[s] = wire[s]
    BY <1>1, <1>2, <2>3, FitsKept DEF TimeInv, WireTimes, Pairs, Fits
  <2>4. CASE wire'[s].stage = "conflict" /\ wire'[s].text = disk /\ wire'[s].mtime = mtime /\ KeepFile
    BY <1>1, <1>2, <2>4 DEF Pairs, Fits, KeepFile
  <2>5. CASE /\ wire'[s].stage = "ok" /\ wire'[s].raw = wire[s].raw
             /\ disk \in {Gone, wire[s].raw} \/ ghost'.mispaired
             /\ wire'[s].mtime = mtime /\ KeepFile
    BY <1>1, <1>2, <2>5 DEF Pairs, Fits, KeepFile
  <2> QED
    BY <2>1, <2>3, <2>4, <2>5 DEF Served
<1>4. TabTimes'
  BY <1>1, <1>2, FitsKept DEF TimeInv, TabTimes, HasSeen, Fits, Excuse, Seen
<1> QED
  BY <1>3, <1>4, ServerGets, ServerNews DEF TimeInv

-----------------------------------------------------------------------------
(* What the client has been told is forgotten or kept.                     *)

(* The parts of ToldKept.                                                  *)
WireKept ==
  \A s \in Slot : \/ wire'[s].stage \notin {"ok", "conflict"}
                  \/ \E z \in Slot : wire'[s] = wire[z]

(* Reads that go on, or are dropped or begun.                              *)
GetKept == \A r \in Reader : get'[r] = get[r] \/ get'[r].stage \notin {"stat", "body"}

(* A save sends requests, no answers.                                      *)
LEMMA RestWire == ASSUME NEW t, Rest(t) PROVE WireKept
BY DEF Rest, WireKept, Request, NoRequest

(* A read is begun or dropped.                                             *)
LEMMA GetEdit ==
  ASSUME TypeInv, NEW r \in Reader, NEW b, b.stage \notin {"stat", "body"},
         get' = [get EXCEPT ![r] = b]
  PROVE  GetKept
BY ServerFacts DEF GetKept

(* Superseding a poll drops its read.                                      *)
LEMMA SupersedeGet == ASSUME TypeInv, Supersede PROVE GetKept
<1>1. NoBody.stage \notin {"stat", "body"} /\ Poll \in Reader
  BY DEF NoBody, Reader
<1> QED
  BY <1>1, GetEdit DEF Supersede

(* Polls leave what the client has been told,                              *)
LEMMA PollTold == ASSUME TypeInv, PollStep PROVE ToldKept
<1>1. wire' = wire /\ news' = news /\ question' = question
  BY PollFacts DEF PollStep, PollAsk, PollStates, PollStatesLost, PollLook, PollApply,
     PollUnreadable, newsVars
<1>2. GetKept
  <2>1. CASE get' = get
    BY <2>1 DEF GetKept
  <2>2. CASE get' = [get EXCEPT ![Poll] = NoBody]
    BY <2>2, GetEdit DEF NoBody, Reader
  <2>3. CASE get' = [get EXCEPT ![Poll] = [stage |-> "asked"]]
    BY <2>3, GetEdit DEF Reader
  <2> QED
    BY <2>1, <2>2, <2>3 DEF PollStep, PollAsk, PollStates, PollStatesLost, PollLook,
       PollApply,
       PollUnreadable, Supersede
<1> QED
  BY <1>1, <1>2 DEF ToldKept, GetKept

(* so do choices,                                                          *)
LEMMA ChooseTold ==
  ASSUME TypeInv, NEW strategy, Choose(strategy)
  PROVE  ToldKept
<1>1. news' = news /\ question' = question
  BY DEF Choose, newsVars
<1>2. GetKept
  <2>1. PICK b \in {NoBody, [stage |-> "asked"]} : get' = [get EXCEPT ![Poll] = NoBody, ![Choice] = b]
    BY DEF Choose
  <2> QED
    BY <2>1, ServerFacts DEF GetKept, NoBody, Reader
<1>3. WireKept
  <2>1. ASSUME NEW r, Superseding(r), r.stage \in {"none", "sent"},
               r = NoRequest \/ (r \in SentType /\ r.rev = tab.rev)
        PROVE  WireKept
    <3>1. /\ wire'["save"] = wire["save"] /\ wire'["late"] = wire["late"]
          /\ wire'["recover"] = r
          /\ wire'["older"] \in {NoRequest, wire["older"], wire["recover"]}
      BY <2>1, SupersedingFacts
    <3> QED BY <2>1, <3>1 DEF WireKept, Slot, NoRequest
  <2>2. CASE Superseding(NoRequest)
    BY <2>1, <2>2 DEF NoRequest
  <2>3. CASE Superseding([stage |-> "sent", raw |-> tab.raw, base |-> Gone, rev |-> tab.rev])
    <3> DEFINE r == [stage |-> "sent", raw |-> tab.raw, base |-> Gone, rev |-> tab.rev]
    <3>1. r \in SentType /\ r.rev = tab.rev /\ r.stage = "sent"
      BY TabFacts DEF SentType, TabType
    <3>2. Superseding(r)
      BY <2>3
    <3> HIDE DEF r
    <3> QED BY <2>1, <3>1, <3>2
  <2> QED
    BY <2>2, <2>3 DEF Choose
<1> QED
  BY <1>1, <1>2, <1>3 DEF ToldKept, GetKept, WireKept

(* their answers,                                                          *)
LEMMA ChoiceTold == ASSUME TypeInv, ChoiceStep PROVE ToldKept /\ KeepFile
<1>1. news' = news /\ question' = question /\ KeepFile
  BY DEF ChoiceStep, ChoiceRead, ChoiceFails, Recovered, OlderRecovered, RecoverRefused,
     RecoverReread, KeepPolls, newsVars
<1>2. GetKept
  <2>1. CASE get' = get
    BY <2>1 DEF GetKept
  <2>2. CASE get' = [get EXCEPT ![Choice] = NoBody]
    BY <2>2, GetEdit DEF NoBody, Reader
  <2>3. CASE get' = [get EXCEPT ![Choice] = [stage |-> "asked"]]
    BY <2>3, GetEdit DEF Reader
  <2> QED
    BY <2>1, <2>2, <2>3 DEF ChoiceStep, ChoiceRead, ChoiceFails, Recovered, OlderRecovered,
       RecoverRefused, RecoverReread
<1>3. WireKept
  <2>1. \/ wire' = wire \/ wire' = [wire EXCEPT !["recover"] = NoRequest]
        \/ wire' = [wire EXCEPT !["older"] = NoRequest]
    BY DEF ChoiceStep, ChoiceRead, ChoiceFails, Recovered, OlderRecovered, RecoverRefused,
       RecoverReread
  <2> QED
    BY <2>1, TabFacts DEF WireKept, WireType, Slot, NoRequest
<1> QED
  BY <1>1, <1>2, <1>3 DEF ToldKept, GetKept, WireKept

(* and announcements, whose change becomes the question.                   *)
LEMMA NewsTold == ASSUME TypeInv, Announced \/ Accept \/ Decline PROVE ToldKept
<1>1. wire' = wire
  BY DEF Announced, Accept, Decline
<1>2. GetKept
  <2>1. CASE get' = get
    BY <2>1 DEF GetKept
  <2> QED
    BY <2>1, SupersedeGet DEF Announced, Accept, Decline, Adopt
<1>3. news' = news \/ news'.stage # "told"
  BY DEF Announced, Accept, Decline, NoNews
<1>4. \/ question' = question
      \/ question'.stage # "open"
      \/ news.stage = "told" /\ news.text # Gone /\ question'.change = news
  BY DEF Announced, Accept, Decline, NoQuestion
<1> QED
  BY <1>1, <1>2, <1>3, <1>4 DEF ToldKept, GetKept

(* Steps that leave the messages alone but for what is sent.               *)
LEMMA WireTold ==
  ASSUME WireKept, get' = get, news' = news, question' \in {question, NoQuestion}
  PROVE  ToldKept
BY DEF ToldKept, WireKept, NoQuestion

-----------------------------------------------------------------------------
(* What the tab sees.                                                      *)

(* A step that saves, or nothing, keeps the time of the tab.               *)
LEMMA RestTimes ==
  ASSUME TimeInv, Rest(tab), Remember(ghost), KeepFile
  PROVE  TabTimes' /\ (ghost.mispaired => ghost'.mispaired)
<1>1. HasSeen' = HasSeen /\ Seen' = Seen /\ tab'.mtime = tab.mtime
  BY DEF Rest, HasSeen, Seen
<1>2. /\ ghost'.mispaired = ghost.mispaired /\ ghost'.residue = ghost.residue
      /\ ghost'.declined = ghost.declined
  BY Remembered DEF TimeInv
<1> QED
  BY <1>1, <1>2, TabKept

(* An answer brings the time of the text it is about; in a conflict neither*)
(* is taken.                                                               *)
LEMMA SaveReplyTimes == ASSUME TimeInv, TypeInv', SaveReply PROVE TimeInv'
<1>1. PICK t : Reply(t)
  BY SaveReplyFacts DEF TimeInv
<1>2. KeepFile /\ (ghost.mispaired => ghost'.mispaired) /\ ghost'.residue = ghost.residue
      /\ ghost'.declined = ghost.declined
  BY <1>1 DEF Reply, LittleRemembered, SaveReply
<1>3. ToldKept
  BY <1>1, RestWire, WireTold DEF Reply, SaveReply
<1>4. /\ tab'.base = t.base /\ tab'.extRaw = t.extRaw /\ tab'.extKind = t.extKind
      /\ tab'.mtime = t.mtime
  BY <1>1 DEF Reply, Rest
<1> DEFINE ans == wire["save"]
<1>5. CASE SavedAs(ans, t)
  <2>1. ans.stage = "ok" /\ Pairs(ans.raw, ans.mtime)
    BY <1>5 DEF SavedAs, TimeInv, WireTimes, Slot
  <2>2. CASE Unresolved(tab)
    <3>1. HasSeen => tab.extRaw # None
      BY <2>2, TabFacts DEF HasSeen, Unresolved, TimeInv, TabOK
    <3>2. ~ HasSeen' \/ (HasSeen /\ Seen' = Seen)
      BY <1>4, <1>5, <2>2, <3>1 DEF SavedAs, HasSeen, Seen
    <3> QED
      BY <1>2, <1>3, <1>4, <1>5, <2>2, <3>2, TabKept, ClientTimes DEF SavedAs
  <2>3. CASE ~ Unresolved(tab)
    <3>1. tab'.mtime = ans.mtime /\ Seen' = ans.raw
      BY <1>4, <1>5, <2>3 DEF SavedAs, Seen, Unresolved
    <3> QED
      BY <1>2, <1>3, <2>1, <3>1, TabSees, ClientTimes
  <2> QED BY <2>2, <2>3
<1>6. CASE RefusedAs(ans, t)
  <2>1. CASE ans.stage = "conflict" /\ t.extRaw = ans.text /\ t.mtime = ans.mtime
    <3>1. Pairs(ans.text, ans.mtime) /\ ans.text # None
      BY <2>1, TimeFacts, TextAssumption DEF TimeInv, WireTimes, Slot
    <3>2. tab'.mtime = ans.mtime /\ Seen' = ans.text
      BY <1>4, <2>1, <3>1 DEF Seen
    <3> QED
      BY <1>2, <1>3, <3>1, <3>2, TabSees, ClientTimes
  <2>2. CASE t.base = tab.base /\ t.extRaw = tab.extRaw /\ t.extKind = tab.extKind /\ t.mtime = tab.mtime
    <3>1. HasSeen' = HasSeen /\ Seen' = Seen
      BY <1>4, <2>2 DEF HasSeen, Seen
    <3> QED
      BY <1>2, <1>3, <1>4, <2>2, <3>1, TabKept, ClientTimes
  <2> QED
    BY <1>6, <2>1, <2>2 DEF RefusedAs
<1> QED
  BY <1>1, <1>5, <1>6 DEF Reply

(* A lost save brings none.                                                *)
LEMMA SaveLostTimes == ASSUME TimeInv, TypeInv', SaveLost PROVE TimeInv'
<1>1. KeepFile /\ Remember(ghost) /\ get' = get /\ news' = news /\ question' = question
  BY DEF SaveLost, KeepPolls, newsVars
<1>2. HasSeen' = HasSeen /\ Seen' = Seen /\ tab'.mtime = tab.mtime
  BY SaveLostFacts DEF HasSeen, Seen, TimeInv
<1>3. /\ ghost'.mispaired = ghost.mispaired /\ ghost'.residue = ghost.residue
      /\ ghost'.declined = ghost.declined
  BY <1>1, Remembered DEF TimeInv
<1>4. WireKept
  BY SaveLostFacts DEF WireKept, Slot, NoRequest, TimeInv
<1> QED
  BY <1>1, <1>2, <1>3, <1>4, TabKept, WireTold, ClientTimes

(* Typing changes neither the base nor the time.                           *)
LEMMA EditTimes ==
  ASSUME TimeInv, TypeInv', NEW text \in Typed, Edit(text)
  PROVE  TimeInv'
<1>1. KeepFile /\ get' = get /\ news' = news /\ question' = question /\ wire' = wire
  BY DEF Edit, KeepPolls, newsVars
<1>2. HasSeen' = HasSeen /\ Seen' = Seen /\ tab'.mtime = tab.mtime
  BY EditFacts DEF HasSeen, Seen, TimeInv
<1>3. /\ ghost'.mispaired = ghost.mispaired /\ ghost'.residue = ghost.residue
      /\ ghost'.declined = ghost.declined
  BY EditFacts DEF TimeInv
<1>4. WireKept
  BY <1>1 DEF WireKept
<1> QED
  BY <1>1, <1>2, <1>3, <1>4, TabKept, WireTold, ClientTimes

(* The reports of polls, announcements and choices.                        *)
LEMMA ReportTimes ==
  ASSUME TimeInv, KeepFile, Remember(ghost),
         \/ tab' = tab \/ tab' = Deleted(tab)
         \/ tab' = [tab EXCEPT !.extKind = "unreadable", !.status = "external"]
  PROVE  TabTimes' /\ (ghost.mispaired => ghost'.mispaired)
<1>1. /\ ghost'.mispaired = ghost.mispaired /\ ghost'.residue = ghost.residue
      /\ ghost'.declined = ghost.declined
  BY Remembered DEF TimeInv
<1>2. tab \in TabType
  BY TabFacts DEF TimeInv
<1>3. CASE tab' = tab
  BY <1>1, <1>3, TabKept DEF HasSeen, Seen
<1>4. CASE tab' = Deleted(tab)
  <2>1. tab'.mtime = tab.mtime /\ tab'.extRaw = None /\ tab'.extKind = "deleted"
    BY <1>2, <1>4, DeletedFacts
  <2> QED BY <1>1, <2>1, TabKept DEF HasSeen
<1>5. CASE tab' = [tab EXCEPT !.extKind = "unreadable", !.status = "external"]
  <2>1. tab'.mtime = tab.mtime /\ tab'.extRaw = tab.extRaw /\ tab'.extKind = "unreadable"
        /\ tab'.base = tab.base
    BY <1>2, <1>5, UnreadableFacts
  <2> QED BY <1>1, <2>1, TabKept DEF HasSeen, Seen
<1> QED
  BY <1>3, <1>4, <1>5

(* A conflict brings the text of the file with its time.                   *)
LEMMA ConflictTimes ==
  ASSUME TimeInv, KeepFile, Remember(ghost), NEW text \in Text, NEW time \in Nat,
         Pairs(text, time),
         tab' = Conflict(tab, text, time)
  PROVE  TabTimes' /\ (ghost.mispaired => ghost'.mispaired)
<1>1. ghost'.mispaired = ghost.mispaired
  BY Remembered DEF TimeInv
<1>2. tab \in TabType
  BY TabFacts DEF TimeInv
<1>3. tab'.mtime = time /\ tab'.extRaw = text /\ text # None
  BY <1>2, ConflictFacts, TextAssumption
<1> QED
  BY <1>1, <1>3, TabSees DEF Seen

(* So does a refresh, except that the text of an older conflict may be left*)
(* behind, the residue.                                                    *)
LEMMA PollTimes == ASSUME TimeInv, TypeInv', PollStep PROVE TimeInv'
<1> DEFINE body == get[Poll]
<1>1. ToldKept /\ KeepFile /\ tab \in TabType
  BY PollTold, PollFacts, TabFacts DEF TimeInv
<1>2. body.stage = "body" => body.text \in Text /\ body.mtime \in Nat /\ Pairs(body.text, body.mtime)
  BY BodyFacts DEF TimeInv, GetTimes, Reader
<1>3. CASE Remember(ghost) /\ \/ tab' = tab \/ tab' = Deleted(tab)
                              \/ tab' = [tab EXCEPT !.extKind = "unreadable", !.status = "external"]
  BY <1>1, <1>3, ReportTimes, ClientTimes
<1>4. CASE body.stage = "body" /\ tab' = Conflict(tab, body.text, body.mtime) /\ Remember(ghost)
  BY <1>1, <1>2, <1>4, ConflictTimes, ClientTimes
<1>5. CASE /\ body.stage = "body" /\ tab' = Refresh(tab, body.text, body.mtime)
           /\ Remember([ghost EXCEPT !.mine = FALSE, !.residue = @ \/ tab.extRaw # None])
  <2> DEFINE g == [ghost EXCEPT !.mine = FALSE, !.residue = @ \/ tab.extRaw # None]
  <2>1. tab'.base = body.text /\ tab'.mtime = body.mtime /\ tab'.extRaw = tab.extRaw
    BY <1>1, <1>2, <1>5, RefreshFacts
  <2>2. g \in GhostType /\ g.mispaired = ghost.mispaired /\ (tab.extRaw # None => g.residue)
    BY ServerFacts DEF GhostType, TimeInv
  <2>3. Remember(g)
    BY <1>5
  <2> HIDE DEF g
  <2>4. ghost'.mispaired = ghost.mispaired /\ (tab.extRaw # None => ghost'.residue)
    BY <2>2, <2>3, GhostFields
  <2> QED
    BY <1>1, <1>2, <1>5, <2>1, <2>4, TabSees, ClientTimes DEF Seen
<1> QED
  BY <1>3, <1>4, <1>5, PollFacts DEF TimeInv

(* A choice bases the tab on the text that came with its time.             *)
LEMMA ChooseTimes ==
  ASSUME TimeInv, TypeInv', NEW strategy, Choose(strategy)
  PROVE  TimeInv'
<1>1. ToldKept /\ KeepFile
  BY ChooseTold DEF Choose, TimeInv
<1>2. CASE tab' = tab /\ Remember(ghost)
  BY <1>1, <1>2, ReportTimes, ClientTimes
<1>3. CASE /\ tab.extKind \notin {"unreadable", "deleted"} /\ tab.extRaw # None
           /\ Decide(tab, strategy)
  <2>1. Over(tab)
    BY <1>3, TabFacts DEF Choose, Over, TimeInv
  <2>2. /\ tab'.base = tab.extRaw /\ tab'.extRaw = None /\ tab'.mtime = tab.mtime
        /\ ghost'.mispaired = ghost.mispaired /\ ghost'.residue = ghost.residue
        /\ ghost'.declined = ghost.declined
    BY <1>3, <2>1, DecideFacts DEF TimeInv
  <2>3. HasSeen /\ Seen' = Seen
    BY <1>3, <2>2 DEF HasSeen, Seen
  <2> QED
    BY <1>1, <2>2, <2>3, TabKept, ClientTimes
<1> QED
  BY <1>2, <1>3 DEF Choose

(* So do the answers of a choice that had to read the file or to create it.*)
LEMMA ChoiceTimes == ASSUME TimeInv, TypeInv', ChoiceStep PROVE TimeInv'
<1> DEFINE body == get[Choice]
<1>1. ToldKept /\ KeepFile
  BY ChoiceTold DEF TimeInv
<1>2. body.stage = "body" => Pairs(body.text, body.mtime)
  BY DEF TimeInv, GetTimes, Reader
<1>3. CASE tab' = tab /\ Remember(ghost)
  BY <1>1, <1>3, ReportTimes, ClientTimes
<1>4. CASE ChoiceRead
  <2>1. /\ body.text \in Text /\ body.mtime \in Nat /\ Pairs(body.text, body.mtime)
        /\ \/ tab' = tab /\ Remember(ghost)
           \/ tab' = Reread /\ Remember(ghost) /\ Over(Reread)
           \/ Decide(Reread, choice.strategy) /\ Over(Reread)
        /\ Reread.extRaw = body.text /\ Reread.mtime = body.mtime
    BY <1>2, <1>4, ChoiceReadFacts DEF TimeInv, ChoiceRead
  <2>2. CASE tab' = Reread /\ Remember(ghost) /\ Over(Reread)
    <3>1. tab'.mtime = body.mtime /\ Seen' = body.text
      BY <2>1, <2>2, TextAssumption DEF Seen
    <3>2. ghost'.mispaired = ghost.mispaired
      BY <2>2, Remembered DEF TimeInv
    <3> QED
      BY <1>1, <2>1, <3>1, <3>2, TabSees, ClientTimes
  <2>3. CASE Decide(Reread, choice.strategy) /\ Over(Reread)
    <3>1. /\ tab'.base = Reread.extRaw /\ tab'.extRaw = None /\ tab'.mtime = Reread.mtime
          /\ ghost'.mispaired = ghost.mispaired
      BY <2>3, DecideFacts DEF TimeInv
    <3>2. tab'.mtime = body.mtime /\ Seen' = body.text
      BY <2>1, <3>1 DEF Seen
    <3> QED
      BY <1>1, <2>1, <3>1, <3>2, TabSees, ClientTimes
  <2> QED
    BY <1>3, <2>1, <2>2, <2>3
<1>5. CASE Recovered \/ OlderRecovered
  <2>1. \/ tab' = tab /\ Remember(ghost)
        \/ NothingLearnt /\ \E s \in Slot : wire[s].stage = "ok" /\ Restored(wire[s])
    BY <1>5, RecoveredFacts DEF TimeInv
  <2>2. ASSUME NEW s \in Slot, wire[s].stage = "ok", Restored(wire[s]), NothingLearnt
        PROVE  TimeInv'
    <3>1. Pairs(wire[s].raw, wire[s].mtime)
      BY <2>2 DEF TimeInv, WireTimes
    <3>2. tab'.mtime = wire[s].mtime /\ Seen' = wire[s].raw
      BY <2>2 DEF Restored, Seen
    <3>3. ghost'.mispaired = ghost.mispaired
      BY <2>2 DEF NothingLearnt
    <3> QED
      BY <1>1, <3>1, <3>2, <3>3, TabSees, ClientTimes
  <2> QED
    BY <1>3, <2>1, <2>2
<1>6. CASE RecoverReread
  <2>1. body.stage = "body" /\ body.text \in Text /\ body.mtime \in Nat
    BY <1>6, RecoverRereadFacts DEF TimeInv
  <2>2. CASE tab' = Conflict(tab, body.text, body.mtime) /\ Remember(ghost)
    BY <1>1, <1>2, <2>1, <2>2, ConflictTimes, ClientTimes
  <2>3. CASE /\ tab'.extRaw = None /\ tab'.mtime = body.mtime /\ tab'.base = body.text
             /\ ghost'.mispaired = ghost.mispaired
    <3>1. Seen' = body.text
      BY <2>3 DEF Seen
    <3> QED
      BY <1>1, <1>2, <2>1, <2>3, <3>1, TabSees, ClientTimes
  <2> QED
    BY <1>3, <1>6, <2>2, <2>3, RecoverRereadFacts DEF TimeInv
<1>7. CASE ChoiceFails \/ RecoverRefused
  BY <1>3, <1>7 DEF ChoiceFails, RecoverRefused
<1> QED
  BY <1>4, <1>5, <1>6, <1>7 DEF ChoiceStep

(* An adopted change brings its time; a declined one only its time.        *)
LEMMA NewsTimesKept ==
  ASSUME TimeInv, TypeInv', Announced \/ Accept \/ Decline
  PROVE  TimeInv'
<1>1. ToldKept /\ KeepFile
  BY NewsTold, AnnouncedFacts, AcceptFacts, DeclineFacts DEF TimeInv
<1>2. CASE Remember(ghost) /\ (tab' = tab \/ tab' = Deleted(tab))
  BY <1>1, <1>2, ReportTimes, ClientTimes
<1>3. ASSUME NEW change, Pairs(change.text, change.mtime), Adopted(change) PROVE TimeInv'
  <2>1. Seen' = change.text /\ tab'.mtime = change.mtime /\ ghost'.mispaired = ghost.mispaired
    BY <1>3 DEF Adopted, Seen
  <2> QED
    BY <1>1, <1>3, <2>1, TabSees, ClientTimes
<1>4. CASE Announced
  <2>1. news.stage = "told"
    BY <1>4 DEF Announced
  <2> QED
    BY <1>2, <1>3, <1>4, <2>1, AnnouncedFacts DEF TimeInv, NewsTimes
<1>5. CASE Accept
  <2>1. question.stage = "open" /\ Pairs(question.change.text, question.change.mtime)
    BY <1>5, AcceptFacts DEF TimeInv, NewsTimes
  <2>2. CASE tab' = Conflict(tab, question.change.text, question.change.mtime) /\ Remember(ghost)
    BY <1>1, <1>5, <2>1, <2>2, AcceptFacts, ConflictTimes, ClientTimes DEF TimeInv
  <2> QED
    BY <1>2, <1>3, <1>5, <2>1, <2>2, AcceptFacts DEF TimeInv
<1>6. CASE Decline
  <2>1. question.stage = "open" /\ Pairs(question.change.text, question.change.mtime)
    BY <1>6, DeclineFacts DEF TimeInv, NewsTimes
  <2>2. CASE /\ tab'.mtime = question.change.mtime /\ ghost'.declined = question.change.mtime
             /\ LittleRemembered
    <3>1. TabTimes'
      BY <1>1, <2>1, <2>2 DEF TabTimes, HasSeen, Excuse, Pairs, KeepFile
    <3> QED
      BY <1>1, <2>2, <3>1, ClientTimes DEF LittleRemembered
  <2> QED
    BY <1>2, <1>6, <2>2, DeclineFacts DEF TimeInv
<1> QED
  BY <1>4, <1>5, <1>6

(* Barriers and logouts keep the times but for the save of a logout.       *)
LEMMA LocksTimes ==
  ASSUME TimeInv, TypeInv',
         BarrierTake \/ BarrierHold \/ BarrierRelease \/ LogoutBegin \/ LogoutStep \/ LogoutAnswer
  PROVE  TimeInv'
<1>1. KeepFile /\ get' = get /\ news' = news /\ question' = question
  BY DEF BarrierTake, BarrierHold, BarrierRelease, LogoutBegin, LogoutStep, LogoutSave,
     LogoutSaved,
     LogoutFlushed, LogoutAnswer, LogoutEnd, Resume, KeepWork, KeepPolls, newsVars
<1>2. CASE tab' = tab /\ wire' = wire
  <2>1. PICK b \in BOOLEAN : Remember([ghost EXCEPT !.shared = b])
    <3>1. Remember(ghost) => Remember([ghost EXCEPT !.shared = ghost.shared]) /\ ghost.shared \in BOOLEAN
      BY ServerFacts DEF GhostType, TimeInv
    <3>2. \/ Remember(ghost) \/ Remember([ghost EXCEPT !.shared = wide])
          \/ Remember([ghost EXCEPT !.shared = FALSE])
      BY DEF BarrierTake, BarrierHold, BarrierRelease, LogoutBegin, LogoutStep, LogoutSave,
         LogoutSaved,
         LogoutFlushed, LogoutAnswer, LogoutEnd, Resume
    <3> QED
      BY <3>1, <3>2, LockFacts DEF TimeInv
  <2> DEFINE g == [ghost EXCEPT !.shared = b]
  <2>2. /\ g \in GhostType /\ g.mispaired = ghost.mispaired /\ g.residue = ghost.residue
        /\ g.declined = ghost.declined
    BY ServerFacts DEF GhostType, TimeInv
  <2>3. Remember(g)
    BY <2>1
  <2> HIDE DEF g
  <2>4. /\ ghost'.mispaired = ghost.mispaired /\ ghost'.residue = ghost.residue
        /\ ghost'.declined = ghost.declined
    BY <2>2, <2>3, GhostFields
  <2>5. HasSeen' = HasSeen /\ Seen' = Seen /\ WireKept
    BY <1>2 DEF HasSeen, Seen, WireKept
  <2> QED
    BY <1>1, <1>2, <2>4, <2>5, TabKept, WireTold, ClientTimes
<1>3. CASE /\ tab' = [tab EXCEPT !.saving = tab.rev, !.status = "saving"]
           /\ wire' = [wire EXCEPT !["save"] = Request(tab)] /\ Remember(ghost)
  <2>1. Rest(tab)
    BY <1>3, TabFacts, SendRest DEF TimeInv
  <2> QED
    BY <1>1, <1>3, <2>1, RestTimes, RestWire, WireTold, ClientTimes
<1> QED
  BY <1>2, <1>3 DEF BarrierTake, BarrierHold, BarrierRelease, LogoutBegin, LogoutStep,
     LogoutSave, LogoutSaved,
     LogoutFlushed, LogoutAnswer, LogoutEnd, Resume, KeepWork

(* The times fit at the start,                                             *)
LEMMA TimeInit == Init => TimeInv
<1> SUFFICES ASSUME Init PROVE TimeInv
  OBVIOUS
<1>1. TypeInv
  BY InitType
<1>2. WireTimes /\ GetTimes /\ NewsTimes
  BY DEF Init, WireTimes, GetTimes, NewsTimes, NoRequest, NoBody, NoNews, NoQuestion
<1>3. TabTimes
  BY DEF Init, TabTimes, HasSeen, Seen, Fits
<1> QED
  BY <1>1, <1>2, <1>3 DEF TimeInv

(* and every step keeps them so.                                           *)
LEMMA TimeStep == TimeInv /\ [Next]_vars => TimeInv'
<1> SUFFICES ASSUME TimeInv, [Next]_vars PROVE TimeInv'
  OBVIOUS
<1>1. TypeInv'
  BY NextType DEF TimeInv
<1>2. CASE SaveNow \/ Online \/ TimerFires
  <2>1. /\ Save(tab, ~ Saving) /\ Remember(ghost) /\ KeepFile
        /\ get' = get /\ news' = news /\ question' = question
    BY <1>2 DEF SaveNow, Online, TimerFires, KeepPolls, newsVars
  <2>2. Rest(tab)
    BY <2>1, SaveRest DEF TimeInv
  <2> QED
    BY <1>1, <2>1, <2>2, RestTimes, RestWire, WireTold, ClientTimes
<1>3. CASE User
  BY <1>1, <1>2, <1>3, EditTimes, ChooseTimes, LocksTimes, NewsTimesKept DEF User
<1>4. CASE Client
  BY <1>1, <1>2, <1>4, NewsTimesKept, SaveReplyTimes, ChoiceTimes, LocksTimes DEF Client
<1>5. CASE Server \/ Environment
  BY <1>1, <1>5, ServerTimes, SaveLostTimes, PollTimes DEF Environment
<1>6. CASE UNCHANGED vars
  BY <1>1, <1>6 DEF vars, newsVars, TimeInv, WireTimes, GetTimes, NewsTimes, TabTimes, HasSeen,
     Pairs, Fits, Seen, Excuse
<1> QED
  BY <1>3, <1>4, <1>5, <1>6 DEF Next, LoggedOut

(* When polling finds the file's modification time equal to that of the tab*)
(* and so leaves the file unread (pollExternalChanges), the text of the    *)
(* file is the one the tab is based on or shows as the conflict, with the  *)
(* excuses that TimeMeansText names.                                       *)
THEOREM TimeIsText == Spec => []TimeMeansText
<1>1. TimeInv => TimeMeansText
  BY DEF TimeInv, TabTimes, HasSeen, TimeMeansText, Changed, Fits, Seen, Excuse
<1> QED
  BY <1>1, TimeInit, TimeStep, PTL DEF Spec

-----------------------------------------------------------------------------
(* The buffer.                                                             *)

(* What UserTextKept says of a step.                                       *)
BufferStep ==
  tab'.raw # tab.raw =>
    \/ count'["edit"] # count["edit"]
    \/ question.stage = "open" /\ question.was.raw = tab.raw
    \/ choice.stage = "reading" \/ count'["choice"] # count["choice"]
    \/ ~ ghost.mine \/ ghost.durable \/ tab.raw = tab.base

(* One case for each way the buffer may change.                            *)
LEMMA BufferKept == TypeInv /\ [Next]_vars => BufferStep
<1> SUFFICES ASSUME TypeInv, [Next]_vars, tab'.raw # tab.raw PROVE BufferStep
  BY DEF BufferStep
<1>1. ~ Rest(tab)
  BY DEF Rest
<1>2. ~ (SaveNow \/ Online \/ TimerFires)
  BY <1>1, SaveRest DEF SaveNow, Online, TimerFires
<1>3. ~ SaveReply
  BY SaveReplyFacts DEF Reply, Rest
<1>4. ~ SaveLost
  BY SaveLostFacts
<1>5. ~ (Server \/ External \/ Assist)
  BY ServerSteps DEF KeepTab
<1>6. ASSUME NEW text \in Typed, Edit(text) PROVE BufferStep
  BY <1>6, CountKept DEF Edit, BufferStep, TypeInv, Event
<1>7. ASSUME NEW strategy, Choose(strategy) PROVE BufferStep
  BY <1>7, CountKept DEF Choose, BufferStep, TypeInv, Event
<1>8. tab \in TabType
  BY TabFacts
<1>9. tab' # tab /\ tab' # Deleted(tab)
      /\ tab' # [tab EXCEPT !.extKind = "unreadable", !.status = "external"]
      /\ \A text \in Text, time \in Nat : tab' # Conflict(tab, text, time)
  <2>1. tab' # tab
    OBVIOUS
  <2>2. tab' # Deleted(tab)
    <3>1. Deleted(tab).raw = tab.raw
      BY <1>8, DeletedFacts
    <3> QED BY <3>1
  <2>3. tab' # [tab EXCEPT !.extKind = "unreadable", !.status = "external"]
    <3>1. [tab EXCEPT !.extKind = "unreadable", !.status = "external"].raw = tab.raw
      BY <1>8, UnreadableFacts
    <3> QED BY <3>1
  <2>4. ASSUME NEW text \in Text, NEW time \in Nat PROVE tab' # Conflict(tab, text, time)
    <3>1. Conflict(tab, text, time).raw = tab.raw
      BY <1>8, ConflictFacts
    <3> QED BY <3>1
  <2> QED BY <2>1, <2>2, <2>3, <2>4
<1>10. CASE PollStep
  BY <1>9, <1>10, PollFacts, BodyFacts DEF BufferStep, Dirty, Reader
<1>11. CASE ChoiceStep
  <2>1. CASE ChoiceRead
    BY <2>1 DEF ChoiceRead, BufferStep
  <2>2. CASE Recovered \/ OlderRecovered
    BY <1>9, <2>2, RecoveredFacts DEF Restored
  <2>3. CASE RecoverReread
    BY <1>9, <2>3, RecoverRereadFacts
  <2>4. CASE ChoiceFails \/ RecoverRefused
    BY <1>9, <2>4 DEF ChoiceFails, RecoverRefused
  <2> QED BY <1>11, <2>1, <2>2, <2>3, <2>4 DEF ChoiceStep
<1>12. CASE Announced
  BY <1>9, <1>12, AnnouncedFacts DEF BufferStep
<1>13. CASE Accept
  BY <1>9, <1>13, AcceptFacts DEF BufferStep
<1>14. CASE Decline
  BY <1>9, <1>14, DeclineFacts
<1>15. ~ (BarrierTake \/ BarrierHold \/ BarrierRelease \/ LogoutBegin \/ LogoutAnswer)
  BY <1>9 DEF BarrierTake, BarrierHold, BarrierRelease, LogoutBegin, LogoutAnswer, Resume,
     KeepWork
<1>16. ~ LogoutStep
  BY <1>1, <1>8, <1>9, TabFacts, SendRest
     DEF LogoutStep, LogoutSave, LogoutSaved, LogoutFlushed, LogoutEnd,
     Resume, KeepWork
<1>17. ~ UNCHANGED vars
  BY <1>9 DEF vars
<1> QED
  BY <1>2, <1>3, <1>4, <1>5, <1>6, <1>7, <1>10, <1>11, <1>12, <1>13, <1>14, <1>15, <1>16,
     <1>17
     DEF Next, User, Client, Environment, LoggedOut

(* What the user typed leaves the buffer only by the user's own edit or    *)
(* choice, or once the file has held it, or while the buffer is the text   *)
(* the tab is based on; a poll, an answer or an announced change never     *)
(* replaces it otherwise (isDirty in useDiskFileChanges.ts,                *)
(* applyExternalChange).                                                   *)
THEOREM UserTextIsKept == Spec => UserTextKept
<1>1. TypeInv /\ [Next]_vars => [BufferStep]_vars
  BY BufferKept
<1> QED
  BY <1>1, InitType, NextType, PTL DEF Spec, UserTextKept, BufferStep
=============================================================================
