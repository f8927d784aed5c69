------------------------------ MODULE ChatPanel ------------------------------
(***************************************************************************)
(* The chat of the web client in one browser tab: the conversation the     *)
(* address names, the panel that is mounted and unmounted as the user      *)
(* moves between the parts of the workspace, and the requests whose        *)
(* answers come back to whatever is on the screen by then.                 *)
(*                                                                         *)
(* A request keeps the panel it was made by: what comes back to a panel    *)
(* that is gone sets nothing, but its code still runs.                     *)
(***************************************************************************)
EXTENDS Integers, FiniteSets

CONSTANTS
  Old,           \* conversations that exist
  New,           \* numbers, the conversations that may be created
  MaxStreams,    \* streams that may be started
  MaxPanels,     \* times the panel may be mounted
  MaxChatRequests,   \* requests of one kind in flight
  NoConv

ASSUME ChatAssumption == NoConv \notin Old \cup New /\ MaxPanels \in Nat \ {0}

VARIABLES
  conversation,  \* conversationUid of the application, as last set
  chatOpen,      \* the chat is the current tab
  panel,         \* number of the panel that is mounted, or was last
  rendered,      \* the conversation the panel was rendered with
  skip,          \* skipConversationLoadRef
  cancels,       \* the stream cancelRef stops, 0 for none
  chatPhase,
  failure,       \* an error is set
  shown,         \* whose messages are listed
  asked,         \* whose question and answer are shown below them
  creations,     \* createRagConversation in flight
  histories,     \* the conversation and its messages, loaded by the effect
  reloads,       \* the messages, loaded after an answer
  streams,       \* what became of the streams
  excused        \* why the list or the question may be another conversation's

chatVars == <<conversation, chatOpen, panel, rendered, skip, cancels, chatPhase, failure, shown,
              asked, creations, histories, reloads, streams, excused>>

Panels == 1..MaxPanels
ConvOrNone == Old \cup New \cup {NoConv}
Busy == chatPhase \in {"searching", "preparing", "streaming"}
StreamIds == DOMAIN streams
AnswerRuns == cancels[panel] # 0 /\ streams[cancels[panel]].state = "open" /\ ~streams[cancels[panel]].told

Existing == Old \cup {streams[s].conv : s \in StreamIds}
Unused == New \ (Existing \cup {r.conv : r \in creations})

(* The panel a request was made by is still there.                         *)
Here(r) == chatOpen /\ panel = r.panel

Abort(ss, s) ==
  [t \in DOMAIN ss |->
     IF t = s /\ ss[t].state = "open" THEN [ss[t] EXCEPT !.state = "aborted"] ELSE ss[t]]

ChatInit ==
  /\ conversation = NoConv /\ chatOpen = TRUE /\ panel = 1 /\ rendered = NoConv
  /\ skip = NoConv /\ cancels = [p \in Panels |-> 0]
  /\ chatPhase = "idle" /\ failure = FALSE /\ shown = NoConv /\ asked = NoConv
  /\ creations = {} /\ histories = {} /\ reloads = {}
  /\ streams = <<>>
  /\ excused = {}

(* Of what is on the screen, this is not the conversation's.               *)
OthersShown(c) ==
  (IF shown \notin {NoConv, c} THEN {"shown"} ELSE {})
  \cup (IF asked \notin {NoConv, c} THEN {"asked"} ELSE {})

Superseded == {h \in histories : h.panel = panel}

(* The effect of a conversation: what is in flight is given up, the old    *)
(* load no longer counts and the new one starts.  The conversation that    *)
(* was just created by the panel itself is not loaded.                     *)
ShowConversation(c) ==
  \/ /\ c # NoConv /\ skip = c
     /\ skip' = NoConv
     /\ histories' = histories \ Superseded
     /\ excused' = excused \cup OthersShown(c)
     /\ UNCHANGED <<cancels, streams, chatPhase, failure, shown, asked>>
  \/ /\ c = NoConv \/ skip # c
     /\ streams' = Abort(streams, cancels[panel]) /\ cancels' = [cancels EXCEPT ![panel] = 0]
     /\ chatPhase' = "idle" /\ failure' = FALSE /\ asked' = NoConv
     /\ shown' = IF c = NoConv THEN NoConv ELSE shown
     /\ histories' = (histories \ Superseded)
                     \cup {[panel |-> panel, conv |-> d] : d \in {c} \ {NoConv}}
     /\ excused' = {}
     /\ UNCHANGED skip

(* A click on a conversation or on a new one, and going back: rendered at  *)
(* once.  When the panel was rendered with it already, no effect runs.     *)
Select(c) ==
  /\ chatOpen
  /\ conversation' = c /\ rendered' = c
  /\ \/ c # rendered /\ ShowConversation(c)
     \/ /\ c = rendered
        /\ excused' = excused \cup OthersShown(c)
        /\ UNCHANGED <<skip, cancels, streams, chatPhase, failure, shown, asked, histories>>
  /\ UNCHANGED <<chatOpen, panel, creations, reloads>>

(* A conversation set by an answer is rendered a little later.             *)
Render ==
  /\ chatOpen /\ rendered # conversation
  /\ rendered' = conversation
  /\ ShowConversation(conversation)
  /\ UNCHANGED <<conversation, chatOpen, panel, creations, reloads>>

(* Wrong variant of Leave: the answer runs on.                             *)
LeaveRunning ==
  /\ chatOpen /\ panel < MaxPanels
  /\ chatOpen' = FALSE /\ conversation' = NoConv
  /\ histories' = histories \ Superseded
  /\ UNCHANGED <<panel, rendered, skip, cancels, chatPhase, failure, shown, asked, creations,
                 reloads, streams, excused>>

(* Another tab: the effects are undone, which stops the answer; the        *)
(* application forgets the conversation.                                   *)
Leave ==
  /\ chatOpen /\ panel < MaxPanels
  /\ chatOpen' = FALSE /\ conversation' = NoConv
  /\ streams' = Abort(streams, cancels[panel])
  /\ histories' = histories \ Superseded
  /\ UNCHANGED <<panel, rendered, skip, cancels, chatPhase, failure, shown, asked, creations,
                 reloads, excused>>

(* A new panel starts empty and runs the effect.                           *)
NewPanel(c) ==
  /\ ~chatOpen
  /\ chatOpen' = TRUE /\ panel' = panel + 1
  /\ conversation' = c /\ rendered' = c /\ skip' = NoConv
  /\ chatPhase' = "idle" /\ failure' = FALSE /\ shown' = NoConv /\ asked' = NoConv
  /\ histories' = histories \cup {[panel |-> panel + 1, conv |-> d] : d \in {c} \ {NoConv}}
  /\ excused' = {}

Mount(c) == NewPanel(c) /\ UNCHANGED <<cancels, creations, reloads, streams>>

-----------------------------------------------------------------------------
(* The second half of startRequest: the answer before is stopped, the new  *)
(* one is asked for.                                                       *)
Stream(p, c) ==
  LET s      == Cardinality(StreamIds) + 1
      before == Abort(streams, cancels[p])
  IN /\ s <= MaxStreams
     /\ streams' = [t \in 1..s |->
                      IF t = s THEN [panel |-> p, conv |-> c, state |-> "open", told |-> FALSE,
                                     orphan |-> ~(chatOpen /\ panel = p)]
                      ELSE before[t]]
     /\ cancels' = [cancels EXCEPT ![p] = s]

(* It is shown by the panel that is there.                                 *)
AskHere(c) ==
  /\ Stream(panel, c)
  /\ chatPhase' = "searching" /\ failure' = FALSE /\ asked' = c
  /\ excused' = excused \ {"asked", "cleared"}

(* The send button when nothing runs, and the buttons that try again,      *)
(* which are there after an error or a cancellation.                       *)
MaySend == ~Busy \/ (asked # NoConv /\ (failure \/ chatPhase = "canceled"))

SubmitInConversation ==
  /\ chatOpen /\ MaySend /\ rendered # NoConv
  /\ AskHere(rendered)
  /\ UNCHANGED <<conversation, chatOpen, panel, rendered, skip, shown, creations, histories, reloads>>

(* Without a conversation one is created first; nothing on the screen says *)
(* so, and the button may be pressed again.                                *)
SubmitInNone ==
  /\ chatOpen /\ MaySend /\ rendered = NoConv
  /\ Cardinality(creations) < MaxChatRequests
  /\ \E n \in Unused :
       /\ \A m \in Unused : n <= m
       /\ creations' = creations \cup {[panel |-> panel, conv |-> n]}
  /\ UNCHANGED <<conversation, chatOpen, panel, rendered, skip, cancels, chatPhase, failure, shown,
                 asked, histories, reloads, streams, excused>>

(* The created conversation is selected, whatever was selected meanwhile,  *)
(* and the question is asked, by a panel that may be gone.                 *)
Created(r) ==
  /\ creations' = creations \ {r}
  /\ \/ /\ Here(r)
        /\ conversation' = r.conv /\ skip' = r.conv
        /\ AskHere(r.conv)
        /\ UNCHANGED <<chatOpen, panel, rendered, shown, histories>>
     \/ /\ ~Here(r) /\ chatOpen
        /\ conversation' = r.conv
        /\ Stream(r.panel, r.conv)
        /\ UNCHANGED <<chatOpen, panel, rendered, skip, chatPhase, failure, shown, asked, histories,
                       excused>>
     \/ ~chatOpen /\ NewPanel(r.conv) /\ Stream(r.panel, r.conv)
  /\ UNCHANGED reloads

CreationFails(r) ==
  /\ creations' = creations \ {r}
  /\ \/ Here(r) /\ chatPhase' = "error" /\ failure' = TRUE
     \/ ~Here(r) /\ UNCHANGED <<chatPhase, failure>>
  /\ UNCHANGED <<conversation, chatOpen, panel, rendered, skip, cancels, shown, asked, histories,
                 reloads, streams, excused>>

(* The send button while an answer runs.                                   *)
CancelAnswer ==
  /\ chatOpen /\ Busy
  /\ streams' = Abort(streams, cancels[panel]) /\ cancels' = [cancels EXCEPT ![panel] = 0]
  /\ chatPhase' = "canceled"
  /\ UNCHANGED <<conversation, chatOpen, panel, rendered, skip, failure, shown, asked, creations,
                 histories, reloads, excused>>

-----------------------------------------------------------------------------
(* The messages of the selected conversation arrive, or do not: then those *)
(* of the conversation before stay.                                        *)
HistoryLands(r) ==
  /\ histories' = histories \ {r}
  /\ \/ shown' = r.conv /\ excused' = excused \ {"shown"} /\ UNCHANGED failure
     \/ failure' = TRUE /\ excused' = excused \cup OthersShown(r.conv) /\ UNCHANGED shown
  /\ UNCHANGED <<conversation, chatOpen, panel, rendered, skip, cancels, chatPhase, asked,
                 creations, reloads, streams>>

(* The messages after an answer arrive: they are shown and the question    *)
(* below them is taken away, whichever is selected and asked by now.       *)
ReloadLands(r) ==
  /\ reloads' = reloads \ {r}
  /\ \/ /\ Here(r)
        /\ shown' = r.conv /\ asked' = NoConv
        /\ excused' = (IF r.conv # rendered THEN {"shown"} ELSE {})
                      \cup (IF AnswerRuns THEN {"cleared"} ELSE {})
     \/ UNCHANGED <<shown, asked, excused>>
  /\ UNCHANGED <<conversation, chatOpen, panel, rendered, skip, cancels, chatPhase, failure,
                 creations, histories, streams>>

Tell(s, next, told) ==
  /\ streams' = [streams EXCEPT ![s].state = IF told = "end" THEN "ended" ELSE @,
                                ![s].told = @ \/ told = "last"]
  /\ chatPhase' = IF Here(streams[s]) THEN next ELSE chatPhase
  /\ UNCHANGED <<conversation, chatOpen, panel, rendered, skip, cancels, shown, asked, creations,
                 histories, excused>>

(* The events of a stream in their order, after the last of which the      *)
(* stream still has to end; the error event ends it.                       *)
StreamStarts(s) ==
  /\ ~streams[s].told /\ Tell(s, "preparing", "more") /\ UNCHANGED <<failure, reloads>>

StreamToken(s) ==
  /\ ~streams[s].told /\ Tell(s, "streaming", "more") /\ UNCHANGED <<failure, reloads>>

StreamCompletes(s) ==
  /\ ~streams[s].told /\ Tell(s, "done", "last")
  /\ Cardinality(reloads) < MaxChatRequests
  /\ reloads' = reloads \cup {[panel |-> streams[s].panel, conv |-> streams[s].conv]}
  /\ UNCHANGED failure

StreamCanceled(s) ==
  /\ ~streams[s].told /\ Tell(s, "canceled", "last") /\ UNCHANGED <<failure, reloads>>

StreamEnds(s) ==
  /\ streams[s].told /\ Tell(s, chatPhase, "end") /\ UNCHANGED <<failure, reloads>>

(* An error event, a broken connection or an end without a last event; the *)
(* connection may also break after it.                                     *)
StreamFails(s) ==
  /\ Tell(s, "error", "end")
  /\ failure' = (failure \/ Here(streams[s]))
  /\ UNCHANGED reloads

ChatNext ==
  \/ \E c \in Existing \cup {NoConv} : Select(c) \/ Mount(c)
  \/ Render \/ Leave \/ SubmitInConversation \/ SubmitInNone \/ CancelAnswer
  \/ \E r \in creations : Created(r) \/ CreationFails(r)
  \/ \E r \in histories : HistoryLands(r)
  \/ \E r \in reloads : ReloadLands(r)
  \/ \E s \in {t \in StreamIds : streams[t].state = "open"} :
       StreamStarts(s) \/ StreamToken(s) \/ StreamCompletes(s) \/ StreamCanceled(s)
       \/ StreamEnds(s) \/ StreamFails(s)

ChatSpec == ChatInit /\ [][ChatNext]_chatVars

-----------------------------------------------------------------------------
ChatTypeOK ==
  /\ conversation \in ConvOrNone /\ rendered \in ConvOrNone /\ skip \in ConvOrNone
  /\ shown \in ConvOrNone /\ asked \in ConvOrNone
  /\ chatOpen \in BOOLEAN /\ failure \in BOOLEAN /\ panel \in Panels
  /\ cancels \in [Panels -> 0..Cardinality(StreamIds)]
  /\ chatPhase \in {"idle", "searching", "preparing", "streaming", "done", "canceled", "error"}
  /\ creations \cup histories \cup reloads \subseteq [panel : Panels, conv : Old \cup New]
  /\ \A s \in StreamIds : streams[s] \in [panel : Panels, conv : Old \cup New, told : BOOLEAN,
                                         state : {"open", "aborted", "ended"}, orphan : BOOLEAN]
  /\ excused \subseteq {"shown", "asked", "cleared"}

(* However requests, tabs and events interleave, an answer that runs is the *)
(* one its panel can stop, and a panel that is gone runs one only when it  *)
(* was asked for after that; while the panel says that it works, there is  *)
(* such an answer, and its question is shown unless late messages took it  *)
(* away.  [startRequest, cancel, the effects of ChatFeature]               *)
AnswerCanBeStopped ==
  /\ \A s \in StreamIds :
       streams[s].state = "open" =>
         /\ cancels[streams[s].panel] = s
         /\ Here(streams[s]) \/ streams[s].orphan
  /\ chatOpen /\ Busy =>
       /\ cancels[panel] # 0
       /\ LET s == streams[cancels[panel]]
          IN s.state = "open" /\ (asked = s.conv \/ "cleared" \in excused)

(* With no load on its way, the messages and the question on the screen    *)
(* are those of the selected conversation, unless the load failed, the     *)
(* messages after an answer came late, or a conversation created meanwhile *)
(* was selected without a load.  [the effect of conversationUid]           *)
ShowsSelected ==
  chatOpen /\ rendered = conversation /\ Superseded = {} =>
    /\ shown \in {NoConv, rendered} \/ "shown" \in excused
    /\ asked \in {NoConv, rendered} \/ "asked" \in excused

(* What runs can be stopped, and what is shown belongs together.           *)
ChatAgrees == AnswerCanBeStopped /\ ShowsSelected

=============================================================================
