---------------------------- MODULE ChatSession -----------------------------
(***************************************************************************)
(* One conversation: its session row, its messages, and the turns that     *)
(* tabs send to it. memory/usecase/chat.go over chat_sessions and          *)
(* chat_messages; the mode a turn is answered in is any that               *)
(* modes/service/detect.go can find.                                       *)
(*                                                                         *)
(* A turn reads the session row once, keeps it while the model answers,    *)
(* and writes all of it back whenever one of its fields changes.  Each     *)
(* statement is a step; a call to the model happens with the statement     *)
(* that stores its result, which may come at any time.  What the observers *)
(* do with a turn is in Commitments, and beast mode is in BeastBoard.      *)
(***************************************************************************)
EXTENDS Integers, Sequences, FiniteSets

CONSTANTS
    Client,        \* requests that may be in flight together
    Mode,          \* modes of the registry
    ByHand,        \* modes that only run when chosen (explicit_only)
    Interrogation, \* the mode whose answers hold back a suggestion
    Depth,         \* tiers and generals a person may pick; "" leaves them
    Cooldown,      \* answers looked back on for a suggestion (4)
    KeepRecent,    \* messages shown to the model as they are (8)
    MaxMessages    \* bound: messages of the conversation

ASSUME ChatAssumption ==
    /\ IsFiniteSet(Client)
    /\ ByHand \subseteq Mode /\ Mode \ ByHand # {}
    /\ "" \notin Mode /\ "" \in Depth
    /\ Cooldown \in Nat \ {0} /\ KeepRecent \in Nat \ {0} /\ MaxMessages \in Nat \ {0}

VARIABLES
    session, \* the row of chat_sessions
    there,   \* whether it still is: it was not deleted
    said,    \* the messages, oldest first
    turn     \* turn[c], the request of c

chatVars == <<session, there, said, turn>>

-----------------------------------------------------------------------------

Said == 1 .. MaxMessages

Fields == [titled : BOOLEAN, depth : Depth, mode : Mode \cup {""}, locked : BOOLEAN,
           summary : SUBSET Said] \* the messages the summary was made of

\* A locked conversation is locked to a mode.
Row == {row \in Fields : row.locked => row.mode # ""}

Message == [role : {"user", "assistant"}, mode : Mode \cup {""}, suggests : BOOLEAN]

\* What a request says about the mode: one of them, "" for detection, or nothing.
Choice == Mode \cup {"", "unsaid"}

\* A request keeps its copy of the row, the copies it will write, the messages
\* it knows of and what it was asked.
Turn == [next : {"list", "ask", "write", "answer", "remember", "summarize", "setmode"},
         row : Row, writes : Seq(Row), known : SUBSET Said, chose : Choice, depth : Depth]

Idle == [next |-> "nothing"]

\* The row, every copy of it that a turn keeps or will write, the messages and
\* the turns: a mode left by hand leaves no lock behind, whichever copy is the
\* last to be written (SetMode, SendMessage).
ChatTypeOK ==
    /\ session \in Row
    /\ there \in BOOLEAN
    /\ said \in Seq(Message)
    /\ \A c \in Client : turn[c] # Idle =>
        /\ turn[c] \in Turn
        /\ there => turn[c].known \subseteq DOMAIN said
        /\ turn[c].next = "write" <=> turn[c].writes # <<>>

\* CreateSession, or StartSessionWith and the message it opens with.
ChatInit ==
    /\ there = TRUE
    /\ \/ /\ session = [titled |-> FALSE, depth |-> "", mode |-> "", locked |-> FALSE,
                        summary |-> {}]
          /\ said = <<>>
       \/ \E m \in Mode \ {Interrogation} :
            /\ session = [titled |-> TRUE, depth |-> "", mode |-> m, locked |-> FALSE,
                          summary |-> {}]
            /\ said = <<[role |-> "assistant", mode |-> m, suggests |-> FALSE]>>
    /\ turn = [c \in Client |-> Idle]

-----------------------------------------------------------------------------

Goes(c, t) == turn' = [turn EXCEPT ![c] = t]

Doing(c, step) == turn[c].next = step

\* The n last messages of those in S.
LastOf(S, n) == {i \in S : Cardinality({j \in S : j > i}) < n}

\* UpdateSession: the whole row; a session that is gone is no error.
Written(row) == session' = IF there THEN row ELSE session

\* CreateMessage; the foreign key refuses one of a session that is gone.
Stored(message) ==
    /\ there
    /\ Len(said) < MaxMessages
    /\ said' = Append(said, message)

\* Slip: leaving the mode keeps the lock.
ChosenStill(row, m) == [row EXCEPT !.mode = m, !.locked = TRUE]

\* A mode chosen by hand locks the session to it, "" unlocks it.
Chosen(row, m) == [row EXCEPT !.mode = m, !.locked = m # ""]

-----------------------------------------------------------------------------
(* SetMode, and deleting the conversation.                                 *)

SetModeRead(c, m) ==
    /\ turn[c] = Idle
    /\ there
    /\ Goes(c, [next |-> "setmode", row |-> Chosen(session, m), writes |-> <<>>,
                known |-> {}, chose |-> m, depth |-> ""])
    /\ UNCHANGED <<session, there, said>>

SetModeWrite(c) ==
    /\ Doing(c, "setmode")
    /\ Written(turn[c].row)
    /\ Goes(c, Idle)
    /\ UNCHANGED <<there, said>>

\* DeleteSession takes the messages with it.
DeleteSession ==
    /\ there
    /\ there' = FALSE
    /\ said' = <<>>
    /\ UNCHANGED <<session, turn>>

-----------------------------------------------------------------------------
(* SendMessage.                                                            *)

\* The turn reads the session ...
SendMessage(c, m, d) ==
    /\ turn[c] = Idle
    /\ there
    /\ Goes(c, [next |-> "list", row |-> session, writes |-> <<>>, known |-> {},
                chose |-> m, depth |-> d])
    /\ UNCHANGED <<session, there, said>>

\* ... and its messages.
ListMessages(c) ==
    /\ Doing(c, "list")
    /\ Goes(c, [turn[c] EXCEPT !.next = "ask", !.known = DOMAIN said])
    /\ UNCHANGED <<session, there, said>>

\* The copies to write before the model is asked: a title, a depth or generals
\* picked, a mode chosen, each on top of the one before.
Copies(row, m, d) ==
    LET titled == [row EXCEPT !.titled = TRUE]
        picked == IF d = "" THEN titled ELSE [titled EXCEPT !.depth = d]
    IN (IF row.titled THEN <<>> ELSE <<titled>>)
       \o (IF picked = titled THEN <<>> ELSE <<picked>>)
       \o (IF m = "unsaid" THEN <<>> ELSE <<Chosen(picked, m)>>)

\* With nothing left to write the model is asked.
Ready(t) ==
    IF t.writes # <<>> THEN t
    ELSE [t EXCEPT !.next = "answer", !.chose = "unsaid", !.depth = ""]

StoreQuestion(c) ==
    LET t == turn[c]
        writes == Copies(t.row, t.chose, t.depth)
    IN
    /\ Doing(c, "ask")
    /\ Stored([role |-> "user", mode |-> "", suggests |-> FALSE])
    /\ Goes(c, Ready([t EXCEPT !.next = "write", !.writes = writes,
                               !.known = @ \cup {Len(said) + 1}]))
    /\ UNCHANGED <<session, there>>

WriteCopy(c) ==
    LET t == turn[c] IN
    /\ Doing(c, "write")
    /\ Written(Head(t.writes))
    /\ Goes(c, Ready([t EXCEPT !.row = Head(t.writes), !.writes = Tail(@)]))
    /\ UNCHANGED <<there, said>>

\* Detect: a locked mode answers; otherwise any that need not be chosen, sticky,
\* by its triggers or by default.
Detected(row) == IF row.locked THEN {row.mode} ELSE Mode \ ByHand

\* The latest Cooldown answers.
RecentAnswers(known) == LastOf({i \in known : said[i].role = "assistant"}, Cooldown)

\* Slip: only an interrogation holds a suggestion back.
InterrogatedRecently(known) == \E i \in RecentAnswers(known) : said[i].mode = Interrogation

suggestedRecently(known) ==
    \E i \in RecentAnswers(known) : said[i].suggests \/ said[i].mode = Interrogation

\* Slip: one message too many is folded in.
CutoffLate(known) == known \ LastOf(known, KeepRecent - 1)

\* The messages a summary is made of: all but the most recent.
Cutoff(known) == known \ LastOf(known, KeepRecent)

\* What is left of a turn: the mode it was detected in, the summary.
Rest(t) ==
    IF t.next = "remember" THEN t
    ELSE IF Cutoff(t.known) = {} THEN Idle
    ELSE [t EXCEPT !.next = "summarize", !.known = {},
                   !.row.summary = @ \cup Cutoff(t.known)]

\* The model has answered in mode m and the answer is stored.  A mode that was
\* detected will be remembered.
StoreAnswer(c, m, suggests) ==
    LET t == turn[c]
        known == t.known \cup {Len(said) + 1}
        moved == ~t.row.locked /\ m # t.row.mode
    IN
    /\ Doing(c, "answer")
    /\ there
    /\ m \in Detected(t.row)
    /\ suggests => m # Interrogation /\ ~suggestedRecently(t.known)
    /\ Stored([role |-> "assistant", mode |-> m, suggests |-> suggests])
    /\ Goes(c, Rest([t EXCEPT !.known = known,
                              !.next = IF moved THEN "remember" ELSE @,
                              !.row.mode = IF moved THEN m ELSE @]))
    /\ UNCHANGED <<session, there>>

RememberMode(c) ==
    /\ Doing(c, "remember")
    /\ Written(turn[c].row)
    /\ Goes(c, Rest([turn[c] EXCEPT !.next = "summarize"]))
    /\ UNCHANGED <<there, said>>

\* maybeSummarize has a new summary: of the old one and what was cut off.
Summarize(c) ==
    /\ Doing(c, "summarize")
    /\ Written(turn[c].row)
    /\ Goes(c, Idle)
    /\ UNCHANGED <<there, said>>

\* A statement or the model fails, the client goes away or the process stops;
\* a summary that fails is left at that.
TurnFails(c) ==
    /\ turn[c] # Idle
    /\ Goes(c, Idle)
    /\ UNCHANGED <<session, there, said>>

ChatNext ==
    \/ \E c \in Client :
        \/ \E m \in Mode \cup {""} : SetModeRead(c, m)
        \/ SetModeWrite(c)
        \/ \E m \in Choice, d \in Depth : SendMessage(c, m, d)
        \/ ListMessages(c)
        \/ StoreQuestion(c)
        \/ WriteCopy(c)
        \/ \E m \in Mode, s \in BOOLEAN : StoreAnswer(c, m, s)
        \/ RememberMode(c)
        \/ Summarize(c)
        \/ TurnFails(c)
    \/ DeleteSession

ChatSpec == ChatInit /\ [][ChatNext]_chatVars

-----------------------------------------------------------------------------
(* Safety.                                                                 *)

Answers == {i \in DOMAIN said : said[i].role = "assistant"}

\* A room that recommends an interrogation every turn gets ignored: each tab
\* leaves Cooldown answers between two suggestions of its own, so that many
\* answers and one more hold at most one suggestion of each, though turns that
\* run together do not see one another's (suggestedRecently).
SuggestionsSpaced ==
    \A i \in Answers :
        Cardinality({j \in LastOf({k \in Answers : k <= i}, Cooldown + 1) : said[j].suggests})
            <= Cardinality(Client)

\* The summary is of messages that are no longer shown as they are: it never
\* reaches into the most recent ones, also when turns that know of different
\* messages write it (maybeSummarize, buildChatHistory).
SummaryIsOfOld == there => session.summary \cap LastOf(DOMAIN said, KeepRecent) = {}
=============================================================================
