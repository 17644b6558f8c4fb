----------------------------- MODULE MainTask -----------------------------
(***************************************************************************)
(* The conversation about one block: _run_main_task of review_service.py   *)
(* with its rounds, the tool calls of ReviewToolRunner, the compression of *)
(* the history and the retries of LLMClient.chat.  A message keeps its     *)
(* role, the round it belongs to, the tool calls it asks for and its size; *)
(* what it says is left out.                                               *)
(***************************************************************************)
EXTENDS Integers, Sequences, SequencesExt, FiniteSetsExt

CONSTANTS
    MaxRounds,       \* llm_max_tool_rounds or full_scan_max_tool_rounds
    MaxEmpty,        \* llm_max_consecutive_empty_rounds
    ApiRetries,      \* llm_api_retry_times
    CompressRounds,  \* llm_context_compress_rounds; 0: not by rounds
    KeepRecent,      \* llm_context_keep_recent_messages
    SoftLimit,       \* size from which the history is compressed
    HardLimit,       \* size that is not sent; 0: no limit
    PromptSizes,     \* sizes of the first user message: diff and full file
    ResultSizes,     \* sizes of a tool result
    MaxCalls         \* bound on the tool calls of one answer

ASSUME LimitAssumption ==
    /\ MaxRounds \in Nat \ {0}
    /\ MaxEmpty \in Nat \ {0}
    /\ ApiRetries \in Nat
    /\ CompressRounds \in Nat
    /\ KeepRecent \in Nat \ {0, 1}
    /\ SoftLimit \in Nat \ {0}
    /\ HardLimit \in Nat
    /\ MaxCalls \in Nat \ {0}
    /\ PromptSizes \subseteq Nat \ {0}
    /\ ResultSizes \subseteq Nat \ {0}

VARIABLES
    phase,      \* what _run_main_task does next
    prompt,     \* size of the first user message
    messages,   \* the list that is sent with every request
    round,      \* round_index
    empty,      \* consecutive_empty_rounds
    commented,  \* runner.comments is not empty
    failures,   \* what runner.failure_messages is about
    mode,       \* completion_mode
    stop,       \* the next _check_interrupted raises
    late,       \* LLM requests that started after stop
    billed,     \* answers the provider has given
    traced,     \* answers recorded in model_rounds
    unsummed    \* answers of the compression that were empty

mainVars == <<phase, prompt, messages, round, empty, commented, failures,
              mode, stop, late, billed, traced, unsummed>>

\* chat: a request with tools is due; plain: one without.
Phases == {"preflight", "round", "compress", "chat", "plain",
           "ended", "raised", "interrupted"}

Modes == {"none", "context_limit", "file_timeout", "json_fallback",
          "empty_round_limit", "task_done", "task_failed", "max_rounds"}

Message == [role : {"system", "user", "assistant", "tool"},
            round : 0 .. MaxRounds, calls : 0 .. MaxCalls, size : Nat]

Msg(role, of, calls, size) ==
    [role |-> role, round |-> of, calls |-> calls, size |-> size]

-----------------------------------------------------------------------------
(* LLMClient.chat                                                          *)

\* The first attempt asks the primary model, the others the fallback model.
\* A fatal error (any other HTTP status than the retryable ones) is raised.
Attempts == 1 .. ApiRetries + 1

LastAttempt(outcome) ==
    Min({a \in Attempts : outcome[a] # "transient" \/ a = ApiRetries + 1})

\* Whether a call of chat may answer, or raise, for some outcome of its requests.
Chats ==
    {outcome[LastAttempt(outcome)] = "ok" :
        outcome \in [Attempts -> {"ok", "transient", "fatal"}]}

-----------------------------------------------------------------------------
(* The history                                                             *)

\* _estimate_messages_tokens
Size(ms) == FoldSeq(LAMBDA m, sum : m.size + sum, 0, ms)

IsTool(ms, i) == ms[i].role = "tool"

\* Mutant: the cut may fall between an answer and the results it asked for.
CutAnywhere(ms) ==
    Max({2, Len(ms) - KeepRecent})

\* _compression_active_start: the number of leading messages that are frozen
\* (the first two) or summarized.  The cut moves back from a tool result to the
\* answer that asked for it; if it arrives at the frozen messages, one message
\* and the results after it are given up instead.
CutBack(ms) ==
    Max({n \in 2 .. Max({2, Len(ms) - KeepRecent}) : n = 2 \/ ~IsTool(ms, n + 1)})

\* Mutant: something is given up even if nothing else is left.
ActiveStartOfShortHistory(ms) ==
    IF CutBack(ms) = 2
    THEN Min({n \in 3 .. Len(ms) : n = Len(ms) \/ ~IsTool(ms, n + 1)})
    ELSE CutBack(ms)

ActiveStart(ms) ==
    IF CutBack(ms) = 2 /\ Len(ms) > 4
    THEN Min({n \in 3 .. Len(ms) : n = Len(ms) \/ ~IsTool(ms, n + 1)})
    ELSE CutBack(ms)

MustCompress(ms) ==
    /\ \/ Size(ms) >= SoftLimit
       \/ /\ CompressRounds > 0
          /\ round > CompressRounds
          /\ (round - 1) % CompressRounds = 0
    /\ Len(ms) > 2
    /\ ActiveStart(ms) > 2

\* The summary replaces that of an earlier compression.
Compressed(ms) ==
    <<ms[1], Msg("user", 0, 0, prompt + 1)>>
        \o SubSeq(ms, ActiveStart(ms) + 1, Len(ms))

TooLarge(ms) == HardLimit > 0 /\ Size(ms) >= HardLimit

-----------------------------------------------------------------------------
(* ReviewToolRunner.run                                                    *)

\* read: a result of a context tool.  error: an unknown tool, invalid arguments
\* or an exception.  accept, reject: code_comment with and without a complete
\* comment.  done, failed: task_done with the state DONE and any other.
CallKinds == {"read", "error", "accept", "reject", "done", "failed"}

CallSequences == UNION {[1 .. n -> CallKinds] : n \in 1 .. MaxCalls}

Kinds(calls) == {calls[i] : i \in DOMAIN calls}

Valid(calls) == Kinds(calls) \ {"error", "reject"} # {}

Declares(calls) == Kinds(calls) \cap {"done", "failed"} # {}

\* done_state: the last declaration counts.
LastDeclared(calls) ==
    calls[Max({i \in DOMAIN calls : calls[i] \in {"done", "failed"}})]

-----------------------------------------------------------------------------
Init ==
    /\ phase = "preflight"
    /\ prompt \in PromptSizes
    /\ messages = <<Msg("system", 0, 0, 1), Msg("user", 0, 0, prompt)>>
    /\ round = 0
    /\ empty = 0
    /\ commented = FALSE
    /\ failures = {}
    /\ mode = "none"
    /\ stop = FALSE
    /\ late = 0
    /\ billed = 0
    /\ traced = 0
    /\ unsummed = 0

End(how, why) ==
    /\ phase' = "ended"
    /\ mode' = how
    /\ failures' = failures \cup why

\* Mutant: one round more.
NextRoundBeyond ==
    IF round > MaxRounds
    THEN End("max_rounds", {"rounds"})
    ELSE phase' = "round" /\ UNCHANGED <<mode, failures>>

\* The end of the body of the loop.
NextRound ==
    IF round = MaxRounds
    THEN End("max_rounds", {"rounds"})
    ELSE phase' = "round" /\ UNCHANGED <<mode, failures>>

\* A request is sent, perhaps after the work has been called off.
Request ==
    late' = IF stop THEN late + 1 ELSE late

Preflight ==
    /\ phase = "preflight"
    /\ IF TooLarge(messages)
       THEN End("context_limit", {"context"})
       ELSE phase' = "round" /\ UNCHANGED <<mode, failures>>
    /\ UNCHANGED <<prompt, messages, round, empty, commented, stop, late,
                   billed, traced, unsummed>>

\* Mutant: a round begins without a look at the interruption.
StartRoundUnchecked ==
    /\ phase = "round"
    /\ round' = round + 1
    /\ \/ phase' = "compress" /\ UNCHANGED <<mode, failures>>
       \/ round > 0 /\ End("file_timeout", {"timeout"})
    /\ UNCHANGED <<prompt, messages, empty, commented, stop, late, billed,
                   traced, unsummed>>

\* _check_interrupted, and the time the file may take.
StartRound ==
    /\ phase = "round"
    /\ ~stop
    /\ round' = round + 1
    /\ \/ phase' = "compress" /\ UNCHANGED <<mode, failures>>
       \/ round > 0 /\ End("file_timeout", {"timeout"})
    /\ UNCHANGED <<prompt, messages, empty, commented, stop, late, billed,
                   traced, unsummed>>

Interrupt ==
    /\ phase = "round"
    /\ stop
    /\ phase' = "interrupted"
    /\ UNCHANGED <<prompt, messages, round, empty, commented, failures, mode,
                   stop, late, billed, traced, unsummed>>

SendOrGiveUp(ms) ==
    IF TooLarge(ms)
    THEN End("context_limit", {"context"})
    ELSE phase' = "chat" /\ UNCHANGED <<mode, failures>>

SkipCompression ==
    /\ phase = "compress"
    /\ ~MustCompress(messages)
    /\ SendOrGiveUp(messages)
    /\ UNCHANGED <<prompt, messages, round, empty, commented, stop, late,
                   billed, traced, unsummed>>

\* The summary is written by the model; when the request fails, or the answer
\* is empty and so not recorded, by a local rule.
Compress ==
    /\ phase = "compress"
    /\ MustCompress(messages)
    /\ messages' = Compressed(messages)
    /\ SendOrGiveUp(messages')
    /\ Request
    /\ \/ /\ TRUE \in Chats
          /\ billed' = billed + 1
          /\ \/ traced' = traced + 1 /\ UNCHANGED unsummed
             \/ unsummed' = unsummed + 1 /\ UNCHANGED traced
       \/ FALSE \in Chats /\ UNCHANGED <<billed, traced, unsummed>>
    /\ UNCHANGED <<prompt, round, empty, commented, stop>>

-----------------------------------------------------------------------------
(* Answers of the model                                                    *)

\* _extract_json: the list of issues in a text, as the tool for comments takes them.
JsonIssues == SUBSET {"accept", "reject"}

\* _collect_json_comments: an empty list of issues settles the review, and so does
\* one complete issue.
Settles(issues) == issues = {} \/ "accept" \in issues

AnswerJson(issues) ==
    /\ Settles(issues)
    /\ End("json_fallback", {})
    /\ commented' = (commented \/ "accept" \in issues)
    /\ messages' = Append(messages, Msg("assistant", round, 0, 1))
    /\ UNCHANGED empty

\* Mutant: the review is given up without a message.
AnswerNothingQuietly ==
    /\ messages' = messages \o <<Msg("assistant", round, 0, 1),
                                 Msg("user", round, 0, 1)>>
    /\ empty' = empty + 1
    /\ IF empty' >= MaxEmpty
       THEN End("empty_round_limit", {})
       ELSE NextRound
    /\ UNCHANGED commented

\* No tool call, and no list of issues or none that settles the review.
AnswerNothing ==
    /\ messages' = messages \o <<Msg("assistant", round, 0, 1),
                                 Msg("user", round, 0, 1)>>
    /\ empty' = empty + 1
    /\ IF empty' >= MaxEmpty
       THEN End("empty_round_limit", {"empty"})
       ELSE NextRound
    /\ UNCHANGED commented

Reported(calls) == IF "failed" \in Kinds(calls) THEN {"reported"} ELSE {}

\* All calls of an answer are run, also those after task_done.
AnswerCalls(calls, size) ==
    /\ messages' = Append(messages, Msg("assistant", round, Len(calls), 1))
                     \o [i \in DOMAIN calls |-> Msg("tool", round, 0, size)]
    /\ commented' = (commented \/ "accept" \in Kinds(calls))
    /\ empty' = IF Valid(calls) THEN 0 ELSE empty + 1
    /\ IF Declares(calls)
       THEN End(IF LastDeclared(calls) = "done" THEN "task_done" ELSE "task_failed",
                Reported(calls))
       ELSE IF empty' >= MaxEmpty
            THEN End("empty_round_limit", {"empty"})
            ELSE NextRound

Answered ==
    /\ TRUE \in Chats
    /\ billed' = billed + 1
    /\ traced' = traced + 1
    /\ \/ \E issues \in JsonIssues : AnswerJson(issues)
       \/ AnswerNothing
       \/ \E calls \in CallSequences, size \in ResultSizes :
            AnswerCalls(calls, size)

Chat ==
    /\ phase = "chat"
    /\ Request
    /\ Answered
    /\ UNCHANGED <<prompt, round, stop, unsummed>>

\* The request with tools failed: ask once more without tools.
ChatFails ==
    /\ phase = "chat"
    /\ FALSE \in Chats
    /\ Request
    /\ messages' = Append(messages, Msg("user", round, 0, 1))
    /\ phase' = "plain"
    /\ UNCHANGED <<prompt, round, empty, commented, failures, mode, stop,
                   billed, traced, unsummed>>

PlainChat ==
    /\ phase = "plain"
    /\ Request
    /\ Answered
    /\ UNCHANGED <<prompt, round, stop, unsummed>>

\* raise tool_error: issues and recorded rounds are lost with the frame.
PlainChatFails ==
    /\ phase = "plain"
    /\ FALSE \in Chats
    /\ Request
    /\ phase' = "raised"
    /\ commented' = FALSE
    /\ traced' = 0
    /\ UNCHANGED <<prompt, messages, round, empty, failures, mode, stop,
                   billed, unsummed>>

MainStep ==
    \/ Preflight
    \/ StartRound
    \/ Interrupt
    \/ SkipCompression
    \/ Compress
    \/ Chat
    \/ ChatFails
    \/ PlainChat
    \/ PlainChatFails

\* A trigger, a preemption, a shutdown or the loss of the lease.
Stop ==
    /\ phase \notin {"ended", "raised", "interrupted"}
    /\ ~stop
    /\ stop' = TRUE
    /\ UNCHANGED <<phase, prompt, messages, round, empty, commented, failures,
                   mode, late, billed, traced, unsummed>>

Next == MainStep \/ Stop

Spec == Init /\ [][Next]_mainVars

\* Every request has a timeout, so a step that can be taken is.
FairSpec == Spec /\ WF_mainVars(MainStep)

-----------------------------------------------------------------------------
(* Properties                                                              *)

TypeOK ==
    /\ phase \in Phases
    /\ prompt \in PromptSizes
    /\ messages \in Seq(Message)
    /\ round \in 0 .. MaxRounds
    /\ empty \in 0 .. MaxEmpty
    /\ commented \in BOOLEAN
    /\ failures \subseteq {"context", "timeout", "empty", "rounds", "reported"}
    /\ mode \in Modes
    /\ stop \in BOOLEAN
    /\ {late, billed, traced, unsummed} \subseteq Nat

Sending == phase \in {"chat", "plain"}

\* What is sent is what a chat API accepts: it opens with the system message and
\* the code under review, and the results of a tool call follow, all of them, the
\* answer that asked for them.  Compression cuts the list at a place where this
\* stays so (_compression_active_start).
RequestsAreWellFormed ==
    Sending =>
        /\ Len(messages) >= 2
        /\ messages[1].role = "system"
        /\ messages[2].role = "user" /\ messages[2].round = 0
        /\ \A i \in 3 .. Len(messages) :
             /\ messages[i].role = "tool" =>
                    \E j \in 3 .. i - 1 :
                        /\ messages[j].calls >= i - j
                        /\ \A k \in j + 1 .. i : IsTool(messages, k)
             /\ \A k \in 1 .. messages[i].calls :
                    i + k <= Len(messages) /\ IsTool(messages, i + k)

\* A tool result that came alone in the last round survives compression: the model
\* has not seen it yet.  (Several results in the first round may be cut, see
\* LastRoundIsKept.)
SingleResultSurvives ==
    [][\A n \in 4 .. Len(messages) :
         Compress /\ n = Len(messages)
           /\ IsTool(messages, n) /\ ~IsTool(messages, n - 1)
         => messages'[Len(messages')] = messages[n]
            /\ messages'[Len(messages') - 1] = messages[n - 1]]_mainVars

\* After the work has been called off at most the requests of the round that is
\* under way are still sent: a summary, one with tools and one without.
StopIsPrompt == late <= 3

\* The result of the block, as the caller sees it.
HasResult == phase \in {"ended", "raised"}

Completed == mode \in {"task_done", "json_fallback"}

Outcome ==
    [completed |-> HasResult /\ Completed,
     failed |-> phase = "raised" \/ (HasResult /\ failures # {}),
     commented |-> HasResult /\ commented]

Progress ==
    IF HasResult THEN "result"
    ELSE IF phase = "interrupted" THEN "interrupted" ELSE "pending"

Caller == INSTANCE MainResult WITH answer <- Progress, result <- Outcome

\* Every conversation ends, within its rounds, in a result that is completed or
\* says what went wrong: nothing is reported as reviewed, or left without a
\* reason, because a limit was reached.
ImplementsMainResult == Caller!Spec

\* README: the history keeps the latest complete tool rounds.
LastRoundIsKept ==
    phase = "chat" /\ round > 1 =>
        \E i \in 3 .. Len(messages) : messages[i].round = round - 1

\* README: the totals are those of all calls.
AnswersAreCounted ==
    phase \in {"ended", "raised"} => traced = billed
=============================================================================
