---------------------------- MODULE LlamaPrompts -----------------------------
(***************************************************************************)
(* What the llama.cpp worker has the model read: a conversation rendered   *)
(* with the tools of the call, the part of it that need not be decoded     *)
(* again, and the snapshots of all that.  One command is served after the  *)
(* other here; how one is cut off from outside is in LlamaWorker.          *)
(*                                                                         *)
(* A token is <<kind, n>>: a role of the chat template, a piece of text, a *)
(* call as it is sampled or as it is rendered, the declarations of a tool  *)
(* set, or a mark.  Tool set 0 is the empty one.                           *)
(***************************************************************************)
EXTENDS Naturals, Sequences, SequencesExt

CONSTANTS
    ToolSets,               \* the tool sets callers pass to generate, besides the empty one
    ContextSize, BatchTokens, MaxTokens,  \* LlamaCppConfig
    VocabBos, TemplateBos,  \* whether the vocabulary, and the template, begin with a BOS
    Prefixed,               \* whether there is an assistant_prefix
    RestoreClears,          \* whether a restore that fails may clear the cache
    MaxMessages             \* bound: messages the stage's conversation has when a turn begins

ASSUME PromptAssumption ==
    /\ ToolSets \subseteq Nat \ {0}
    /\ ContextSize \in Nat \ {0} /\ BatchTokens \in Nat \ {0} /\ MaxTokens \in Nat \ {0}
    /\ {VocabBos, TemplateBos, Prefixed, RestoreClears} \subseteq BOOLEAN
    /\ MaxMessages \in Nat

VARIABLES
    convo,    \* the conversation of LmStage
    cache,    \* the KV cache of the context, and processed_tokens, the record of it
    turn,     \* the command under way: its place, what it was given, its prompt and how much
              \* of that is reused, the tokens sampled
    snapshot  \* the last blob of save_state
promptVars == <<convo, cache, turn, snapshot>>

NoTurn == [at |-> "idle", messages |-> <<>>, tools |-> 0, prompt |-> <<>>, shared |-> 0,
           sampled |-> <<>>]
Said(role, text, calls) == [role |-> role, text |-> text, calls |-> calls]

System == Said("system", <<0>>, <<>>)

\* What others than the stage ask, before anything was said: warm_up, the system prompt and
\* a message of its own; any holder of the handle, a message alone.
Others == {<<System, Said("user", <<1>>, <<>>)>>, <<Said("user", <<1>>, <<>>)>>}

PromptInit ==
    /\ convo = <<System>>
    /\ cache = [processed |-> <<>>, kv |-> <<>>]
    /\ turn = NoTurn
    /\ snapshot = cache

-----------------------------------------------------------------------------
(* The prompt                                                              *)

Mark(kind)        == <<kind, 0>>
Marked(kind, ns)  == [i \in DOMAIN ns |-> <<kind, ns[i]>>]
If(holds, tokens) == IF holds THEN tokens ELSE <<>>

\* The role a message has for the template; only a dialect knows one for a tool's result.
RoleOf(message, tools) ==
    CASE message.role = "result" -> IF tools = 0 THEN "tool" ELSE "user"
      [] message.role # "result" -> message.role

\* A call is written out where tools are declared, and dropped where they are not.
Calls(message, tools) == If(tools # 0, Marked("call", message.calls))
Body(message, tools)  == Marked("text", message.text) \o Calls(message, tools)

\* What declares a tool set.
Declarations(tools) == <<<<"tools", tools>>>>

\* The declarations stand behind the first system message, or in one of their own.
Declared(messages, tools) ==
    LET system == SelectInSeq(messages, LAMBDA m : m.role = "system")
        turnOf(i) == <<Mark(RoleOf(messages[i], tools))>> \o Body(messages[i], tools)
                        \o If(tools # 0 /\ i = system, Declarations(tools))
    IN  If(tools # 0 /\ system = 0, <<Mark("system")>> \o Declarations(tools))
          \o FlattenSeq([i \in DOMAIN messages |-> turnOf(i)])

\* render_messages, the template and the tokenizer; a doubled BOS is collapsed.
Prompt(messages, tools) ==
    LET tokens == If(VocabBos, <<Mark("bos")>>) \o If(TemplateBos, <<Mark("bos")>>)
                    \o Declared(messages, tools)
                    \o <<Mark("assistant")>> \o If(Prefixed, <<Mark("prefix")>>)
    IN  IF tokens[1] = Mark("bos") /\ tokens[2] = Mark("bos") THEN Tail(tokens) ELSE tokens

\* Mutant: a prompt is taken to continue what is in the cache, as far as that goes.
SharedByLength(prompt) ==
    IF Len(cache.processed) < Len(prompt) THEN Len(cache.processed) ELSE Len(prompt) - 1

\* The part of a prompt that is in the cache; its last token is decoded in any case.
SharedLength(prompt) ==
    LET common == Len(LongestCommonPrefix({cache.processed, prompt}))
    IN  IF common < Len(prompt) THEN common ELSE Len(prompt) - 1

\* Mutant: the cache keeps what is behind the part that is reused.
TrimmedRecordOnly(shared) == [cache EXCEPT !.processed = SubSeq(@, 1, shared)]

\* The cache and its record without what is behind the part that is reused.
Trimmed(shared) == [processed |-> SubSeq(cache.processed, 1, shared),
                    kv |-> SubSeq(cache.kv, 1, shared)]

\* How many tokens may be sampled: those that still fit behind the prompt.
Limit(prompt) ==
    LET room == ContextSize - Len(prompt) IN IF MaxTokens < room THEN MaxTokens ELSE room

-----------------------------------------------------------------------------
(* The stage                                                               *)

\* A user's message or a tool's result; an event is rendered as a user's message.
Heard == {Said(role, <<1>>, <<>>) : role \in {"user", "result"}}

Hears ==
    /\ turn.at = "idle" /\ Len(convo) < MaxMessages
    /\ \E input \in Heard : convo' = Append(convo, input)
    /\ UNCHANGED <<cache, turn, snapshot>>

\* generate, of the stage or of others: the declarations of its tools are prepared, unless
\* they are those of the last call that had any.  A tool set may be refused (the model is not
\* of the dialect, or its schemas give no grammar), as a prompt is that does not fit; the
\* stream ends with the error then, and nothing else changes.  A memory that cannot be
\* cleared in part is cleared altogether, and nothing is reused.
Asks ==
    /\ turn.at = "idle" /\ Len(convo) <= MaxMessages
    /\ \E messages \in {convo} \cup (IF Len(convo) = 1 THEN Others ELSE {}),
          tools \in {0} \cup ToolSets :
         LET prompt == Prompt(messages, tools)
         IN  /\ Len(prompt) < ContextSize
             /\ \E shared \in {0, SharedLength(prompt)} :
                  /\ cache' = Trimmed(shared)
                  /\ turn' = [at |-> "prefill", messages |-> messages, tools |-> tools,
                              prompt |-> prompt, shared |-> shared, sampled |-> <<>>]
    /\ UNCHANGED <<convo, snapshot>>

-----------------------------------------------------------------------------
(* The worker                                                              *)

\* What is decoded of the prompt, in batches: what is behind the reused part.  The last batch
\* may be short.
Suffix  == SubSeq(turn.prompt, turn.shared + 1, Len(turn.prompt))
Batches == (Len(Suffix) + BatchTokens - 1) \div BatchTokens
UpTo(batch) == SubSeq(Suffix, 1, IF batch < Batches THEN batch * BatchTokens ELSE Len(Suffix))

\* The batches are appended to what the cache and its record hold.
Prefills ==
    /\ turn.at = "prefill"
    /\ cache' = [cache EXCEPT !.processed = @ \o UpTo(Batches), !.kv = @ \o UpTo(Batches)]
    /\ turn' = [turn EXCEPT !.at = "sampling", !.shared = 0]
    /\ UNCHANGED <<convo, snapshot>>

\* The epoch has moved on between two batches, or one fails, whether it is in the cache then
\* or not.
PrefillStops ==
    /\ turn.at = "prefill"
    /\ \E done \in 0..(Batches - 1) : \E into \in {done, done + 1} :
         cache' = [cache EXCEPT !.processed = @ \o UpTo(done), !.kv = @ \o UpTo(into)]
    /\ turn' = NoTurn
    /\ UNCHANGED <<convo, snapshot>>

\* A word, or with tools a call, as it is sampled; it is decoded and recorded.
Sampled(tools) == {<<"text", 2>>} \cup (IF tools = 0 THEN {} ELSE {<<"called", 1>>})

SamplesToken ==
    /\ turn.at = "sampling"
    /\ Len(turn.sampled) < Limit(turn.prompt)
    /\ \E token \in Sampled(turn.tools) :
         /\ cache' = [cache EXCEPT !.processed = Append(@, token), !.kv = Append(@, token)]
         /\ turn' = [turn EXCEPT !.sampled = Append(@, token)]
    /\ UNCHANGED <<convo, snapshot>>

\* The decode of a token fails, with the token in the cache or not; or a barge-in ends the
\* turn around it.
SamplingStops ==
    /\ turn.at = "sampling"
    /\ \/ UNCHANGED cache
       \/ /\ Len(turn.sampled) < Limit(turn.prompt)
          /\ \E token \in Sampled(turn.tools) : cache' = [cache EXCEPT !.kv = Append(@, token)]
    /\ turn' = NoTurn
    /\ UNCHANGED <<convo, snapshot>>

\* The stage commits what was sampled, its text and its calls and be it nothing, to the
\* conversation.
Of(kind) ==
    LET tokens == SelectSeq(turn.sampled, LAMBDA token : token[1] = kind)
    IN  [i \in DOMAIN tokens |-> tokens[i][2]]

EndsTurn ==
    /\ turn.at = "sampling"
    /\ convo' = IF turn.messages # convo THEN convo
                ELSE Append(convo, Said("assistant", Of("text"), Of("called")))
    /\ turn' = NoTurn
    /\ UNCHANGED <<cache, snapshot>>

SavesState ==
    /\ turn.at = "idle"
    /\ snapshot' = cache
    /\ UNCHANGED <<convo, cache, turn>>

\* Mutant: the record is not replaced with the cache.
RestoredKeepingRecord(blob) == [cache EXCEPT !.kv = blob.kv]

\* load_state: what was saved, with the record that was saved with it.
Restored(blob) == blob

LoadsState ==
    /\ turn.at = "idle"
    /\ \/ cache' = Restored(snapshot)
       \/ RestoreClears /\ cache' = [cache EXCEPT !.kv = <<>>]
    /\ UNCHANGED <<convo, turn, snapshot>>

PromptNext ==
    \/ Hears \/ Asks \/ Prefills \/ PrefillStops
    \/ SamplesToken \/ SamplingStops \/ EndsTurn \/ SavesState \/ LoadsState

PromptSpec == PromptInit /\ [][PromptNext]_promptVars

(***************************************************************************)
(* Properties.                                                             *)
(***************************************************************************)
Content(tokens) == SelectSeq(tokens, LAMBDA token : token[1] \in {"text", "call", "called"})
Count(tokens, kind) == Len(SelectSeq(tokens, LAMBDA token : token[1] = kind))

\* What the model is conditioned on when a token is sampled is the conversation of the call,
\* every text and call of it once and in order, and the tools of the call and no others,
\* declared once; whatever conversations and tools the calls before had, wherever they were
\* stopped, and whatever was restored.  And the context never overflows.
PromptIsConversation ==
    /\ IsPrefix(cache.processed, cache.kv)
    /\ Len(cache.kv) <= ContextSize
    /\ turn.at = "sampling" =>
         /\ Content(cache.kv)
              = FlattenSeq([i \in DOMAIN turn.messages |-> Body(turn.messages[i], turn.tools)])
                  \o turn.sampled
         /\ Count(cache.kv, "tools") = (IF turn.tools = 0 THEN 0 ELSE 1)
         /\ turn.tools # 0 => <<"tools", turn.tools>> \in Range(cache.kv)
         /\ Count(cache.kv, "bos") <= 1
=============================================================================
