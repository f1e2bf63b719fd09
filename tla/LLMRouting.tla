----------------------------- MODULE LLMRouting -----------------------------
(***************************************************************************)
(* One LLMClient shared by concurrent coroutines.                          *)
(*                                                                         *)
(* chat_for_task and chat_with_fallback switch the configuration of the    *)
(* client for one call, under a lock; chat, chat_with_cache, chat_stream   *)
(* and embed use whatever it is without the lock.  A step is what a        *)
(* coroutine does between two awaits.  The limiter below the semaphore is   *)
(* module CircuitBreaker; here a call of the provider answers or fails.    *)
(***************************************************************************)
EXTENDS Naturals, FiniteSets, Sequences

CONSTANTS Call,             \* coroutines, one call each
          NoCall,           \* nobody holds the lock
          NoRequest,
          Configured,       \* configuration of the client when it is made
          Providers, Models,
          Fallbacks,        \* providers chat_with_fallback goes on with
          LocalModel,       \* the model of simple tasks
          EmbeddingModel,   \* the model of embeddings
          HasBase,          \* api_base is configured
          HasKey,           \* api_key is configured
          DefaultModel,     \* provider -> the model used when none is configured
          MaxConcurrency    \* permits of the semaphore

Config == [provider : Providers, model : Models \cup {""}]

Names    == [prefix : {"", "ollama", "openai"}, model : Models]
Requests == [name : Names, base : {"ollama", "custom", "default"}, key : BOOLEAN]
Charges  == [provider : Providers, name : Names]

(* An unknown provider needs an api_base. *)
Supported(p) == HasBase \/ p \in {"claude", "gpt", "openai", "ollama"}

ASSUME ConfigAssumption ==
  /\ NoCall \notin Call
  /\ Configured \in Config /\ Supported(Configured.provider)
  /\ "ollama" \in Providers /\ LocalModel \in Models /\ LocalModel # ""
  /\ EmbeddingModel \in Models /\ NoRequest \notin Requests /\ NoRequest \notin Charges
  /\ Fallbacks \in Seq(Providers)
  /\ HasBase \in BOOLEAN /\ HasKey \in BOOLEAN
  /\ DefaultModel \in [Providers -> Models]
ASSUME ConcurrencyAssumption == MaxConcurrency \in Nat \ {0}

VARIABLES config,     \* self.config: provider and model
          modelName,  \* self._model_name
          lock,       \* holder of _config_lock
          kind,       \* what each coroutine calls
          pc,         \* the await it is at
          request,    \* the arguments of its call of the provider
          saved,      \* the configuration it means to restore
          untried,    \* providers chat_with_fallback has still to try
          charged,    \* what the cost tracker was told of its call
          cached      \* the answer in Redis for the messages, if any

client == <<config, modelName, lock>>
vars == <<client, kind, pc, request, saved, untried, charged, cached>>

Kinds  == {"chat", "cached", "task", "fallback", "stream", "embed"}
Awaits == {"look_up", "health", "lock", "limit", "queue", "llm", "record", "store"}
Ended  == {"done", "failed", "cancelled"}

(* _resolve_model_name *)
Resolve(c) ==
  [prefix |-> CASE c.provider = "ollama" -> "ollama"
                [] c.provider = "claude" -> ""
                [] c.provider \in {"gpt", "openai"} /\ ~HasBase -> ""
                [] OTHER -> "openai",
   model  |-> IF c.model = "" THEN DefaultModel[c.provider] ELSE c.model]

(* _get_api_kwargs: Ollama gets its own address and no key, another        *)
(* provider the key if one is configured.                                  *)
ApiKwargs(c, name) ==
  [name |-> name,
   base |-> IF c.provider = "ollama" THEN "ollama" ELSE IF HasBase THEN "custom" ELSE "default",
   key  |-> HasKey /\ c.provider # "ollama"]

(* _get_model_key: the cost tracker is told the name without "ollama/". *)
ModelKey(name) == [name EXCEPT !.prefix = IF @ = "ollama" THEN "" ELSE @]

Local == [provider |-> "ollama", model |-> LocalModel]

InFlight == {c \in Call : pc[c] = "llm"}

Init ==
  /\ config = Configured /\ modelName = Resolve(Configured) /\ lock = NoCall
  /\ kind = [c \in Call |-> "none"] /\ pc = [c \in Call |-> "idle"]
  /\ request = [c \in Call |-> NoRequest]
  /\ saved = [c \in Call |-> Configured]
  /\ untried = [c \in Call |-> <<>>]
  /\ charged = [c \in Call |-> NoRequest]
  /\ cached = FALSE

At(c, step) == pc[c] = step
Goto(c, step) == pc' = [pc EXCEPT ![c] = step]

(* chat up to its semaphore: no await lies between the arguments and it.   *)
Ask(c) ==
  /\ request' = [request EXCEPT ![c] = ApiKwargs(config', modelName')]
  /\ Goto(c, "queue")

Switch(newConfig) ==
  /\ config' = newConfig /\ modelName' = Resolve(newConfig)

----------------------------------------------------------------------------
(* Beginnings                                                              *)

Begin(c, k) ==
  /\ At(c, "idle")
  /\ kind' = [kind EXCEPT ![c] = k]
  /\ UNCHANGED <<charged, cached, untried>>

Chat(c) ==
  /\ Begin(c, "chat") /\ UNCHANGED <<client, saved>> /\ Ask(c)

ChatWithCache(c) ==
  /\ Begin(c, "cached") /\ Goto(c, "look_up") /\ UNCHANGED <<client, request, saved>>

(* The arguments are taken before the limiter is asked. *)
ChatStream(c) ==
  /\ Begin(c, "stream") /\ Goto(c, "limit")
  /\ request' = [request EXCEPT ![c] = ApiKwargs(config, modelName)]
  /\ UNCHANGED <<client, saved>>

Embed(c) ==
  /\ Begin(c, "embed") /\ Goto(c, "health") /\ UNCHANGED <<client, request, saved>>

(* A simple task of a client that is not local already. *)
ChatForTask(c) ==
  /\ Begin(c, "task") /\ UNCHANGED <<client, saved>>
  /\ IF config.provider = "ollama" THEN Ask(c)
     ELSE Goto(c, "health") /\ UNCHANGED request

ChatWithFallback(c) ==
  /\ Begin(c, "fallback") /\ Goto(c, "lock")
  /\ saved' = [saved EXCEPT ![c] = config]
  /\ UNCHANGED <<client, request>>

----------------------------------------------------------------------------
(* Awaits that end                                                         *)

(* A hit is an answer; Redis may also fail, which is a miss. *)
LookUp(c) ==
  /\ At(c, "look_up")
  /\ UNCHANGED <<client, kind, saved, untried, charged, cached>>
  /\ \/ cached /\ Goto(c, "done") /\ UNCHANGED request
     \/ Ask(c)

Store(c) ==
  /\ At(c, "store") /\ Goto(c, "done")
  /\ cached' \in {cached, TRUE}
  /\ UNCHANGED <<client, kind, request, saved, untried, charged>>

(* check_ollama_health: without Ollama a task stays in the cloud and the    *)
(* vectors of an embedding are zero.                                       *)
OllamaIsDown(c) ==
  /\ At(c, "health")
  /\ UNCHANGED <<client, kind, saved, untried, charged, cached>>
  /\ IF kind[c] = "task" THEN Ask(c) ELSE Goto(c, "done") /\ UNCHANGED request

(* The configuration to restore is read before the lock is taken. *)
OllamaIsUp(c) ==
  /\ At(c, "health")
  /\ IF kind[c] = "task"
     THEN /\ Goto(c, "lock") /\ saved' = [saved EXCEPT ![c] = config]
          /\ UNCHANGED request
     ELSE /\ Goto(c, "queue") /\ UNCHANGED saved
          /\ request' = [request EXCEPT ![c] =
               [name |-> [prefix |-> "ollama", model |-> EmbeddingModel], base |-> "ollama",
                key |-> HasKey /\ config.provider # "ollama"]]
  /\ UNCHANGED <<client, kind, untried, charged, cached>>

(* The limiter of a stream; success is recorded before the call.           *)
Limit(c) ==
  /\ At(c, "limit") /\ (Goto(c, "queue") \/ Goto(c, "failed"))
  /\ UNCHANGED <<client, kind, request, saved, untried, charged, cached>>

(* Mutant: the lock is not waited for.                                     *)
LockForTaskAtOnce(c) ==
  /\ At(c, "lock") /\ kind[c] = "task"
  /\ lock' = c /\ Switch(Local) /\ Ask(c)
  /\ UNCHANGED <<kind, saved, untried, charged, cached>>

LockForTask(c) ==
  /\ At(c, "lock") /\ kind[c] = "task" /\ lock = NoCall
  /\ lock' = c /\ Switch(Local) /\ Ask(c)
  /\ UNCHANGED <<kind, saved, untried, charged, cached>>

(* The next provider that can be resolved; the model stays the same.  When *)
(* none is left the configuration is restored and the call fails.          *)
TryNext(c, providers) ==
  \/ \E i \in 1..Len(providers) :
       /\ Supported(providers[i]) /\ \A j \in 1..(i - 1) : ~Supported(providers[j])
       /\ Switch([config EXCEPT !.provider = providers[i]])
       /\ untried' = [untried EXCEPT ![c] = SubSeq(providers, i + 1, Len(providers))]
       /\ Ask(c) /\ lock' = c
  \/ /\ \A i \in 1..Len(providers) : ~Supported(providers[i])
     /\ Switch(saved[c])
     /\ Goto(c, "failed") /\ lock' = NoCall
     /\ UNCHANGED <<untried, request>>

LockForFallback(c) ==
  /\ At(c, "lock") /\ kind[c] = "fallback" /\ lock = NoCall
  /\ TryNext(c, <<saved[c].provider>> \o Fallbacks)
  /\ UNCHANGED <<kind, saved, charged, cached>>

(* Mutant: a call that waits for the lock holds a permit.                  *)
EnterSemaphoreAfterLock(c) ==
  /\ At(c, "queue")
  /\ Cardinality(InFlight \cup {d \in Call : At(d, "lock")}) < MaxConcurrency
  /\ Goto(c, "llm")
  /\ UNCHANGED <<client, kind, request, saved, untried, charged, cached>>

EnterSemaphore(c) ==
  /\ At(c, "queue") /\ Cardinality(InFlight) < MaxConcurrency
  /\ Goto(c, "llm")
  /\ UNCHANGED <<client, kind, request, saved, untried, charged, cached>>

(* Mutant: the configuration is not restored when the call fails.          *)
ReleaseRestoringAnswers(c) ==
  IF lock # c THEN UNCHANGED client
  ELSE /\ lock' = NoCall
       /\ IF kind[c] = "task" /\ pc'[c] = "done" THEN Switch(saved[c]) ELSE UNCHANGED <<config, modelName>>

(* Mutant: the name is left behind.                                        *)
ReleaseKeepingName(c) ==
  IF lock # c THEN UNCHANGED client
  ELSE /\ lock' = NoCall /\ UNCHANGED modelName
       /\ config' = IF kind[c] = "task" THEN saved[c] ELSE config

(* What the caller of chat does when it returns: a task restores the       *)
(* configuration (finally), a fallback leaves the provider that answered.  *)
Release(c) ==
  IF lock # c THEN UNCHANGED client
  ELSE /\ lock' = NoCall
       /\ IF kind[c] = "task" THEN Switch(saved[c]) ELSE UNCHANGED <<config, modelName>>

Return(c) ==
  /\ Goto(c, IF kind[c] = "cached" THEN "store" ELSE "done") /\ Release(c)

(* chat reads provider and model once more for the cost tracker; a call    *)
(* without usage is not recorded, nor are streams and embeddings.          *)
Answer(c) ==
  /\ At(c, "llm")
  /\ \/ /\ kind[c] \notin {"stream", "embed"}
        /\ charged' = [charged EXCEPT ![c] = [provider |-> config.provider, name |-> ModelKey(modelName)]]
        /\ Goto(c, "record") /\ UNCHANGED client
     \/ Return(c) /\ UNCHANGED charged
  /\ UNCHANGED <<kind, request, saved, untried, cached>>

Record(c) ==
  /\ At(c, "record") /\ Return(c)
  /\ UNCHANGED <<kind, request, saved, untried, charged, cached>>

(* The provider fails: a fallback tries the next one, an embedding is zero. *)
Fail(c) ==
  /\ At(c, "llm")
  /\ IF kind[c] = "fallback" THEN TryNext(c, untried[c])
     ELSE /\ Goto(c, IF kind[c] = "embed" THEN "done" ELSE "failed") /\ Release(c)
          /\ UNCHANGED <<request, untried>>
  /\ UNCHANGED <<kind, saved, charged, cached>>

(* A cancellation or a timeout reaches a coroutine at an await: it is no   *)
(* Exception, so that a fallback restores nothing and tries no other.      *)
Cancel(c) ==
  /\ pc[c] \in Awaits
  /\ Goto(c, "cancelled") /\ Release(c)
  /\ UNCHANGED <<kind, request, saved, untried, charged, cached>>

Begins(c) == Chat(c) \/ ChatWithCache(c) \/ ChatStream(c) \/ Embed(c) \/ ChatForTask(c) \/ ChatWithFallback(c)

Continues(c) ==
  \/ LookUp(c) \/ Store(c) \/ OllamaIsDown(c) \/ OllamaIsUp(c) \/ Limit(c)
  \/ LockForTask(c) \/ LockForFallback(c) \/ EnterSemaphore(c)
  \/ Answer(c) \/ Record(c) \/ Fail(c)

Done == (\A c \in Call : pc[c] \in Ended) /\ UNCHANGED vars

Next == (\E c \in Call : Begins(c) \/ Continues(c) \/ Cancel(c)) \/ Done

Spec == Init /\ [][Next]_vars

(* The event loop goes on with a coroutine whose await is over; a provider *)
(* answers or fails within its timeout.                                    *)
FairSpec == Spec /\ \A c \in Call : WF_vars(Continues(c))
----------------------------------------------------------------------------
(* Properties                                                              *)

(* Types; the configured provider can always be resolved.                  *)
TypeOK ==
  /\ config \in Config /\ Supported(config.provider)
  /\ modelName \in Names /\ lock \in Call \cup {NoCall}
  /\ kind \in [Call -> Kinds \cup {"none"}]
  /\ pc \in [Call -> {"idle"} \cup Awaits \cup Ended]
  /\ request \in [Call -> Requests \cup {NoRequest}]
  /\ saved \in [Call -> {x \in Config : Supported(x.provider)}]
  /\ untried \in [Call -> Seq(Providers)]
  /\ charged \in [Call -> Charges \cup {NoRequest}]
  /\ cached \in BOOLEAN

(* Whatever is switched while calls are under way, a call goes to the      *)
(* address its model name is for, and a chat never takes the key of        *)
(* another provider to Ollama nor leaves a configured one at home          *)
(* (_get_api_kwargs reads the client in one step).                         *)
RequestsCoherent ==
  \A c \in Call : request[c] # NoRequest =>
    /\ request[c].base = "ollama" <=> request[c].name.prefix = "ollama"
    /\ kind[c] # "embed" => request[c].key = (HasKey /\ request[c].base # "ollama")

(* A call that has switched the client holds the lock while it is at work, *)
(* the client stays as it has set it until it is over, and the cost        *)
(* tracker is told the model that was asked (_config_lock; chat reads the  *)
(* client again after the answer).                                         *)
AtWork(c) == pc[c] \in {"queue", "llm", "record"}
LockedCallsKeepClient ==
  \A c \in Call : lock = c \/ (kind[c] = "fallback" /\ AtWork(c)) =>
    /\ lock = c /\ AtWork(c)
    /\ request[c] = ApiKwargs(config, modelName)
    /\ pc[c] = "record" => charged[c].name = ModelKey(request[c].name)

(* One call that switches, among any that do not, puts back what it found, *)
(* failed or cancelled, unless a fallback answered or was cancelled        *)
(* (finally in chat_for_task, the end of chat_with_fallback).              *)
Switchers == {c \in Call : kind[c] \in {"task", "fallback"}}
AloneRestores ==
  \A c \in Call :
    /\ Switchers = {c} /\ lock = NoCall
    /\ kind[c] = "fallback" => pc[c] \notin {"done", "cancelled"}
    => config = Configured /\ modelName = Resolve(Configured)

(* Every call ends: the lock is taken before the semaphore and never while *)
(* a permit is held (chat_for_task, chat_with_fallback, chat).             *)
CallsEnd == \A c \in Call : pc[c] \in Awaits ~> pc[c] \in Ended

(* "The state of the instance is always restored": when only tasks were    *)
(* routed and all are over, the client is configured as it was made.       *)
RestoredWhenIdle ==
  (\A c \in Call : kind[c] \in {"none", "task"} /\ pc[c] \in {"idle"} \cup Ended)
    => config = Configured
=============================================================================
