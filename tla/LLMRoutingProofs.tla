-------------------------- MODULE LLMRoutingProofs --------------------------
(***************************************************************************)
(* For any number of coroutines, providers, models and fallbacks, and any  *)
(* semaphore: requests are coherent, a call that has switched the client   *)
(* keeps it to itself, and one switching call among others restores it.    *)
(***************************************************************************)
EXTENDS LLMRouting, TLAPS, SequenceTheorems

\* What a coroutine can be calling at an await.
Placed(c) ==
  /\ pc[c] = "idle" => kind[c] = "none"
  /\ pc[c] = "look_up" => kind[c] = "cached"
  /\ pc[c] = "limit" => kind[c] = "stream"
  /\ pc[c] = "health" => kind[c] \in {"task", "embed"}
  /\ pc[c] = "lock" => kind[c] \in {"task", "fallback"}

Switching(c) == kind[c] \in {"task", "fallback"}

\* The holder of the lock is a task or a fallback at work, whose arguments
\* are what the client says; a fallback at work holds the lock.
Holding(c) ==
  /\ lock = c => /\ Switching(c) /\ AtWork(c)
                 /\ request[c] = ApiKwargs(config, modelName)
                 /\ pc[c] = "record" => charged[c].name = ModelKey(request[c].name)
  /\ kind[c] = "fallback" /\ AtWork(c) => lock = c

\* A fallback that answered or was cancelled leaves its provider behind.
LeftBehind(c) == kind[c] = "fallback" /\ pc[c] \in {"done", "cancelled"}

\* As long as nobody but c switches, the client is as it was made whenever
\* the lock is free, and c means to restore just that.
Alone(c) ==
  (\A d \in Call : Switching(d) => d = c) /\ ~LeftBehind(c) =>
    /\ lock = NoCall => config = Configured
    /\ pc[c] = "lock" \/ lock = c => saved[c] = Configured

\* The inductive invariant.
Inv ==
  /\ TypeOK
  /\ modelName = Resolve(config)
  /\ RequestsCoherent
  /\ \A c \in Call : Placed(c) /\ Holding(c)
  /\ \A c \in Call : Alone(c)

----------------------------------------------------------------------------
(* The operators *)

\* A configuration whose provider can be resolved.
Usable(x) == x \in Config /\ Supported(x.provider)

LEMMA ResolveFacts ==
  ASSUME NEW x \in Config
  PROVE  Resolve(x) \in Names /\ (Resolve(x).prefix = "ollama" <=> x.provider = "ollama")
<1>1. Resolve(x).model \in Models BY ConfigAssumption DEF Resolve, Config
<1>2. Resolve(x).prefix \in {"", "ollama", "openai"} BY DEF Resolve
<1>3. Resolve(x).prefix = "ollama" <=> x.provider = "ollama" BY DEF Resolve
<1>4. Resolve(x) = [prefix |-> Resolve(x).prefix, model |-> Resolve(x).model] BY DEF Resolve
<1> QED BY <1>1, <1>2, <1>3, <1>4 DEF Names

Fits(r) == /\ r \in Requests
           /\ r.base = "ollama" <=> r.name.prefix = "ollama"
           /\ r.key = (HasKey /\ r.base # "ollama")

LEMMA ApiKwargsFits ==
  ASSUME NEW x \in Config
  PROVE  Fits(ApiKwargs(x, Resolve(x)))
<1>1. Resolve(x) \in Names /\ (Resolve(x).prefix = "ollama" <=> x.provider = "ollama")
  BY ResolveFacts
<1>2. HasBase \in BOOLEAN /\ HasKey \in BOOLEAN BY ConfigAssumption
<1> QED BY <1>1, <1>2 DEF ApiKwargs, Fits, Requests

LEMMA ModelKeyTyped ==
  ASSUME NEW name \in Names PROVE ModelKey(name) \in Names
BY DEF ModelKey, Names

LEMMA UsableConfigs ==
  /\ Usable(Configured) /\ Usable(Local)
  /\ \A x \in Config, p \in Providers : Supported(p) => Usable([x EXCEPT !.provider = p])
BY ConfigAssumption DEF Usable, Config, Local, Supported

----------------------------------------------------------------------------
(* What the actions do to the client *)

\* The configurations are resolved together with their name.
Client(x) == config' = x /\ modelName' = Resolve(x)

LEMMA TryNextEffect ==
  ASSUME TypeOK, NEW c \in Call, NEW providers \in Seq(Providers), TryNext(c, providers)
  PROVE  \/ /\ \E x : Usable(x) /\ Client(x)
            /\ untried' \in [Call -> Seq(Providers)]
            /\ request' = [request EXCEPT ![c] = ApiKwargs(config', modelName')]
            /\ pc' = [pc EXCEPT ![c] = "queue"] /\ lock' = c
         \/ /\ Client(saved[c]) /\ Usable(saved[c])
            /\ pc' = [pc EXCEPT ![c] = "failed"] /\ lock' = NoCall
            /\ UNCHANGED <<untried, request>>
<1>1. ASSUME NEW i \in 1..Len(providers), Supported(providers[i]),
             Switch([config EXCEPT !.provider = providers[i]]),
             untried' = [untried EXCEPT ![c] = SubSeq(providers, i + 1, Len(providers))],
             Ask(c), lock' = c
      PROVE  /\ \E x : Usable(x) /\ Client(x)
             /\ untried' \in [Call -> Seq(Providers)]
             /\ request' = [request EXCEPT ![c] = ApiKwargs(config', modelName')]
             /\ pc' = [pc EXCEPT ![c] = "queue"] /\ lock' = c
  <2>1. providers[i] \in Providers OBVIOUS
  <2>2. Usable([config EXCEPT !.provider = providers[i]])
    BY <1>1, <2>1, UsableConfigs DEF TypeOK
  <2>3. Client([config EXCEPT !.provider = providers[i]]) BY <1>1 DEF Switch, Client
  <2>4. SubSeq(providers, i + 1, Len(providers)) \in Seq(Providers)
    <3>1. i + 1 \in Nat /\ Len(providers) \in Nat /\ i + 1 >= 1 OBVIOUS
    <3> QED BY <3>1, SubSeqProperties
  <2>5. untried' \in [Call -> Seq(Providers)] BY <1>1, <2>4 DEF TypeOK
  <2> QED BY <1>1, <2>2, <2>3, <2>5 DEF Ask, Goto
<1>2. CASE Switch(saved[c]) /\ Goto(c, "failed") /\ lock' = NoCall /\ UNCHANGED <<untried, request>>
  BY <1>2 DEF Switch, Client, Goto, TypeOK, Usable
<1> QED BY <1>1, <1>2 DEF TryNext

LEMMA ReleaseEffect ==
  ASSUME TypeOK, modelName = Resolve(config), NEW c \in Call, Release(c)
  PROVE  /\ lock' = IF lock = c THEN NoCall ELSE lock
         /\ Client(IF lock = c /\ kind[c] = "task" THEN saved[c] ELSE config)
         /\ Usable(saved[c]) /\ Usable(config)
BY DEF Release, Switch, Client, client, TypeOK, Usable

----------------------------------------------------------------------------
(* A step of one coroutine, seen by itself and by the others *)

OnlySwitcher(c) == \A d \in Call : Switching(d) => d = c

Coherent(c) ==
  request[c] # NoRequest =>
    /\ request[c].base = "ollama" <=> request[c].name.prefix = "ollama"
    /\ kind[c] # "embed" => request[c].key = (HasKey /\ request[c].base # "ollama")

\* A step of c: it touches only what is c's own, and the client only when the
\* lock is free or c's and c is a task or a fallback.
Moves(c) ==
  /\ \A d \in Call \ {c} : /\ pc'[d] = pc[d] /\ kind'[d] = kind[d]
                           /\ request'[d] = request[d] /\ saved'[d] = saved[d]
                           /\ charged'[d] = charged[d]
  /\ Switching(c) => Switching(c)'
  /\ \/ UNCHANGED client
     \/ lock \in {NoCall, c} /\ lock' \in {NoCall, c} /\ Switching(c)'

Own(c) ==
  /\ Moves(c)
  /\ modelName' = Resolve(config')
  /\ Coherent(c)' /\ Placed(c)' /\ Holding(c)' /\ Alone(c)'

LEMMA OwnIsEnough ==
  ASSUME Inv, NEW c \in Call, Own(c), TypeOK'
  PROVE  Inv'
<1>1. ASSUME NEW d \in Call, d # c
      PROVE  Coherent(d)' /\ Placed(d)' /\ Holding(d)' /\ Alone(d)'
  <2>1. /\ pc'[d] = pc[d] /\ kind'[d] = kind[d] /\ request'[d] = request[d]
        /\ saved'[d] = saved[d] /\ charged'[d] = charged[d]
    BY <1>1 DEF Own, Moves
  <2>2. Coherent(d)' /\ Placed(d)'
    BY <2>1 DEF Inv, RequestsCoherent, Coherent, Placed
  <2>3. lock' = d => UNCHANGED client
    BY <1>1, ConfigAssumption DEF Own, Moves
  <2>4. lock = d => UNCHANGED client
    BY <1>1, ConfigAssumption DEF Own, Moves
  <2>5. Holding(d)'
    <3>1. Holding(d) BY DEF Inv
    <3> QED BY <2>1, <2>3, <2>4, <3>1 DEF Holding, Switching, AtWork, client
  <2>6. Alone(d)'
    <3> SUFFICES ASSUME OnlySwitcher(d)', ~LeftBehind(d)'
                 PROVE  /\ lock' = NoCall => config' = Configured
                        /\ pc'[d] = "lock" \/ lock' = d => saved'[d] = Configured
      BY DEF Alone, OnlySwitcher
    <3>1. ~Switching(c)' /\ ~Switching(c) /\ UNCHANGED client
      BY <1>1 DEF OnlySwitcher, Own, Moves
    <3>2. \A e \in Call : kind'[e] = kind[e] \/ e = c BY DEF Own, Moves
    <3>3. OnlySwitcher(d) BY <3>1, <3>2 DEF OnlySwitcher, Switching
    <3>4. ~LeftBehind(d) BY <2>1 DEF LeftBehind
    <3>5. Alone(d) BY DEF Inv
    <3> QED BY <2>1, <3>1, <3>3, <3>4, <3>5 DEF Alone, OnlySwitcher, client
  <2> QED BY <2>2, <2>5, <2>6
<1>2. \A d \in Call : Coherent(d)' /\ Placed(d)' /\ Holding(d)' /\ Alone(d)'
  BY <1>1 DEF Own
<1>3. RequestsCoherent' BY <1>2 DEF RequestsCoherent, Coherent
<1> QED BY <1>2, <1>3 DEF Inv, Own

\* When only c could hold the lock and c is not at work, it is free.
LEMMA FreeLock ==
  ASSUME Inv, NEW c \in Call, OnlySwitcher(c), ~AtWork(c)
  PROVE  lock = NoCall
<1>1. lock \in Call => Switching(lock) /\ AtWork(lock) BY DEF Inv, Holding
<1>2. lock \in Call => lock = c BY <1>1 DEF OnlySwitcher
<1> QED BY <1>1, <1>2 DEF Inv, TypeOK

\* What Alone(c) says before a step of c that has not ended.
LEMMA AloneBefore ==
  ASSUME Inv, NEW c \in Call, Moves(c), OnlySwitcher(c)', ~LeftBehind(c)
  PROVE  /\ OnlySwitcher(c)
         /\ lock = NoCall => config = Configured
         /\ pc[c] = "lock" \/ lock = c => saved[c] = Configured
<1>1. OnlySwitcher(c) BY DEF OnlySwitcher, Moves, Switching
<1> QED BY <1>1 DEF Inv, Alone, OnlySwitcher

----------------------------------------------------------------------------
(* Steps that leave the client alone *)

LEMMA QuietOwn ==
  ASSUME Inv, NEW c \in Call, Moves(c), UNCHANGED client,
         ~AtWork(c), ~LeftBehind(c), Placed(c)', Coherent(c)',
         ~(kind'[c] = "fallback" /\ AtWork(c)'),
         pc'[c] = "lock" => saved'[c] = config
  PROVE  Own(c)
<1>1. lock # c BY DEF Inv, Holding
<1>2. lock' # c /\ config' = config /\ lock' = lock /\ modelName' = Resolve(config')
  BY <1>1 DEF client, Inv
<1>3. Holding(c)' BY <1>2 DEF Holding
<1>4. Alone(c)'
  <2> SUFFICES ASSUME OnlySwitcher(c)'
               PROVE  /\ lock' = NoCall => config' = Configured
                      /\ pc'[c] = "lock" \/ lock' = c => saved'[c] = Configured
    BY DEF Alone, OnlySwitcher
  <2>1. /\ OnlySwitcher(c)
        /\ lock = NoCall => config = Configured
    BY AloneBefore
  <2>2. lock = NoCall BY <2>1, FreeLock
  <2> QED BY <1>2, <2>1, <2>2
<1> QED BY <1>2, <1>3, <1>4 DEF Own

LEMMA ArgumentsFit ==
  ASSUME Inv PROVE Fits(ApiKwargs(config, modelName)) /\ Usable(config)
BY ApiKwargsFits DEF Inv, TypeOK, Usable

LEMMA BeginKeeps ==
  ASSUME Inv, NEW c \in Call, Begins(c)
  PROVE  Inv'
<1>1. TypeOK /\ Placed(c) /\ Coherent(c) /\ Fits(ApiKwargs(config, modelName))
  BY ArgumentsFit DEF Inv, RequestsCoherent, Coherent
<1>2. pc[c] = "idle" /\ kind[c] = "none" BY <1>1 DEF Begins, Chat, ChatWithCache, ChatStream,
        Embed, ChatForTask, ChatWithFallback, Begin, At, Placed
<1>3. UNCHANGED <<client, charged, cached, untried>>
  BY DEF Begins, Chat, ChatWithCache, ChatStream,
        Embed, ChatForTask, ChatWithFallback, Begin
<1>4. PICK k \in Kinds, step \in {"queue", "look_up", "limit", "health", "lock"} :
        /\ kind' = [kind EXCEPT ![c] = k] /\ pc' = [pc EXCEPT ![c] = step]
        /\ step = "look_up" => k = "cached"
        /\ step = "limit" => k = "stream"
        /\ step = "health" => k \in {"task", "embed"}
        /\ step = "lock" <=> k = "fallback"
        /\ \/ request' = request
           \/ request' = [request EXCEPT ![c] = ApiKwargs(config, modelName)]
        /\ \/ saved' = saved /\ k # "fallback"
           \/ saved' = [saved EXCEPT ![c] = config]
  <2>0. config' = config /\ modelName' = modelName BY <1>3 DEF client
  <2>1. CASE Chat(c) BY <2>0, <2>1 DEF Chat, Begin, Ask, Goto, Kinds
  <2>2. CASE ChatWithCache(c) BY <2>2 DEF ChatWithCache, Begin, Goto, Kinds
  <2>3. CASE ChatStream(c) BY <2>3 DEF ChatStream, Begin, Goto, Kinds
  <2>4. CASE Embed(c) BY <2>4 DEF Embed, Begin, Goto, Kinds
  <2>5. CASE ChatForTask(c) BY <2>0, <2>5 DEF ChatForTask, Begin, Ask, Goto, Kinds
  <2>6. CASE ChatWithFallback(c) BY <2>6 DEF ChatWithFallback, Begin, Goto, Kinds
  <2> QED BY <2>1, <2>2, <2>3, <2>4, <2>5, <2>6 DEF Begins
<1>5. TypeOK'
  BY <1>1, <1>3, <1>4 DEF TypeOK, client, Awaits, Kinds, Fits
<1>6. Moves(c)
  BY <1>1, <1>2, <1>3, <1>4 DEF Moves, Switching, TypeOK
<1>7. Placed(c)' BY <1>1, <1>4 DEF Placed, TypeOK
<1>8. Coherent(c)'
  BY <1>1, <1>2, <1>4 DEF Coherent, TypeOK, Fits
<1>9. pc'[c] = step /\ kind'[c] = k BY <1>1, <1>4 DEF TypeOK
<1>10. ~(kind'[c] = "fallback" /\ AtWork(c)')
  BY <1>4, <1>9 DEF AtWork
<1>11. pc'[c] = "lock" => saved'[c] = config BY <1>1, <1>4, <1>9 DEF TypeOK
<1>12. ~AtWork(c) /\ ~LeftBehind(c) BY <1>2 DEF AtWork, LeftBehind
<1>13. UNCHANGED client BY <1>3
<1>14. Own(c) BY <1>6, <1>7, <1>8, <1>10, <1>11, <1>12, <1>13, QuietOwn
<1> QED BY <1>5, <1>14, OwnIsEnough

LEMMA EarlyKeeps ==
  ASSUME Inv, NEW c \in Call,
         LookUp(c) \/ Store(c) \/ OllamaIsDown(c) \/ OllamaIsUp(c) \/ Limit(c)
  PROVE  Inv'
<1>1. TypeOK /\ Placed(c) /\ Coherent(c) /\ Fits(ApiKwargs(config, modelName))
  BY ArgumentsFit DEF Inv, RequestsCoherent, Coherent
<1>2. /\ UNCHANGED <<client, kind, untried, charged>> /\ cached' \in BOOLEAN
      /\ pc[c] \in {"look_up", "store", "health", "limit"}
  BY <1>1 DEF LookUp, Store, OllamaIsDown, OllamaIsUp, Limit, TypeOK, At
<1> DEFINE Early(step, r) ==
        /\ pc' = [pc EXCEPT ![c] = step]
        /\ step = "queue" => kind[c] # "fallback"
        /\ step = "lock" => kind[c] = "task"
        /\ request' = request \/ request' = [request EXCEPT ![c] = r]
        /\ \/ Fits(r)
           \/ kind[c] = "embed" /\ (r.base = "ollama" <=> r.name.prefix = "ollama")
        /\ \/ saved' = saved /\ step # "lock"
           \/ saved' = [saved EXCEPT ![c] = config]
<1>3. PICK step \in {"done", "failed", "queue", "lock"}, r \in Requests : Early(step, r)
  <2> DEFINE args == ApiKwargs(config, modelName)
  <2>0. /\ config' = config /\ modelName' = modelName
        /\ args \in Requests /\ Fits(args)
    BY <1>1, <1>2 DEF client, Fits
  <2> SUFFICES \E step \in {"done", "failed", "queue", "lock"} :
                 Early(step, args) \/ \E r \in Requests : Early(step, r)
    BY <2>0
  <2>1. CASE LookUp(c)
    <3>1. kind[c] = "cached" BY <1>1, <2>1 DEF LookUp, At, Placed
    <3>2. CASE Goto(c, "done") /\ UNCHANGED request
      <4>1. Early("done", args) BY <2>0, <2>1, <3>2 DEF LookUp, Goto
      <4> QED BY <4>1
    <3>3. CASE Ask(c)
      <4>1. Early("queue", args) BY <2>0, <2>1, <3>1, <3>3 DEF LookUp, Ask, Goto
      <4> QED BY <4>1
    <3> QED BY <2>1, <3>2, <3>3 DEF LookUp
  <2>2. CASE Store(c)
    <3>1. Early("done", args) BY <2>0, <2>2 DEF Store, Goto
    <3> QED BY <3>1
  <2>3. CASE OllamaIsDown(c)
    <3>1. CASE kind[c] = "task"
      <4>1. Early("queue", args) BY <2>0, <2>3, <3>1 DEF OllamaIsDown, Ask, Goto
      <4> QED BY <4>1
    <3>2. CASE kind[c] # "task"
      <4>1. Early("done", args) BY <2>0, <2>3, <3>2 DEF OllamaIsDown, Goto
      <4> QED BY <4>1
    <3> QED BY <3>1, <3>2
  <2>4. CASE OllamaIsUp(c)
    <3>1. CASE kind[c] = "task"
      <4>1. Early("lock", args) BY <2>0, <2>4, <3>1 DEF OllamaIsUp, Goto
      <4> QED BY <4>1
    <3>2. CASE kind[c] # "task"
      <4> DEFINE r == [name |-> [prefix |-> "ollama", model |-> EmbeddingModel],
                       base |-> "ollama", key |-> HasKey /\ config.provider # "ollama"]
      <4>1. r \in Requests BY ConfigAssumption DEF Requests, Names
      <4>2. r.base = "ollama" /\ r.name.prefix = "ollama" OBVIOUS
      <4>3. kind[c] = "embed" BY <1>1, <2>4, <3>2 DEF OllamaIsUp, Placed, At
      <4>4. /\ pc' = [pc EXCEPT ![c] = "queue"] /\ saved' = saved
            /\ request' = [request EXCEPT ![c] = r]
        BY <2>4, <3>2 DEF OllamaIsUp, Goto
      <4> HIDE DEF r
      <4>5. Early("queue", r) BY <4>2, <4>3, <4>4
      <4> QED BY <4>1, <4>5
    <3> QED BY <3>1, <3>2
  <2>5. CASE Limit(c)
    <3>1. kind[c] = "stream" BY <1>1, <2>5 DEF Limit, At, Placed
    <3>2. Early("queue", args) \/ Early("failed", args) BY <2>0, <2>5, <3>1 DEF Limit, Goto
    <3> QED BY <3>2
  <2> QED BY <2>1, <2>2, <2>3, <2>4, <2>5
<1>4. TypeOK'
  <2>1. config \in {x \in Config : Supported(x.provider)} BY <1>1 DEF TypeOK
  <2>2. saved' \in [Call -> {x \in Config : Supported(x.provider)}]
    BY <1>1, <1>3, <2>1 DEF TypeOK
  <2>3. request' \in [Call -> Requests \cup {NoRequest}] BY <1>1, <1>3 DEF TypeOK
  <2>4. pc' \in [Call -> {"idle"} \cup Awaits \cup Ended]
    BY <1>1, <1>3 DEF TypeOK, Awaits, Ended
  <2> QED BY <1>1, <1>2, <2>2, <2>3, <2>4 DEF TypeOK, client
<1>5. Moves(c) BY <1>1, <1>2, <1>3 DEF Moves, Switching, TypeOK
<1>6. pc'[c] = step /\ kind'[c] = kind[c] BY <1>1, <1>2, <1>3 DEF TypeOK
<1>7. Placed(c)' BY <1>3, <1>6 DEF Placed
<1>8. Coherent(c)'
  <2>1. CASE request' = request BY <1>1, <1>6, <2>1 DEF Coherent
  <2>2. CASE request' = [request EXCEPT ![c] = r]
    <3>1. request'[c] = r BY <1>1, <2>2 DEF TypeOK
    <3> QED BY <1>3, <1>6, <3>1 DEF Coherent, Fits
  <2> QED BY <1>3, <2>1, <2>2
<1>9. ~(kind'[c] = "fallback" /\ AtWork(c)') BY <1>3, <1>6 DEF AtWork
<1>10. pc'[c] = "lock" => saved'[c] = config BY <1>1, <1>3, <1>6 DEF TypeOK
<1>11. ~AtWork(c) /\ ~LeftBehind(c) /\ UNCHANGED client
  BY <1>2 DEF AtWork, LeftBehind
<1>12. Own(c) BY <1>5, <1>7, <1>8, <1>9, <1>10, <1>11, QuietOwn
<1> QED BY <1>4, <1>12, OwnIsEnough

----------------------------------------------------------------------------
(* Steps of a call at work *)

\* A permit is taken, or the answer is charged: the client stays.
LEMMA WorkKeeps ==
  ASSUME Inv, NEW c \in Call, NEW step \in {"llm", "record"},
         pc[c] \in {"queue", "llm"}, pc' = [pc EXCEPT ![c] = step],
         \/ step = "llm" /\ charged' = charged
         \/ /\ step = "record"
            /\ charged' = [charged EXCEPT ![c] =
                 [provider |-> config.provider, name |-> ModelKey(modelName)]],
         UNCHANGED <<client, kind, request, saved, untried, cached>>
  PROVE  Inv'
<1> DEFINE charge == [provider |-> config.provider, name |-> ModelKey(modelName)]
<1>1. TypeOK /\ Coherent(c) /\ Holding(c) /\ Alone(c) /\ modelName = Resolve(config)
  BY DEF Inv, RequestsCoherent, Coherent
<1>2. charge \in Charges BY <1>1, ModelKeyTyped DEF TypeOK, Config, Charges
<1>3. charged' \in [Call -> Charges \cup {NoRequest}]
  BY <1>1, <1>2 DEF TypeOK
<1>4. TypeOK' BY <1>1, <1>3 DEF TypeOK, client, Awaits
<1>5. /\ pc'[c] = step /\ config' = config /\ modelName' = modelName /\ lock' = lock
      /\ kind'[c] = kind[c] /\ request'[c] = request[c] /\ saved'[c] = saved[c]
      /\ step = "record" => charged'[c] = charge
  BY <1>1 DEF TypeOK, client
<1>6. Moves(c) BY <1>1 DEF Moves, Switching, TypeOK
<1>7. Holding(c)'
  <2>1. lock = c => /\ Switching(c)
                    /\ request[c] = ApiKwargs(config, modelName)
                    /\ ModelKey(request[c].name) = ModelKey(modelName)
    BY <1>1 DEF Holding, ApiKwargs
  <2>2. AtWork(c) /\ AtWork(c)' BY <1>5 DEF AtWork
  <2> QED BY <1>1, <1>5, <2>1, <2>2 DEF Holding, Switching
<1>8. Alone(c)'
  <2>1. \A d \in Call : Switching(d)' <=> Switching(d) BY <1>1 DEF Switching, TypeOK
  <2>2. LeftBehind(c)' <=> LeftBehind(c) BY <1>5 DEF LeftBehind
  <2> QED BY <1>1, <1>5, <2>1, <2>2 DEF Alone
<1>9. Coherent(c)' /\ Placed(c)' BY <1>1, <1>5 DEF Coherent, Placed
<1> QED BY <1>1, <1>4, <1>5, <1>6, <1>7, <1>8, <1>9, OwnIsEnough DEF Own

\* A call ends, and releases the lock if it has it.
LEMMA EndKeeps ==
  ASSUME Inv, NEW c \in Call, NEW step \in {"done", "failed", "cancelled", "store"},
         pc[c] \in Awaits, pc' = [pc EXCEPT ![c] = step], Release(c),
         step = "failed" => kind[c] # "fallback",
         step = "store" => kind[c] = "cached",
         UNCHANGED <<kind, request, saved, untried, charged, cached>>
  PROVE  Inv'
<1>1. TypeOK /\ Coherent(c) /\ Holding(c) /\ modelName = Resolve(config)
  BY DEF Inv, RequestsCoherent, Coherent
<1>2. /\ lock' = IF lock = c THEN NoCall ELSE lock
      /\ Client(IF lock = c /\ kind[c] = "task" THEN saved[c] ELSE config)
      /\ Usable(saved[c]) /\ Usable(config)
  BY <1>1, ReleaseEffect
<1>3. Usable(config') /\ modelName' = Resolve(config') BY <1>2 DEF Client
<1>4. TypeOK'
  BY <1>1, <1>2, <1>3, ResolveFacts DEF TypeOK, Usable, Awaits, Ended
<1>5. pc'[c] = step /\ kind'[c] = kind[c] /\ saved'[c] = saved[c] /\ request'[c] = request[c]
  BY <1>1 DEF TypeOK
<1>6. lock' # c BY <1>2, ConfigAssumption
<1>7. Moves(c)
  <2>1. lock = c => Switching(c)' BY <1>1, <1>5 DEF Holding, Switching
  <2>2. lock # c => UNCHANGED client BY DEF Release
  <2> QED BY <1>1, <1>2, <2>1, <2>2 DEF Moves, Switching, TypeOK
<1>8. Coherent(c)' /\ Placed(c)' /\ Holding(c)'
  BY <1>1, <1>5, <1>6 DEF Coherent, Placed, Holding, AtWork
<1>9. Alone(c)'
  <2> SUFFICES ASSUME OnlySwitcher(c)', ~LeftBehind(c)'
               PROVE  lock' = NoCall => config' = Configured
    BY <1>5, <1>6 DEF Alone, OnlySwitcher
  <2>1. ~LeftBehind(c) BY DEF LeftBehind, Awaits
  <2>2. /\ lock = NoCall => config = Configured
        /\ lock = c => saved[c] = Configured
    BY <1>7, <2>1, AloneBefore
  <2>3. lock = c => kind[c] = "task"
    BY <1>1, <1>5 DEF LeftBehind, Holding, Switching
  <2> QED BY <1>2, <2>2, <2>3 DEF Client
<1> QED BY <1>3, <1>4, <1>7, <1>8, <1>9, OwnIsEnough DEF Own

\* The client is switched, under the lock, to what c asks for.
LEMMA SwitchKeeps ==
  ASSUME Inv, NEW c \in Call, Switching(c), pc[c] \in Awaits,
         \/ pc[c] = "lock" /\ lock = NoCall
         \/ lock = c,
         NEW x, Usable(x), Client(x), lock' = c,
         request' = [request EXCEPT ![c] = ApiKwargs(config', modelName')],
         pc' = [pc EXCEPT ![c] = "queue"], untried' \in [Call -> Seq(Providers)],
         UNCHANGED <<kind, saved, charged, cached>>
  PROVE  Inv'
<1>1. TypeOK BY DEF Inv
<1>2. /\ config' = x /\ modelName' = Resolve(x) /\ Resolve(x) \in Names
      /\ Fits(ApiKwargs(config', modelName'))
  BY ResolveFacts, ApiKwargsFits DEF Client, Usable
<1>3. TypeOK' BY <1>1, <1>2 DEF TypeOK, Usable, Fits, Awaits
<1>4. /\ pc'[c] = "queue" /\ kind'[c] = kind[c] /\ saved'[c] = saved[c]
      /\ request'[c] = ApiKwargs(config', modelName')
  BY <1>1 DEF TypeOK
<1>5. Moves(c) BY <1>1, <1>4 DEF Moves, Switching, TypeOK
<1>6. Coherent(c)' /\ Placed(c)' /\ Holding(c)'
  BY <1>2, <1>4 DEF Coherent, Placed, Holding, Switching, AtWork, Fits
<1>7. Alone(c)'
  <2> SUFFICES ASSUME OnlySwitcher(c)' PROVE saved'[c] = Configured
    BY <1>4, ConfigAssumption DEF Alone, OnlySwitcher
  <2>1. ~LeftBehind(c) BY DEF LeftBehind, Awaits
  <2> QED BY <1>4, <1>5, <2>1, AloneBefore
<1> QED BY <1>2, <1>3, <1>5, <1>6, <1>7, OwnIsEnough DEF Own

\* No provider is left: the client is restored and the lock released.
LEMMA GiveUpKeeps ==
  ASSUME Inv, NEW c \in Call, kind[c] = "fallback", pc[c] \in Awaits,
         \/ pc[c] = "lock" /\ lock = NoCall
         \/ lock = c,
         Client(saved[c]), lock' = NoCall, pc' = [pc EXCEPT ![c] = "failed"],
         UNCHANGED <<kind, request, saved, untried, charged, cached>>
  PROVE  Inv'
<1>1. TypeOK /\ Coherent(c) BY DEF Inv, RequestsCoherent, Coherent
<1>2. Usable(saved[c]) /\ config' = saved[c] /\ modelName' = Resolve(config')
  BY <1>1 DEF TypeOK, Usable, Client
<1>3. TypeOK' BY <1>1, <1>2, ResolveFacts DEF TypeOK, Usable, Ended
<1>4. pc'[c] = "failed" /\ kind'[c] = kind[c] /\ lock' # c
  BY <1>1, ConfigAssumption DEF TypeOK
<1>5. Moves(c) BY <1>1, <1>4 DEF Moves, Switching, TypeOK
<1>6. Coherent(c)' /\ Placed(c)' /\ Holding(c)'
  BY <1>1, <1>4 DEF Coherent, Placed, Holding, AtWork
<1>7. Alone(c)'
  <2> SUFFICES ASSUME OnlySwitcher(c)' PROVE config' = Configured
    BY <1>4 DEF Alone, OnlySwitcher
  <2>1. ~LeftBehind(c) BY DEF LeftBehind, Awaits
  <2> QED BY <1>2, <1>5, <2>1, AloneBefore
<1> QED BY <1>2, <1>3, <1>5, <1>6, <1>7, OwnIsEnough DEF Own

LEMMA LockKeeps ==
  ASSUME Inv, NEW c \in Call, LockForTask(c) \/ LockForFallback(c)
  PROVE  Inv'
<1>1. TypeOK BY DEF Inv
<1>2. CASE LockForTask(c)
  <2>1. Client(Local) /\ Usable(Local)
    BY <1>2, UsableConfigs DEF LockForTask, Switch, Client
  <2>2. /\ request' = [request EXCEPT ![c] = ApiKwargs(config', modelName')]
        /\ pc' = [pc EXCEPT ![c] = "queue"] /\ lock' = c /\ lock = NoCall
        /\ pc[c] = "lock" /\ Switching(c) /\ pc[c] \in Awaits
        /\ UNCHANGED <<kind, saved, untried, charged, cached>>
    BY <1>2 DEF LockForTask, Ask, Goto, At, Switching, Awaits
  <2>3. untried' \in [Call -> Seq(Providers)] BY <1>1, <2>2 DEF TypeOK
  <2> QED BY <2>1, <2>2, <2>3, SwitchKeeps
<1>3. CASE LockForFallback(c)
  <2> DEFINE providers == <<saved[c].provider>> \o Fallbacks
  <2>1. providers \in Seq(Providers)
    <3>1. saved[c].provider \in Providers BY <1>1 DEF TypeOK, Config
    <3>2. <<saved[c].provider>> \in Seq(Providers) BY <3>1
    <3> QED BY <3>2, ConcatProperties, ConfigAssumption
  <2>2. /\ pc[c] = "lock" /\ lock = NoCall /\ kind[c] = "fallback"
        /\ Switching(c) /\ pc[c] \in Awaits /\ TryNext(c, providers)
        /\ UNCHANGED <<kind, saved, charged, cached>>
    BY <1>3 DEF LockForFallback, At, Switching, Awaits
  <2> HIDE DEF providers
  <2> QED BY <1>1, <2>1, <2>2, TryNextEffect, SwitchKeeps, GiveUpKeeps
<1> QED BY <1>2, <1>3

LEMMA AnswerKeeps ==
  ASSUME Inv, NEW c \in Call,
         EnterSemaphore(c) \/ Answer(c) \/ Record(c) \/ Fail(c) \/ Cancel(c)
  PROVE  Inv'
<1>1. TypeOK /\ Holding(c) BY DEF Inv
<1>2. CASE EnterSemaphore(c)
  BY <1>2, WorkKeeps DEF EnterSemaphore, At, Goto
<1>3. ASSUME pc[c] \in Awaits, Return(c),
             UNCHANGED <<kind, request, saved, untried, charged, cached>>
      PROVE  Inv'
  BY <1>3, EndKeeps DEF Return, Goto
<1>4. CASE Answer(c)
  <2>1. pc[c] = "llm" /\ UNCHANGED <<kind, request, saved, untried, cached>>
    BY <1>4 DEF Answer, At
  <2>2. CASE Return(c) /\ UNCHANGED charged BY <1>3, <2>1, <2>2 DEF Awaits
  <2>3. CASE /\ charged' = [charged EXCEPT ![c] = [provider |-> config.provider,
                                                   name |-> ModelKey(modelName)]]
             /\ Goto(c, "record") /\ UNCHANGED client
    BY <2>1, <2>3, WorkKeeps DEF Goto
  <2> QED BY <1>4, <2>2, <2>3 DEF Answer
<1>5. CASE Record(c) BY <1>3, <1>5 DEF Record, At, Awaits
<1>6. CASE Fail(c)
  <2>1. pc[c] = "llm" /\ pc[c] \in Awaits /\ UNCHANGED <<kind, saved, charged, cached>>
    BY <1>6 DEF Fail, At, Awaits
  <2>2. CASE kind[c] = "fallback"
    <3>1. lock = c /\ Switching(c) BY <1>1, <2>1, <2>2 DEF Holding, AtWork, Switching
    <3>2. TryNext(c, untried[c]) /\ untried[c] \in Seq(Providers)
      BY <1>1, <1>6, <2>2 DEF Fail, TypeOK
    <3> QED BY <1>1, <2>1, <2>2, <3>1, <3>2, TryNextEffect, SwitchKeeps, GiveUpKeeps
  <2>3. CASE kind[c] # "fallback"
    <3>1. /\ Release(c) /\ UNCHANGED <<request, untried>>
          /\ pc' = [pc EXCEPT ![c] = IF kind[c] = "embed" THEN "done" ELSE "failed"]
      BY <1>6, <2>3 DEF Fail, Goto
    <3> QED BY <2>1, <2>3, <3>1, EndKeeps
  <2> QED BY <2>2, <2>3
<1>7. CASE Cancel(c) BY <1>7, EndKeeps DEF Cancel, Goto
<1> QED BY <1>2, <1>4, <1>5, <1>6, <1>7

----------------------------------------------------------------------------
(* The invariant *)

LEMMA InitInv == Init => Inv
<1> SUFFICES ASSUME Init PROVE Inv OBVIOUS
<1>1. Usable(Configured) BY UsableConfigs
<1>2. \A c \in Call : kind[c] = "none" /\ pc[c] = "idle" /\ request[c] = NoRequest
  BY DEF Init
<1>3. TypeOK
  <2>1. cached \in BOOLEAN BY Zenon DEF Init
  <2>2. Resolve(Configured) \in Names BY <1>1, ResolveFacts DEF Usable
  <2>3. <<>> \in Seq(Providers) OBVIOUS
  <2> QED BY <1>1, <2>1, <2>2, <2>3 DEF Init, TypeOK, Usable
<1>4. modelName = Resolve(config) /\ config = Configured /\ lock = NoCall BY DEF Init
<1>5. RequestsCoherent BY <1>2 DEF RequestsCoherent
<1>6. \A c \in Call : Placed(c) /\ Holding(c) /\ Alone(c)
  BY <1>2, <1>4, ConfigAssumption DEF Placed, Holding, Alone
<1> QED BY <1>3, <1>4, <1>5, <1>6 DEF Inv

LEMMA StepInv == Inv /\ [Next]_vars => Inv'
<1> SUFFICES ASSUME Inv, [Next]_vars PROVE Inv' OBVIOUS
<1>1. ASSUME NEW c \in Call, Begins(c) \/ Continues(c) \/ Cancel(c) PROVE Inv'
  BY <1>1, BeginKeeps, EarlyKeeps, LockKeeps, AnswerKeeps DEF Continues
<1>2. CASE UNCHANGED vars
  <2>1. /\ UNCHANGED <<config, modelName, lock, kind, pc, request, saved, untried, charged, cached>>
    BY <1>2 DEF vars, client
  <2> QED BY <2>1 DEF Inv, TypeOK, RequestsCoherent, Placed, Holding, Alone, Switching,
        AtWork, LeftBehind
<1> QED BY <1>1, <1>2 DEF Next, Done

THEOREM InductiveInvariant == Spec => []Inv
BY InitInv, StepInv, PTL DEF Spec

\* Types; the provider the client is switched to can always be resolved.
THEOREM TypeCorrect == Spec => []TypeOK
<1>1. Inv => TypeOK BY DEF Inv
<1> QED BY <1>1, InductiveInvariant, PTL

\* Whatever is switched while calls are under way, model name, address and
\* key of every request belong together (chat, chat_stream, embed).
THEOREM RequestsAreCoherent == Spec => []RequestsCoherent
<1>1. Inv => RequestsCoherent BY DEF Inv
<1> QED BY <1>1, InductiveInvariant, PTL

\* From the switch to the end of its call the holder of _config_lock has the
\* client to itself, whatever the calls without the lock do, and the model
\* the cost tracker is told is the one that was asked.
THEOREM LockHolderKeepsClient == Spec => []LockedCallsKeepClient
<1>1. Inv => LockedCallsKeepClient BY DEF Inv, Holding, LockedCallsKeepClient
<1> QED BY <1>1, InductiveInvariant, PTL

\* One call that switches, among any that do not, puts back what it found.
THEOREM LoneSwitcherRestores == Spec => []AloneRestores
<1>1. Inv => AloneRestores
  <2> SUFFICES ASSUME Inv, NEW c \in Call, Switchers = {c}, lock = NoCall,
                      kind[c] = "fallback" => pc[c] \notin {"done", "cancelled"}
               PROVE  config = Configured /\ modelName = Resolve(Configured)
    BY DEF AloneRestores
  <2>1. \A d \in Call : Switching(d) => d = c BY DEF Switchers, Switching
  <2>2. Alone(c) /\ modelName = Resolve(config) BY DEF Inv
  <2> QED BY <2>1, <2>2 DEF Alone, LeftBehind
<1> QED BY <1>1, InductiveInvariant, PTL
=============================================================================
