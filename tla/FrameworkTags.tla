--------------------------- MODULE FrameworkTags ---------------------------
(***************************************************************************)
(* The framework tags of a node.  FrameworkTagger.tag_all gives every node *)
(* of a file the tags its language's strategy finds, after the parser of   *)
(* Vue files has given its own; they are stored with the node, and the     *)
(* call graph reads them.  A name that reads like a hook (use[A-Z]), like  *)
(* a handler or like a context is a member of a constant set.              *)
(***************************************************************************)
EXTENDS NodeExtraction

CONSTANTS HookNames,     \* names that begin with "use" and a capital
          HandlerNames,  \* names with "Handler" in them
          ContextNames   \* words of qualified names with "Context" in them

ComponentApiCalls == {"defineProps", "defineEmits", "defineExpose", "withDefaults"}
ComposableCalls   == {"ref", "reactive", "computed", "watch", "watchEffect", "readonly",
                      "shallowRef", "shallowReactive", "shallowReadonly", "toRef", "toRefs",
                      "markRaw", "customRef"}
LifecycleCalls    == {"onMounted", "onUnmounted", "onCreated", "onBeforeMount",
                      "onBeforeUnmount", "onBeforeUpdate", "onUpdated", "onActivated",
                      "onDeactivated", "onErrorCaptured", "onRenderTracked",
                      "onRenderTriggered", "onServerPrefetch"}
LifecycleMethods  == {"mounted", "created", "beforeMount", "beforeCreate", "beforeUpdate",
                      "updated", "beforeUnmount", "unmounted", "activated", "deactivated",
                      "errorCaptured"}

SpringTags ==
  [annotation \in {"@RestController", "@Controller"} |-> "http-controller"]
  @@ [annotation \in {"@Autowired", "@Inject"} |-> "dependency-injection"]
  @@ [annotation \in {"@RequestMapping", "@GetMapping", "@PostMapping", "@PutMapping",
                      "@DeleteMapping", "@PatchMapping"} |-> "api-endpoint"]
  @@ ("@Service" :> "business-service") @@ ("@Repository" :> "data-repository")
  @@ ("@Component" :> "spring-component") @@ ("@Configuration" :> "spring-config")
  @@ ("@Bean" :> "spring-bean") @@ ("@Aspect" :> "spring-aspect")
  @@ ("@Transactional" :> "transactional") @@ ("@Scheduled" :> "scheduled-task")
  @@ ("@SpringBootApplication" :> "spring-boot-app")

(* A decorator counts by how it begins; the constant names the beginning.  *)
DecoratorTags ==
  [decorator \in {"@app.route", "@bp.route"} |-> "flask-route"]
  @@ [decorator \in {"@app.get", "@app.post", "@app.put", "@app.delete", "@router.get",
                     "@router.post", "@router.put", "@router.delete"} |-> "fastapi-route"]
  @@ [decorator \in {"@celery.task", "@shared_task"} |-> "celery-task"]
  @@ [decorator \in {"@lru_cache", "@cache"} |-> "cached-function"]
  @@ [decorator \in {"@staticmethod", "@classmethod"} |-> "static-method"]
  @@ ("@property" :> "property") @@ ("@contextmanager" :> "context-manager")

(* A hook is a function; a component would be one with jsx below it, but   *)
(* no parser fills the children the strategy looks through.                *)
ScriptTags(node) ==
  (IF node.type = "function" /\ node.name \in HookNames THEN {"react-hook"} ELSE {})
  \cup (IF node.type = "call" /\ node.name = "createContext" THEN {"react-context"} ELSE {})

(* VueParser._tag_setup_nodes, then the strategy of Vue. *)
VueTags(node) ==
  CASE node.type = "call" ->
         (IF node.name \in ComponentApiCalls THEN {"vue-component-api"}
          ELSE IF node.name \in ComposableCalls THEN {"vue-composable"}
          ELSE IF node.name \in LifecycleCalls THEN {"vue-lifecycle"} ELSE {})
         \cup (IF node.name = "defineComponent" THEN {"vue-component"} ELSE {})
    [] node.type = "function" ->
         IF node.name \in HookNames THEN {"vue-composable"} ELSE {"vue-component"}
    [] node.type = "object_method" ->
         IF node.name \in LifecycleMethods THEN {"vue-lifecycle"} ELSE {}
    [] OTHER -> {}

JavaTags(node) == {SpringTags[a] : a \in node.ann \cap DOMAIN SpringTags}

(* A decorator of Python never reaches the node (Annotations), so that no   *)
(* Python node has a tag in the end.                                       *)
PythonTags(node) == {DecoratorTags[a] : a \in node.ann \cap DOMAIN DecoratorTags}

GoTags(node) ==
  IF node.type = "method" /\ (Range(node.qn) \cap ContextNames # {} \/ node.name \in HandlerNames)
  THEN {"http-handler"} ELSE {}

TagsOf(lang, node) ==
  CASE lang \in {"typescript", "javascript"} -> ScriptTags(node)
    [] lang = "vue"  -> VueTags(node)
    [] lang = "java" -> JavaTags(node)
    [] lang = "python" -> PythonTags(node)
    [] lang = "go"   -> GoTags(node)
    [] OTHER         -> {}
=============================================================================
