-------------------------------- MODULE Knobs --------------------------------
(****************************************************************************)
(* The knobs of a harness a model may not take (core/knobs.ts): what the    *)
(* server says of the model (serverInfo of each adapter), what the run then *)
(* leaves out or refuses, what the request carries (core/run.ts, and        *)
(* buildPayload of each adapter), the request that writes a run's notes     *)
(* (core/notes-run.ts), and the check of the server before a bench          *)
(* (core/preflight.ts).                                                     *)
(*                                                                          *)
(* A knob's value is abstracted to a number, 0 where it is absent.          *)
(****************************************************************************)
EXTENDS Integers, FiniteSets, Sequences

Knob == {"temperature", "maxTokens", "think", "reasoningEffort", "tools", "responseSchema"}
Absent == 0
Usual == 1    \* the harness's own value of a knob
Hot == 2      \* the value for the turn after a repeat
Cap == 3      \* the model's own cap on a reply

(* ---- core/config.ts: the harnesses a run accepts ---- *)

HarnessConfig ==
  [kind : {"openai", "ollama", "anthropic"}, apiKeyEnv : BOOLEAN, clear : BOOLEAN,
   maxTokens : {Absent, Usual}, think : {"absent", "on", "off"}, reasoningEffort : {Absent, Usual},
   repeatTemperature : {Absent, Hot}, repeatThinkTokens : {Absent, Hot},
   mode : {"native", "json", "hermes"}, enforceSchema : BOOLEAN, tools : {"none", "built-in", "mcp"}]

\* clear: plain http to another machine.
keyErrors(c) ==
  c.apiKeyEnv /\ \/ c.kind \notin {"openai", "anthropic"}
                 \/ c.clear
                 \/ c.think # "absent" /\ c.kind = "openai"
backendErrors(c) ==
  \/ keyErrors(c)
  \/ c.kind = "anthropic" /\ ~c.apiKeyEnv
  \/ c.reasoningEffort # Absent /\ c.kind # "openai"
  \/ c.kind = "anthropic" /\ c.mode # "native" /\ c.enforceSchema

(* ---- what the server says of the model ---- *)

\* never: the knobs it said the model does not take.
Unknown == [known |-> FALSE, never |-> {}, maxOutput |-> Absent]
Says(never, maxOutput) == [known |-> TRUE, never |-> never, maxOutput |-> maxOutput]

\* OpenRouter: what its list names for the model; a parameter it lacks is taken by
\* no provider.  No list of parameters, or no such model, is unknown.
listedInfo(entry) ==
  IF ~entry.listed THEN Says({}, Absent)
  ELSE Says({k \in {"temperature", "maxTokens", "reasoningEffort", "tools"} : k \notin entry.params}
              \cup {k \in {"responseSchema"} : entry.params \cap {"response_format", "structured_outputs"} = {}}, Absent)
Entries ==
  {[listed |-> FALSE, params |-> {}]}
    \cup [listed : {TRUE}, params : SUBSET {"temperature", "maxTokens", "reasoningEffort", "tools", "structured_outputs"}]
ollamaInfo(capabilities) == Says({k \in {"tools", "think"} : k \notin capabilities}, Absent)
anthropicInfo(schemas, maxOutput) == Says({"temperature"} \cup (IF schemas THEN {} ELSE {"responseSchema"}), maxOutput)

\* A run asks no keyless OpenAI server; any other may fail to answer.
Infos(c) ==
  CASE c.kind = "openai" /\ c.apiKeyEnv -> {Unknown} \cup {listedInfo(e) : e \in Entries}
    [] c.kind = "openai" /\ ~c.apiKeyEnv -> {Unknown}
    [] c.kind = "ollama" -> {Unknown, Says({}, Absent)} \cup {ollamaInfo(s) : s \in SUBSET {"tools", "think"}}
    [] c.kind = "anthropic" -> {Unknown} \cup {anthropicInfo(s, n) : s \in BOOLEAN, n \in {Absent, Cap}}

(* ---- core/knobs.ts ---- *)

hasTools(c) == c.tools # "none"
sendsSchema(c, answerSchema) ==
  c.enforceSchema /\ IF c.mode = "native" THEN ~hasTools(c) /\ answerSchema ELSE c.mode # "hermes"
\* Whether a run may send the schema of an answer at all.
sendsAnswerSchema(c) == c.mode = "native" /\ c.enforceSchema /\ ~hasTools(c)

knobsOff(c, info, answerSchema) ==
  LET set == {"temperature"} \cup {k \in {"repeatTemperature", "maxTokens", "reasoningEffort"} : c[k] # Absent}
               \cup {k \in {"think"} : c.think # "absent"} \cup {k \in {"repeatThinkTokens"} : c.repeatThinkTokens # Absent}
      needs(k) == CASE k = "repeatTemperature" -> {"temperature"}
                    [] k = "repeatThinkTokens" -> {"think", "maxTokens"}
                    [] OTHER -> {k}
  IN [off |-> {k \in set : needs(k) \cap info.never # {}},
      refuse |-> CASE "tools" \in info.never /\ c.mode = "native" /\ hasTools(c) -> "tools"
                   [] "responseSchema" \in info.never /\ sendsSchema(c, answerSchema) -> "schema"
                   [] c.kind = "anthropic" /\ c.maxTokens = Absent /\ info.maxOutput = Absent -> "maxTokens"
                   [] OTHER -> "none"]

(* ---- one request ---- *)

\* run.ts: schemas is whether there is a tool in the end, repeated a turn after a repeat.
request(c, info, answerSchema, schemas, repeated) ==
  LET takes(k) == k \notin info.never
      thinks == repeated /\ c.repeatThinkTokens # Absent
      cap == IF c.kind = "anthropic" /\ c.maxTokens = Absent THEN info.maxOutput ELSE c.maxTokens
      native == c.mode = "native"
  IN [temperature |-> IF ~takes("temperature") THEN Absent
                      ELSE IF repeated /\ c.repeatTemperature # Absent THEN c.repeatTemperature ELSE Usual,
      maxTokens |-> IF ~takes("maxTokens") THEN Absent ELSE IF thinks THEN c.repeatThinkTokens ELSE cap,
      think |-> IF c.think = "absent" \/ ~takes("think") THEN "absent" ELSE IF thinks THEN "on" ELSE c.think,
      reasoningEffort |-> IF takes("reasoningEffort") THEN c.reasoningEffort ELSE Absent,
      tools |-> IF native /\ schemas THEN Usual ELSE Absent,
      responseSchema |-> IF c.enforceSchema /\ IF native THEN ~schemas /\ answerSchema ELSE c.mode = "json"
                         THEN Usual ELSE Absent]

\* The knobs the body names, with their values: Anthropic's has no temperature, and
\* only OpenAI's has an effort.
bodyOf(c, req) ==
  LET without(S) == [k \in Knob |-> IF k \in S THEN (IF k = "think" THEN "absent" ELSE Absent) ELSE req[k]]
  IN CASE c.kind = "openai" -> req
       [] c.kind = "ollama" -> without({"reasoningEffort"})
       [] c.kind = "anthropic" -> [without({"temperature", "reasoningEffort"}) EXCEPT !.think = IF @ = "off" THEN "off" ELSE "on"]
named(body) == {k \in Knob : IF k = "think" THEN body.think # "absent" ELSE body[k] # Absent}

(* ---- core/notes-run.ts ---- *)

WriterCap == 4    \* 1024 tokens, where a harness sets none
\* It reads what is off in the run's own knobs_off event.
writerRequest(c, info, answerSchema) ==
  LET takes(k) == k \notin knobsOff(c, info, answerSchema).off
  IN [temperature |-> IF takes("temperature") THEN Usual ELSE Absent,
      maxTokens |-> IF ~takes("maxTokens") THEN Absent ELSE IF c.maxTokens # Absent THEN c.maxTokens ELSE WriterCap,
      think |-> IF takes("think") THEN c.think ELSE "absent",
      reasoningEffort |-> IF takes("reasoningEffort") THEN c.reasoningEffort ELSE Absent,
      tools |-> Absent,
      responseSchema |-> IF c.enforceSchema THEN Usual ELSE Absent]

(* ---- core/preflight.ts ---- *)

\* OpenRouter's routing shortcuts go; Ollama's names without a tag have ":latest".
withoutVariant(model) == [model EXCEPT !.suffix = ""]
latest(model) == IF model.suffix = "" THEN [model EXCEPT !.suffix = "latest"] ELSE model

\* partial: the list goes on past what was sent.
preflight(kind, keyed, router, model, models, partial) ==
  IF keyed THEN partial \/ {model, withoutVariant(model)} \cap models # {}
  ELSE IF kind = "ollama" THEN {model, latest(model)} \cap models # {}
  ELSE router => model \in models

\* The entry of the list a model's knobs are read from.
entryOf(model, models) ==
  IF model \in models THEN {model} ELSE {withoutVariant(model)} \cap models

windowWarning(budget, cap, window) == budget # 0 /\ window # 0 /\ budget + cap > window

(* ---- what must hold ---- *)

Accepted == {c \in HarnessConfig : ~backendErrors(c)}

\* What a harness sets and a request lacks without a word: the temperature on an
\* Anthropic API that did not answer when it was asked of the model.
Untold(c, info, k) == k \in {"temperature", "repeatTemperature"} /\ c.kind = "anthropic" /\ ~info.known
\* The schema of an answer goes out where the servers of a harness offer no tool,
\* and knobsOff took them for tools.
EmptyServers(c, schemas) == c.tools = "mcp" /\ ~schemas

\* What the writer's request names that the server said the model does not take:
\* a schema, which no knobs_off tells of, and a cap, which is not off where the
\* harness set none.
WriterNames(c) == {"responseSchema"} \cup {k \in {"maxTokens"} : c.maxTokens = Absent}

\* In any turn of a run that was not refused: nothing is sent that the server said
\* the model does not take; each knob the harness sets is sent with its value or
\* was told to be off; what is off is not sent; and on an API that needs a cap
\* there is one (knobs.ts:8-10, run.ts:112-118).  The writer of notes asks as a turn
\* that followed no repeat did (notes-run.ts:87-103).
KnobsTold ==
  \A c \in Accepted, answerSchema \in BOOLEAN, repeated \in BOOLEAN :
    \A info \in Infos(c), schemas \in (IF c.tools = "mcp" THEN BOOLEAN ELSE {hasTools(c)}) :
      LET told == knobsOff(c, info, answerSchema)
          body == bodyOf(c, request(c, info, answerSchema, schemas, repeated))
          lacks(k, is) == is \/ k \in told.off \/ Untold(c, info, k)
      IN told.refuse = "none" =>
           /\ named(body) \cap info.never \subseteq (IF EmptyServers(c, schemas) THEN {"responseSchema"} ELSE {})
           /\ told.off \cap named(body) = {}
           /\ lacks("temperature", body.temperature # Absent)
           /\ c.repeatTemperature # Absent /\ repeated => lacks("repeatTemperature", body.temperature = Hot)
           /\ c.maxTokens # Absent => lacks("maxTokens", body.maxTokens # Absent)
           /\ c.repeatThinkTokens # Absent /\ repeated =>
                lacks("repeatThinkTokens", body.maxTokens = Hot /\ body.think # "off")
           /\ c.think # "absent" => lacks("think", body.think \in {c.think} \cup (IF repeated THEN {"on"} ELSE {}))
           /\ c.reasoningEffort # Absent => lacks("reasoningEffort", body.reasoningEffort = Usual)
           /\ c.kind = "anthropic" => body.maxTokens # Absent
           /\ answerSchema /\ sendsAnswerSchema(c) => body.responseSchema # Absent
           /\ LET writer == bodyOf(c, writerRequest(c, info, answerSchema))
              IN /\ named(writer) \cap info.never \subseteq WriterNames(c)
                 /\ writer.maxTokens # Absent \/ "maxTokens" \in told.off
                 /\ ~repeated => \A k \in {"temperature", "think", "reasoningEffort"} : writer[k] = body[k]

Models == [name : {"m", "n"}, suffix : {"", "latest", "free"}]

\* A hosted model that passes the check of a whole list has the entry its knobs are
\* read from; one that a local server has under the very name passes
\* (preflight.ts:18-42, openai.ts:184).
PreflightAgrees ==
  \A model \in Models, models \in SUBSET Models :
    /\ preflight("openai", TRUE, FALSE, model, models, FALSE) <=> entryOf(model, models) # {}
    /\ model \in models => \A kind \in {"openai", "ollama"}, router \in BOOLEAN : preflight(kind, FALSE, router, model, models, FALSE)
=============================================================================
