-------------------------------- MODULE Protocol -------------------------------
(***************************************************************************)
(* What becomes of a message between its JSON and the structure a handler  *)
(* gets: the types of the protocol (protocol.h), the deserializer that     *)
(* walks along a type (typeof.h, serialization.h,                          *)
(* nlohmann_json_serializer.cpp), the serializer, and the dispatch of a    *)
(* message to its handler (session.cpp).                                   *)
(*                                                                         *)
(* JSON is a record whose field `is' names its kind; only strings that     *)
(* something depends on have a text.  The structures of C++ are written    *)
(* the same way, with Absent for an optional without a value.  Absent also *)
(* stands for the NullDeserializer a missing field is read with.           *)
(***************************************************************************)
EXTENDS Sequences, FiniteSets, TLC

boolean == [is |-> "boolean"]
integer == [is |-> "integer"]
string  == [is |-> "string"]
any     == [is |-> "any"]           \* also dap::variant, which holds an any
Array(T)     == [is |-> "array", of |-> T]
Struct(name) == [is |-> "struct", name |-> name]

Required(names, T) == [n \in names |-> T]
Optional(names, T) == [n \in names |-> [is |-> "optional", of |-> T]]

-----------------------------------------------------------------------------
(***************************************************************************)
(* The structures the adapter reads or writes, field by field.             *)
(***************************************************************************)
Checksum == Required({"algorithm", "checksum"}, string)

Source == Optional({"name", "origin", "path", "presentationHint"}, string)
            @@ Optional({"sourceReference"}, integer) @@ Optional({"adapterData"}, any)
            @@ Optional({"checksums"}, Array(Struct("Checksum")))
            @@ Optional({"sources"}, Array(Struct("Source")))

Breakpoint == Optional({"column", "endColumn", "endLine", "id", "line", "offset"}, integer)
                @@ Optional({"instructionReference", "message"}, string)
                @@ Optional({"source"}, Struct("Source")) @@ Required({"verified"}, boolean)

SourceBreakpoint == Optional({"column"}, integer) @@ Required({"line"}, integer)
                      @@ Optional({"condition", "hitCondition", "logMessage"}, string)

StackFrame == Optional({"canRestart"}, boolean) @@ Optional({"moduleId"}, any)
                @@ Required({"column", "id", "line"}, integer) @@ Required({"name"}, string)
                @@ Optional({"endColumn", "endLine"}, integer)
                @@ Optional({"instructionPointerReference", "presentationHint"}, string)
                @@ Optional({"source"}, Struct("Source"))

Scope == Optional({"column", "endColumn", "endLine", "indexedVariables", "line",
                   "namedVariables"}, integer)
           @@ Required({"expensive"}, boolean) @@ Required({"name"}, string)
           @@ Optional({"presentationHint"}, string) @@ Optional({"source"}, Struct("Source"))
           @@ Required({"variablesReference"}, integer)

VariablePresentationHint == Optional({"attributes"}, Array(string))
                              @@ Optional({"kind", "visibility"}, string)

Variable == Optional({"evaluateName", "memoryReference", "type"}, string)
              @@ Required({"name", "value"}, string)
              @@ Optional({"indexedVariables", "namedVariables"}, integer)
              @@ Optional({"presentationHint"}, Struct("VariablePresentationHint"))
              @@ Required({"variablesReference"}, integer)

Thread == Required({"id"}, integer) @@ Required({"name"}, string)

ColumnDescriptor == Required({"attributeName", "label"}, string)
                      @@ Optional({"format", "type"}, string) @@ Optional({"width"}, integer)

ExceptionBreakpointsFilter == Required({"filter", "label"}, string)
                                @@ Optional({"conditionDescription", "description"}, string)
                                @@ Optional({"default", "supportsCondition"}, boolean)

ValueFormat == Optional({"hex"}, boolean)

StackFrameFormat ==    \* `hex', of its base ValueFormat, is not among the fields
  Optional({"includeAll", "line", "module", "parameterNames", "parameterTypes",
            "parameterValues", "parameters"}, boolean)

-----------------------------------------------------------------------------
(***************************************************************************)
(* Requests.                                                               *)
(***************************************************************************)
InitializeRequest ==
  Required({"adapterID"}, string)
    @@ Optional({"clientID", "clientName", "locale", "pathFormat"}, string)
    @@ Optional({"columnsStartAt1", "linesStartAt1", "supportsInvalidatedEvent",
                 "supportsMemoryReferences", "supportsProgressReporting",
                 "supportsRunInTerminalRequest", "supportsVariablePaging",
                 "supportsVariableType"}, boolean)

M65LaunchRequest == Optional({"program", "serialPort"}, string) @@ Optional({"__restart"}, any)
                      @@ Optional({"noDebug", "resetBeforeRun", "resetAfterDisconnect"}, boolean)

NoFields == << >>
ConfigurationDoneRequest == NoFields
ThreadsRequest           == NoFields

DisconnectRequest == Optional({"restart", "terminateDebuggee"}, boolean)

SetBreakpointsRequest == Optional({"breakpoints"}, Array(Struct("SourceBreakpoint")))
                           @@ Optional({"lines"}, Array(integer))
                           @@ Required({"source"}, Struct("Source"))
                           @@ Optional({"sourceModified"}, boolean)

PauseRequest    == Required({"threadId"}, integer)
ContinueRequest == Required({"threadId"}, integer)
NextRequest     == Required({"threadId"}, integer) @@ Optional({"granularity"}, string)

StackTraceRequest == Optional({"format"}, Struct("StackFrameFormat"))
                       @@ Optional({"levels", "startFrame"}, integer)
                       @@ Required({"threadId"}, integer)

ScopesRequest == Required({"frameId"}, integer)

SourceRequest == Optional({"source"}, Struct("Source"))
                   @@ Required({"sourceReference"}, integer)

VariablesRequest == Optional({"count", "start"}, integer) @@ Optional({"filter"}, string)
                      @@ Optional({"format"}, Struct("ValueFormat"))
                      @@ Required({"variablesReference"}, integer)

EvaluateRequest == Optional({"context"}, string) @@ Required({"expression"}, string)
                     @@ Optional({"format"}, Struct("ValueFormat"))
                     @@ Optional({"frameId"}, integer)

-----------------------------------------------------------------------------
(***************************************************************************)
(* Responses with a body, and events.                                      *)
(***************************************************************************)
InitializeResponse ==
  Optional({"supportTerminateDebuggee", "supportsBreakpointLocationsRequest",
            "supportsCancelRequest", "supportsClipboardContext", "supportsCompletionsRequest",
            "supportsConditionalBreakpoints", "supportsConfigurationDoneRequest",
            "supportsDataBreakpoints", "supportsDelayedStackTraceLoading",
            "supportsDisassembleRequest", "supportsEvaluateForHovers",
            "supportsExceptionFilterOptions", "supportsExceptionInfoRequest",
            "supportsExceptionOptions", "supportsFunctionBreakpoints",
            "supportsGotoTargetsRequest", "supportsHitConditionalBreakpoints",
            "supportsInstructionBreakpoints", "supportsLoadedSourcesRequest",
            "supportsLogPoints", "supportsModulesRequest", "supportsReadMemoryRequest",
            "supportsRestartFrame", "supportsRestartRequest", "supportsSetExpression",
            "supportsSetVariable", "supportsStepBack", "supportsStepInTargetsRequest",
            "supportsSteppingGranularity", "supportsTerminateRequest",
            "supportsTerminateThreadsRequest", "supportsValueFormattingOptions"}, boolean)
    @@ Optional({"completionTriggerCharacters", "supportedChecksumAlgorithms"}, Array(string))
    @@ Optional({"additionalModuleColumns"}, Array(Struct("ColumnDescriptor")))
    @@ Optional({"exceptionBreakpointFilters"}, Array(Struct("ExceptionBreakpointsFilter")))

SetBreakpointsResponse == Required({"breakpoints"}, Array(Struct("Breakpoint")))
ContinueResponse       == Optional({"allThreadsContinued"}, boolean)
ThreadsResponse        == Required({"threads"}, Array(Struct("Thread")))
StackTraceResponse     == Required({"stackFrames"}, Array(Struct("StackFrame")))
                            @@ Optional({"totalFrames"}, integer)
ScopesResponse         == Required({"scopes"}, Array(Struct("Scope")))
SourceResponse         == Required({"content"}, string) @@ Optional({"mimeType"}, string)
VariablesResponse      == Required({"variables"}, Array(Struct("Variable")))

EvaluateResponse == Optional({"indexedVariables", "namedVariables"}, integer)
                      @@ Optional({"memoryReference", "type"}, string)
                      @@ Optional({"presentationHint"}, Struct("VariablePresentationHint"))
                      @@ Required({"result"}, string) @@ Required({"variablesReference"}, integer)

StoppedEvent == Optional({"allThreadsStopped", "preserveFocusHint"}, boolean)
                  @@ Optional({"description", "text"}, string) @@ Required({"reason"}, string)
                  @@ Optional({"hitBreakpointIds"}, Array(integer))
                  @@ Optional({"threadId"}, integer)

OutputEvent == Optional({"category", "group"}, string) @@ Optional({"data"}, any)
                 @@ Optional({"column", "line", "variablesReference"}, integer)
                 @@ Required({"output"}, string) @@ Optional({"source"}, Struct("Source"))

-----------------------------------------------------------------------------
(***************************************************************************)
(* The structures that are parts of others, by name.                       *)
(***************************************************************************)
Parts == [Checksum |-> Checksum, Source |-> Source, Breakpoint |-> Breakpoint,
          SourceBreakpoint |-> SourceBreakpoint, StackFrame |-> StackFrame, Scope |-> Scope,
          VariablePresentationHint |-> VariablePresentationHint, Variable |-> Variable,
          Thread |-> Thread, ColumnDescriptor |-> ColumnDescriptor,
          ExceptionBreakpointsFilter |-> ExceptionBreakpointsFilter, ValueFormat |-> ValueFormat,
          StackFrameFormat |-> StackFrameFormat]

(***************************************************************************)
(* The requests a handler is registered for, under the names they come by. *)
(***************************************************************************)
Handled == [initialize |-> InitializeRequest, launch |-> M65LaunchRequest,
            configurationDone |-> ConfigurationDoneRequest, threads |-> ThreadsRequest,
            disconnect |-> DisconnectRequest, setBreakpoints |-> SetBreakpointsRequest,
            pause |-> PauseRequest, continue |-> ContinueRequest, next |-> NextRequest,
            stackTrace |-> StackTraceRequest, scopes |-> ScopesRequest,
            source |-> SourceRequest, variables |-> VariablesRequest,
            evaluate |-> EvaluateRequest]

Sent == [initialize |-> InitializeResponse, setBreakpoints |-> SetBreakpointsResponse,
         continue |-> ContinueResponse, threads |-> ThreadsResponse,
         stackTrace |-> StackTraceResponse, scopes |-> ScopesResponse,
         source |-> SourceResponse, variables |-> VariablesResponse,
         evaluate |-> EvaluateResponse, configurationDone |-> NoFields,
         stopped |-> StoppedEvent, output |-> OutputEvent]

-----------------------------------------------------------------------------
Absent == [is |-> "absent"]
Bad    == [is |-> "bad"]
Object(fields)  == [is |-> "object", fields |-> fields]
List(elements)  == [is |-> "array", elements |-> elements]
Text(s)         == [is |-> "string", text |-> s]

Scalars == {"boolean", "integer", "float", "string", "null"}

Field(j, n) == IF j.is = "object" /\ n \in DOMAIN j.fields THEN j.fields[n] ELSE Absent

(***************************************************************************)
(* Deserializer::deserialize(): Bad, or the value that is stored.  A       *)
(* structure without fields never looks at its JSON.  An optional does not *)
(* fail: a value that is not of its type is a value that is not there.     *)
(***************************************************************************)
RECURSIVE Decode(_, _)

DecodeFields(fields, j) ==
  LET v == [n \in DOMAIN fields |-> Decode(fields[n], Field(j, n))] IN
  CASE fields = NoFields                       -> Object(NoFields)
    [] fields # NoFields /\ j.is \notin {"object", "array"} -> Bad
    [] OTHER -> IF \E n \in DOMAIN v : v[n] = Bad THEN Bad ELSE Object(v)

DecodeArray(T, j) ==
  LET v == [i \in DOMAIN j.elements |-> Decode(T, j.elements[i])]
  IN IF \E i \in DOMAIN v : v[i] = Bad THEN Bad ELSE List(v)

DecodeOptionalOrFail(T, j) ==    \* mutant: what is there and wrong is an error
  IF j = Absent THEN Absent ELSE Decode(T, j)

DecodeOptional(T, j) == IF Decode(T, j) = Bad THEN Absent ELSE Decode(T, j)

Decode(T, j) ==
  CASE T.is \in {"boolean", "integer", "string"} -> IF j.is = T.is THEN j ELSE Bad
    [] T.is = "any"      -> IF j.is \in Scalars THEN j ELSE Bad
    [] T.is = "array"    -> IF j.is = "array" THEN DecodeArray(T.of, j) ELSE Bad
    [] T.is = "struct"   -> DecodeFields(Parts[T.name], j)
    [] T.is = "optional" -> DecodeOptional(T.of, j)

(***************************************************************************)
(* Serializer::serialize(): an optional without a value is removed.        *)
(***************************************************************************)
RECURSIVE Encode(_)
Encode(v) ==
  CASE v.is = "object" -> Object([n \in {m \in DOMAIN v.fields : v.fields[m] # Absent}
                                    |-> Encode(v.fields[n])])
    [] v.is = "array"  -> List([i \in DOMAIN v.elements |-> Encode(v.elements[i])])
    [] OTHER           -> v

-----------------------------------------------------------------------------
(***************************************************************************)
(* processMessage(): the command and the arguments a handler is called     *)
(* with, or Bad when the error handler is.                                 *)
(***************************************************************************)
HasFields(m, strings, integers) ==
  /\ \A n \in strings  : Field(m, n).is = "string"
  /\ \A n \in integers : Field(m, n).is = "integer"

ProcessRequest(m) ==
  IF HasFields(m, {"command"}, {}) /\ Field(m, "command").text \in DOMAIN Handled
  THEN LET command == Field(m, "command").text
           args    == DecodeFields(Handled[command], Field(m, "arguments"))
       IN IF args = Bad THEN Bad ELSE [is |-> "call", command |-> command, args |-> args]
  ELSE Bad

ProcessMessage(m) ==
  IF HasFields(m, {"type"}, {"seq"}) /\ Field(m, "type").text = "request"
  THEN ProcessRequest(m)
  ELSE Bad
=============================================================================
