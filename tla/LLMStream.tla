------------------------------ MODULE LLMStream ------------------------------
(***************************************************************************)
(* A streamed model call: the provider's events, the generator             *)
(* LLMRouter.stream_events that turns them into StreamEvents, and the      *)
(* transport that carries these to the client: the WebSocket of            *)
(* api/routes/llm_stream.py, which sends as it goes, or the gRPC method    *)
(* StreamLLM, which collects everything first.  A frame is [kind, id].     *)
(***************************************************************************)
EXTENDS Naturals, Sequences, SequencesExt

CONSTANTS ToolIds,        \* tool calls a provider may open
          MaxStreamEvents \* bound: events of a provider before it ends

VARIABLES
  stream,   \* the generator: provider, phase, whether a chunk came, events so far
  open,     \* tool_names / tool_states: the tool calls that are open
  frames,   \* what the transport has been handed
  client    \* the transport: "ws" or "grpc", and "gone" after a disconnect

streamVars == <<stream, open, frames, client>>

Frame(kind, id) == [kind |-> kind, id |-> id]
Plain(kind) == Frame(kind, "")

StreamInit ==
  /\ stream = [provider |-> "none", phase |-> "new", chunks |-> 0]
  /\ open = {} /\ frames = <<>> /\ client = "none"

\* The WebSocket, and a gRPC request that names no model, hand the router
\* settings.llm, which has no model of its own: with a real provider the generator
\* raises before it asks anything.  The WebSocket's handler answers with an error;
\* the RPC fails, and none of its messages is sent.  The mock does not look at the
\* configuration.
OpenStream(transport, provider, modelNamed) ==
  /\ stream.phase = "new"
  /\ client' = transport
  /\ LET refused == provider # "mock" /\ (transport = "ws" \/ ~modelNamed)
         phase == IF ~refused THEN "streaming" ELSE IF transport = "ws" THEN "over" ELSE "aborted"
     IN  /\ stream' = [stream EXCEPT !.provider = provider, !.phase = phase]
         /\ frames' = IF phase = "over" THEN <<Plain("error")>> ELSE <<>>
  /\ UNCHANGED open

Streaming(provider) ==
  /\ stream.provider = provider /\ stream.phase = "streaming"
  /\ stream.chunks < MaxStreamEvents
  /\ stream' = [stream EXCEPT !.chunks = @ + 1]
  /\ UNCHANGED client

\* the WebSocket sends a text twice, for old clients
Text ==
  IF client = "ws" THEN <<Plain("chunk"), Plain("text")>> ELSE <<Plain("text")>>

\* _mock_stream_events, and the text deltas of either provider
TextDelta(provider) ==
  /\ Streaming(provider)
  /\ frames' = frames \o Text
  /\ UNCHANGED open

\* providers give every tool call an id of its own
Unused(id) == ~ \E i \in DOMAIN frames : frames[i].id = id

\* Mutant: the end of a block is not passed on
AnthropicToolUnended(id) ==
  /\ Streaming("anthropic")
  /\ \/ open = {} /\ Unused(id) /\ open' = {id}
        /\ frames' = Append(frames, Frame("tool_start", id))
     \/ id \in open /\ open' = {} /\ UNCHANGED frames

\* _stream_anthropic_events: a block is opened, fed and closed before the next
AnthropicTool(id) ==
  /\ Streaming("anthropic")
  /\ \/ open = {} /\ Unused(id) /\ open' = {id}
        /\ frames' = Append(frames, Frame("tool_start", id))
     \/ id \in open /\ UNCHANGED open
        /\ frames' = Append(frames, Frame("tool_input", id))
     \/ id \in open /\ open' = {} /\ frames' = Append(frames, Frame("tool_end", id))

\* _stream_openai_events: calls are told apart by their index, so deltas of
\* several may be mixed; none of them is ended by the provider
OpenAiTool(id) ==
  /\ Streaming("openai")
  /\ \/ Unused(id) /\ open' = open \cup {id}
        /\ frames' = Append(frames, Frame("tool_start", id))
     \/ id \in open /\ UNCHANGED open
        /\ frames' = Append(frames, Frame("tool_input", id))

\* The provider's stream ends.  OpenAI: the tool calls are ended first; without a
\* single chunk the code reads a name it never bound and reports an error.
ProviderEnds ==
  /\ stream.phase = "streaming"
  /\ LET empty == stream.provider = "openai" /\ stream.chunks = 0
         flushed == [i \in DOMAIN SetToSeq(open) |-> Frame("tool_end", SetToSeq(open)[i])]
     IN  /\ stream' = [stream EXCEPT !.phase = IF empty THEN "broken" ELSE "drained"]
         /\ stream.provider = "anthropic" => open = {}
         /\ frames' = frames \o (IF empty THEN <<Plain("error")>> ELSE flushed)
         /\ open' = {}
  /\ UNCHANGED client

\* the request or the stream raises: an error is told, tool calls stay open
ProviderRaises ==
  /\ stream.phase = "streaming" /\ stream.provider # "mock"
  /\ stream' = [stream EXCEPT !.phase = "broken"]
  /\ frames' = Append(frames, Plain("error"))
  /\ UNCHANGED <<open, client>>

\* the generator's last event, after an error too; the handler of the WebSocket
\* would not wait for that one, but no error of a provider gets there
Done ==
  /\ stream.phase \in {"drained", "broken"}
  /\ stream' = [stream EXCEPT !.phase = "over"]
  /\ frames' = Append(frames, Plain("done"))
  /\ UNCHANGED <<open, client>>

\* llm_stream_ws's keepalive task: a ping comes between any two frames until the
\* stream is over
Ping ==
  /\ client = "ws" /\ stream.phase \in {"streaming", "drained"}
  /\ frames # <<>> => Last(frames).kind # "ping"
  /\ frames' = Append(frames, Plain("ping"))
  /\ UNCHANGED <<stream, open, client>>

\* the WebSocket is closed by the client, which ends the generator where it is
LeaveStream ==
  /\ client = "ws" /\ stream.phase # "over"
  /\ client' = "gone" /\ stream' = [stream EXCEPT !.phase = "over"]
  /\ UNCHANGED <<open, frames>>

StreamStep == 
  \/ \E p \in {"mock", "anthropic", "openai"} : TextDelta(p)
  \/ \E id \in ToolIds : AnthropicTool(id) \/ OpenAiTool(id)
  \/ ProviderEnds \/ ProviderRaises \/ Done

StreamNext ==
  \/ StreamStep \/ Ping \/ LeaveStream
  \/ \E t \in {"ws", "grpc"}, p \in {"mock", "anthropic", "openai"}, m \in BOOLEAN :
       OpenStream(t, p, m)

StreamSpec == StreamInit /\ [][StreamNext]_streamVars

(* Providers do not stream for ever (MaxStreamEvents) and either go on or fail.*)
StreamFairness == WF_streamVars(StreamStep)
StreamFairSpec == StreamSpec /\ StreamFairness

-------------------------------------------------------------------------------
FrameKinds(s) == {s[i].kind : i \in DOMAIN s}
Places(kind, id) == {i \in DOMAIN frames : frames[i] = Frame(kind, id)}

(* A client learns of the end exactly once, and nothing follows it: `done`,   *)
(* or for a WebSocket the error alone; a gRPC client is told `done` even      *)
(* after an error, or its call fails before the first message.                *)
EndsOnce ==
  LET terminal == IF client = "ws" THEN {"done", "error"} ELSE {"done"}
      ends == {i \in DOMAIN frames : frames[i].kind \in terminal}
  IN  /\ ends \subseteq {Len(frames)}
      /\ stream.phase = "over" /\ client # "gone" => ends = {Len(frames)}
      /\ stream.phase = "aborted" => frames = <<>>

(* Input of a tool comes between its start and its end, and a stream that     *)
(* ends without an error leaves no tool call open.                            *)
ToolsBracketed ==
  /\ \A i \in DOMAIN frames : frames[i].kind \in {"tool_input", "tool_end"} =>
       /\ \E j \in Places("tool_start", frames[i].id) : j < i
       /\ \A j \in Places("tool_end", frames[i].id) : j >= i
  /\ "done" \in FrameKinds(frames) /\ "error" \notin FrameKinds(frames) =>
       \A id \in ToolIds :
         Places("tool_start", id) # {} =>
           \E e \in Places("tool_end", id) : \A i \in Places("tool_input", id) : i < e

(* A stream that was opened is over some time.                                *)
StreamsEnd == []<>(stream.phase # "streaming")

(* What the client of a stream reads: calls of tools in brackets, and an end. *)
StreamWellFormed == EndsOnce /\ ToolsBracketed
==============================================================================
