----------------------------- MODULE Responses -----------------------------
(***************************************************************************)
(* How the answer of a server is collected: by the http_get tool, whose    *)
(* buffer doubles and ends at max_size (ai/tools/gs_core_ai_tools_http.c), *)
(* and by the Ollama provider, whose buffer grows by what comes            *)
(* (ai/providers/gs_core_ai_ollama_provider.c).  curl hands over the body  *)
(* in chunks of any size, until it ends, fails or times out.               *)
(*                                                                         *)
(* The body's bytes are numbered; a cell of the buffer holds the number of *)
(* a byte, the terminator, or what malloc left there.                      *)
(***************************************************************************)
EXTENDS Integers, Sequences

CONSTANTS
  Capacity,    \* of the tool's buffer at first (4096)
  MaxSizes,    \* values of max_size
  MaxChunk,    \* bound on a chunk
  MaxBody      \* bound on a body

VARIABLES
  reader,      \* who collects: "http_get", "ollama", or "none" between requests
  maxSize,     \* max_size of the tool; the provider has none, which is MaxBody here
  received,    \* bytes that curl handed over
  capacity,    \* cells of the buffer
  data,        \* what is in them: cell -> Nul, Unset or a byte's number
  size,        \* bytes in it
  truncated,
  whole,       \* the last bytes that were kept are a whole chunk
  result       \* what became of the last request

vars == <<reader, maxSize, received, capacity, data, size, truncated, whole, result>>

Nul == 0
Unset == -1
Larger(m, n) == IF m < n THEN n ELSE m
Pending == [status |-> "pending", content |-> <<>>]
-----------------------------------------------------------------------------
\* realloc to n cells.
Resized(n) == [i \in 0 .. n - 1 |-> IF i \in DOMAIN data THEN data[i] ELSE Unset]

\* memcpy of the chunk's first n bytes to the end of what is there.
Copied(cells, n) ==
  [i \in DOMAIN cells \cup size .. size + n - 1 |->
     IF i \in size .. size + n - 1 THEN received + 1 + i - size ELSE cells[i]]

Terminated(cells, at) == [i \in DOMAIN cells \cup {at} |-> IF i = at THEN Nul ELSE cells[i]]

\* strlen and strcpy: the cells before the first terminator; without one they
\* go on beyond the buffer.
CString ==
  LET ends == {i \in DOMAIN data : data[i] = Nul}
      end  == CHOOSE i \in ends : \A j \in ends : i <= j
  IN  IF ends = {} THEN <<Unset>> ELSE [i \in 1 .. end |-> data[i - 1]]
-----------------------------------------------------------------------------
Init ==
  /\ reader = "none" /\ maxSize = 0 /\ received = 0
  /\ capacity = 0 /\ data = <<>> /\ size = 0 /\ truncated = FALSE /\ whole = FALSE
  /\ result = Pending

\* The buffer of the tool is allocated before the request, that of the provider
\* by the first chunk.
HttpGet(limit) ==
  /\ reader = "none"
  /\ reader' = "http_get" /\ maxSize' = limit
  /\ capacity' = Capacity /\ data' = [i \in 0 .. Capacity - 1 |-> Unset]
  /\ received' = 0 /\ size' = 0 /\ truncated' = FALSE /\ whole' = FALSE
  /\ result' = Pending

OllamaRequest ==
  /\ reader = "none"
  /\ reader' = "ollama" /\ maxSize' = MaxBody
  /\ capacity' = 0 /\ data' = <<>>
  /\ received' = 0 /\ size' = 0 /\ truncated' = FALSE /\ whole' = FALSE
  /\ result' = Pending

\* Mutant: no room is asked for the terminator.
RoomForUnterminated(n) == IF size + n > capacity THEN Larger(2 * capacity, size + n) ELSE capacity

\* "Expand buffer if needed"
RoomFor(n) == IF size + n + 1 > capacity THEN Larger(2 * capacity, size + n + 1) ELSE capacity

\* _write_callback: a chunk that is kept whole ...
HttpWrite(n) ==
  /\ reader = "http_get" /\ received + n <= MaxBody
  /\ size + n <= maxSize
  /\ capacity' = RoomFor(n)
  /\ data' = Terminated(Copied(Resized(capacity'), n), size + n)
  /\ size' = size + n /\ whole' = TRUE
  /\ received' = received + n
  /\ UNCHANGED <<reader, maxSize, truncated, result>>

\* ... and one that is cut, or dropped when there is no room.  It is not
\* terminated, and curl goes on.
HttpCut(n) ==
  LET available == maxSize - size
  IN  /\ reader = "http_get" /\ received + n <= MaxBody
      /\ size + n > maxSize
      /\ capacity' = IF available > 0 /\ size + available > capacity THEN size + available + 1 ELSE capacity
      /\ data' = IF available > 0 THEN Copied(Resized(capacity'), available) ELSE data
      /\ size' = size + available
      /\ whole' = (whole /\ available = 0)
      /\ truncated' = TRUE
      /\ received' = received + n
      /\ UNCHANGED <<reader, maxSize, result>>

\* _ollama_curl_write_callback
OllamaWrite(n) ==
  /\ reader = "ollama" /\ received + n <= MaxBody
  /\ capacity' = size + n + 1
  /\ data' = Terminated(Copied(Resized(capacity'), n), size + n)
  /\ size' = size + n /\ whole' = TRUE
  /\ received' = received + n
  /\ UNCHANGED <<reader, maxSize, truncated, result>>

Finish(res) ==
  /\ reader' = "none"
  /\ result' = res
  /\ UNCHANGED <<maxSize, received, capacity, data, size, truncated, whole>>

\* The body has ended.
HttpEnds == reader = "http_get" /\ Finish([status |-> "success", content |-> CString])

\* _ollama_parse_response and the HTTP errors of _ollama_provider_request.  A
\* body is an object with a response or an error, or neither of these.
OllamaStatus(code, body) ==
  CASE code = 200 /\ data # <<>> -> [response |-> "success", error |-> "server", other |-> "parse"][body]
    [] code = 404 -> "invalid_model"
    [] code \in {401, 403} -> "auth"
    [] code = 429 -> "rate_limit"
    [] code >= 500 -> "server"
    [] OTHER -> "unknown"

OllamaEnds(code, body) ==
  /\ reader = "ollama"
  /\ LET status == OllamaStatus(code, body)
     IN  Finish([status |-> status, content |-> IF status = "success" THEN CString ELSE <<>>])

\* curl reports an error or its timeout, whatever has come so far; a chunk that
\* finds no memory is one of these.
TransferFails(status) ==
  /\ reader # "none" /\ (reader = "http_get" <=> status = "execution")
  /\ Finish([status |-> status, content |-> <<>>])

Next ==
  \/ \E limit \in MaxSizes : HttpGet(limit)
  \/ OllamaRequest
  \/ \E n \in 1 .. MaxChunk : HttpWrite(n) \/ HttpCut(n) \/ OllamaWrite(n)
  \/ HttpEnds
  \/ \E code \in {200, 302, 401, 404, 429, 500}, body \in {"response", "error", "other"} : OllamaEnds(code, body)
  \/ \E status \in {"execution", "timeout", "connection", "unknown"} : TransferFails(status)

Spec == Init /\ [][Next]_vars
-----------------------------------------------------------------------------
\* Whatever the chunks, no cell outside the buffer is written, the buffer holds
\* the body's bytes in order up to max_size, truncated says that there were
\* more, and a program gets what the buffer holds.  That is so for a body that
\* has bytes and is cut, if at all, between chunks: otherwise nothing terminates
\* it, and the content goes on with what malloc left there and beyond.
ResponseKept ==
  reader # "none" \/ result # Pending =>
    /\ DOMAIN data = 0 .. capacity - 1
    /\ size = IF received < maxSize THEN received ELSE maxSize
    /\ \A i \in 0 .. size - 1 : data[i] = i + 1
    /\ truncated <=> received > size
    /\ result.status = "success" /\ whole => result.content = [i \in 1 .. size |-> i]
=============================================================================
