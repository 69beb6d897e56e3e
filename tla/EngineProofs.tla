---------------------------- MODULE EngineProofs ----------------------------
(***************************************************************************)
(* What the parts of Engine keep for every value of their constants.       *)
(***************************************************************************)
EXTENDS Engine, Integers, Sequences, FiniteSets, FiniteSetTheorems,
        SequenceTheorems, NaturalsInduction, WellFoundedInduction, TLAPS
-----------------------------------------------------------------------------
(* The buffers of Responses. *)

\* Nothing is written outside the buffer, and the bytes are in order.
Filled ==
  /\ capacity \in Nat /\ maxSize \in Nat /\ received \in Nat /\ size \in Nat
  /\ DOMAIN data = 0 .. capacity - 1
  /\ size = IF received < maxSize THEN received ELSE maxSize
  /\ \A i \in 0 .. size - 1 : i \in 0 .. capacity - 1 /\ data[i] = i + 1

Announced == truncated <=> received > size

\* Behind a chunk that was kept whole there is room for the terminator, and it
\* is there.
Closed == whole => size < capacity /\ data[size] = Web!Nul

\* What a program was given.
Given == result.status = "success" /\ whole => result.content = [i \in 1 .. size |-> i]

WebInv ==
  /\ Filled /\ Announced /\ Closed /\ Given
  /\ reader # "none" => result = Web!Pending
  /\ reader = "ollama" => maxSize = MaxBody

\* A number below a smaller bound.
LEMMA Within ==
  ASSUME NEW m \in Nat, NEW n \in Nat, m <= n, NEW i \in 0 .. m - 1
  PROVE  i \in 0 .. n - 1
  BY SMT

\* The C string of a buffer whose bytes are followed by the terminator.
LEMMA ContentIsBytes ==
  ASSUME Filled, size < capacity, data[size] = Web!Nul
  PROVE  Web!CString = [i \in 1 .. size |-> i]
<1> DEFINE ends == {i \in DOMAIN data : data[i] = Web!Nul}
           end  == CHOOSE i \in ends : \A j \in ends : i <= j
<1>1. DOMAIN data = 0 .. capacity - 1
  BY DEF Filled
<1>2. size \in ends
  BY <1>1, SMT DEF Filled
<1>3. \A j \in ends : size <= j
  <2> SUFFICES ASSUME NEW j \in 0 .. capacity - 1, data[j] = Web!Nul PROVE size <= j
    BY <1>1
  <2> CASE j < size
    <3>1. data[j] = j + 1
      BY SMT DEF Filled
    <3> QED
      BY <3>1, SMT DEF Web!Nul
  <2> QED
    BY SMT DEF Filled
<1>4. \A k \in ends : (\A j \in ends : k <= j) => k = size
  BY <1>1, <1>2, <1>3, SMT DEF Filled
<1>5. end \in ends /\ \A j \in ends : end <= j
  BY <1>2, <1>3, Zenon
<1>6. end = size
  BY <1>4, <1>5, Zenon
<1>7. ends # {}
  BY <1>2
<1>8. Web!CString = [i \in 1 .. size |-> data[i - 1]]
  BY <1>6, <1>7 DEF Web!CString
<1>9. \A i \in 1 .. size : data[i - 1] = i
  BY SMT DEF Filled
<1> QED
  BY <1>8, <1>9

\* Appending n bytes to a buffer with cap >= size + n cells, when none of the
\* body was lost so far.
LEMMA Appending ==
  ASSUME Filled, received = size, NEW n \in Nat, NEW cap \in Nat, size + n <= cap
  PROVE  /\ DOMAIN Web!Copied(Web!Resized(cap), n) = 0 .. cap - 1
         /\ \A i \in 0 .. size + n - 1 : Web!Copied(Web!Resized(cap), n)[i] = i + 1
<1>1. /\ DOMAIN Web!Resized(cap) = 0 .. cap - 1
      /\ \A i \in 0 .. size - 1 : Web!Resized(cap)[i] = i + 1
  BY SMT DEF Filled, Web!Resized
<1>2. DOMAIN Web!Resized(cap) \cup size .. size + n - 1 = 0 .. cap - 1
  BY <1>1, SMT DEF Filled
<1>3. DOMAIN Web!Copied(Web!Resized(cap), n) = 0 .. cap - 1
  BY <1>2 DEF Web!Copied
<1>4. ASSUME NEW i \in 0 .. size + n - 1 PROVE Web!Copied(Web!Resized(cap), n)[i] = i + 1
  <2>1. i \in DOMAIN Web!Resized(cap) \cup size .. size + n - 1
    BY <1>2, SMT DEF Filled
  <2>2. CASE i \in size .. size + n - 1
    BY <2>1, <2>2, SMT DEF Filled, Web!Copied
  <2>3. CASE i \notin size .. size + n - 1
    <3>1. i \in 0 .. size - 1
      BY <2>3, SMT DEF Filled
    <3> QED
      BY <1>1, <2>1, <2>3, <3>1 DEF Web!Copied
  <2> QED
    BY <2>2, <2>3
<1> QED
  BY <1>3, <1>4

\* Writing the terminator into a cell behind the bytes.
LEMMA Terminating ==
  ASSUME NEW cells, NEW at \in Nat, NEW cap \in Nat, at < cap, DOMAIN cells = 0 .. cap - 1
  PROVE  /\ DOMAIN Web!Terminated(cells, at) = 0 .. cap - 1
         /\ Web!Terminated(cells, at)[at] = Web!Nul
         /\ \A i \in 0 .. at - 1 : Web!Terminated(cells, at)[i] = cells[i]
<1>1. DOMAIN cells \cup {at} = 0 .. cap - 1
  BY SMT
<1> QED
  BY <1>1, SMT DEF Web!Terminated

\* The start, and each request, begin with an empty buffer.
LEMMA WebStarts == Web!Init => WebInv
<1> SUFFICES ASSUME Web!Init PROVE WebInv
  OBVIOUS
<1>1. DOMAIN data = 0 .. capacity - 1
  BY SMT DEF Web!Init
<1>2. Filled
  BY <1>1, SMT DEF Web!Init, Filled
<1>3. ~truncated /\ ~whole /\ reader = "none"
  BY DEF Web!Init
<1>4. ~(received > size)
  BY SMT DEF Web!Init
<1> QED
  BY <1>2, <1>3, <1>4, SMT DEF WebInv, Announced, Closed, Given

\* A chunk that is kept whole and terminated.
LEMMA KeptWhole ==
  ASSUME WebInv, NEW n \in Nat, received = size, size + n <= maxSize,
         capacity' \in Nat, size + n < capacity',
         data' = Web!Terminated(Web!Copied(Web!Resized(capacity'), n), size + n),
         size' = size + n, whole', received' = received + n,
         UNCHANGED <<reader, maxSize, truncated, result>>, reader # "none"
  PROVE  WebInv'
<1> DEFINE cells == Web!Copied(Web!Resized(capacity'), n)
           at == size + n
           cap == capacity'
<1>1. Filled /\ size \in Nat /\ maxSize \in Nat /\ result = Web!Pending
  BY DEF WebInv, Filled
<1>2. at \in Nat /\ at <= cap /\ at < cap /\ cap \in Nat
  BY <1>1, SMT
<1>3. DOMAIN cells = 0 .. cap - 1 /\ \A i \in 0 .. at - 1 : cells[i] = i + 1
  BY <1>1, <1>2, Appending
<1>4. data' = Web!Terminated(cells, at) /\ size' = at
  OBVIOUS
<1> HIDE DEF cells, at, cap
<1>5. /\ DOMAIN Web!Terminated(cells, at) = 0 .. cap - 1
      /\ Web!Terminated(cells, at)[at] = Web!Nul
      /\ \A i \in 0 .. at - 1 : Web!Terminated(cells, at)[i] = cells[i]
  BY <1>2, <1>3, Terminating
<1>6. DOMAIN data' = 0 .. capacity' - 1
  BY <1>4, <1>5 DEF cap
<1>7. \A i \in 0 .. size' - 1 : i \in 0 .. capacity' - 1 /\ data'[i] = i + 1
  <2>1. ASSUME NEW i \in 0 .. at - 1 PROVE i \in 0 .. cap - 1 /\ data'[i] = i + 1
    <3>1. i \in 0 .. cap - 1
      BY <1>2, SMT
    <3>2. data'[i] = cells[i]
      BY <1>4, <1>5
    <3> QED
      BY <1>3, <3>1, <3>2
  <2> QED
    BY <1>4, <2>1 DEF cap
<1>8. size' = (IF received' < maxSize' THEN received' ELSE maxSize') /\ received' \in Nat /\ size' \in Nat
  BY <1>1, SMT
<1>9. Filled'
  BY <1>1, <1>6, <1>7, <1>8, Zenon DEF Filled
<1>10. ~(received > size) /\ ~(received' > size')
  BY <1>1, SMT
<1>11. Announced'
  BY <1>10, Zenon DEF WebInv, Announced
<1>12. Closed'
  BY <1>2, <1>4, <1>5 DEF Closed, cap
<1>13. Given'
  BY <1>1, SMT DEF Given, Web!Pending
<1> QED
  BY <1>1, <1>9, <1>11, <1>12, <1>13 DEF WebInv

\* Every action keeps the invariant.
LEMMA WebSteps == ASSUME WebInv, [Web!Next]_(Web!vars) PROVE WebInv'
<1> USE WebAssumption
<1>1. ASSUME NEW limit \in MaxSizes, Web!HttpGet(limit) PROVE WebInv'
  <2>1. limit \in Nat
    OBVIOUS
  <2>2. Filled'
    BY <1>1, <2>1, SMT DEF Web!HttpGet, Filled
  <2>3. ~truncated' /\ ~whole' /\ result' = Web!Pending /\ reader' = "http_get"
    BY <1>1 DEF Web!HttpGet
  <2>4. ~(received' > size')
    BY <1>1, SMT DEF Web!HttpGet
  <2> QED
    BY <2>2, <2>3, <2>4, SMT DEF WebInv, Announced, Closed, Given
<1>2. ASSUME Web!OllamaRequest PROVE WebInv'
  <2>1. DOMAIN data' = 0 .. capacity' - 1
    BY <1>2, SMT DEF Web!OllamaRequest
  <2>2. Filled'
    BY <1>2, <2>1, SMT DEF Web!OllamaRequest, Filled
  <2>3. ~truncated' /\ ~whole' /\ result' = Web!Pending /\ maxSize' = MaxBody
    BY <1>2 DEF Web!OllamaRequest
  <2>4. ~(received' > size')
    BY <1>2, SMT DEF Web!OllamaRequest
  <2> QED
    BY <2>2, <2>3, <2>4 DEF WebInv, Announced, Closed, Given
<1>3. ASSUME NEW n \in 1 .. MaxChunk, Web!HttpWrite(n) PROVE WebInv'
  <2>1. n \in Nat /\ received = size
    BY <1>3, SMT DEF Web!HttpWrite, WebInv, Filled
  <2>2. capacity' \in Nat /\ size + n < capacity'
    BY <1>3, <2>1, SMT DEF Web!HttpWrite, Web!RoomFor, Web!Larger, WebInv, Filled
  <2>3. reader # "none"
    BY <1>3 DEF Web!HttpWrite
  <2> QED
    BY <1>3, <2>1, <2>2, <2>3, KeptWhole DEF Web!HttpWrite
<1>4. ASSUME NEW n \in 1 .. MaxChunk, Web!HttpCut(n) PROVE WebInv'
  <2> DEFINE available == maxSize - size
  <2>1. /\ n \in Nat /\ available \in Nat /\ size' = maxSize /\ maxSize' = maxSize
        /\ received' = received + n /\ size + n > maxSize /\ received' \in Nat
    BY <1>4, SMT DEF Web!HttpCut, WebInv, Filled
  <2>2. truncated' /\ result' = Web!Pending /\ reader' = "http_get"
    BY <1>4 DEF Web!HttpCut, WebInv
  <2>3. received' > size'
    BY <2>1, SMT DEF WebInv, Filled
  <2>4. CASE available > 0
    <3>1. received = size
      BY <2>4, SMT DEF WebInv, Filled
    <3>2. capacity' \in Nat /\ size + available <= capacity'
      BY <1>4, <2>1, <2>4, SMT DEF Web!HttpCut, WebInv, Filled
    <3>3. data' = Web!Copied(Web!Resized(capacity'), available)
      BY <1>4, <2>4, SMT DEF Web!HttpCut
    <3>4. available # 0
      BY <2>1, <2>4, SMT
    <3>5. ~whole'
      BY <1>4, <3>4, Zenon DEF Web!HttpCut
    <3>6. /\ size + available = maxSize /\ size' = maxSize /\ available \in Nat
          /\ size \in Nat /\ maxSize \in Nat /\ capacity' \in Nat /\ maxSize <= capacity'
      BY <2>1, <3>2, SMT DEF WebInv, Filled
    <3> HIDE DEF available
    <3>7. DOMAIN data' = 0 .. capacity' - 1 /\ \A i \in 0 .. maxSize - 1 : data'[i] = i + 1
      <4>1. /\ DOMAIN Web!Copied(Web!Resized(capacity'), available) = 0 .. capacity' - 1
            /\ \A i \in 0 .. size + available - 1 : Web!Copied(Web!Resized(capacity'), available)[i] = i + 1
        BY <3>1, <3>2, <3>6, Appending DEF WebInv
      <4>2. DOMAIN data' = 0 .. capacity' - 1
        BY <3>3, <4>1, Zenon
      <4>3. size + available - 1 = maxSize - 1
        BY <3>6, SMT
      <4>4. ASSUME NEW i \in 0 .. maxSize - 1 PROVE data'[i] = i + 1
        BY <3>3, <4>1, <4>3, Zenon
      <4> QED
        BY <4>2, <4>4
    <3>8. \A i \in 0 .. size' - 1 : i \in 0 .. capacity' - 1 /\ data'[i] = i + 1
      <4>1. ASSUME NEW i \in 0 .. maxSize - 1 PROVE i \in 0 .. capacity' - 1
        BY <3>6, Within
      <4> QED
        BY <3>6, <3>7, <4>1
    <3>9. size' = (IF received' < maxSize' THEN received' ELSE maxSize') /\ size' \in Nat /\ maxSize' \in Nat
      BY <2>1, <2>3, SMT DEF WebInv, Filled
    <3>10. Filled'
      BY <2>1, <3>2, <3>7, <3>8, <3>9, Zenon DEF Filled
    <3> QED
      BY <2>2, <2>3, <3>5, <3>10, SMT DEF WebInv, Announced, Closed, Given, Web!Pending
  <2>5. CASE ~(available > 0)
    <3>1. capacity' = capacity /\ data' = data /\ size' = size
      BY <1>4, <2>1, <2>5, SMT DEF Web!HttpCut, WebInv, Filled
    <3>2. whole' => whole
      BY <1>4 DEF Web!HttpCut
    <3>3. Filled'
      BY <2>1, <2>3, <3>1, SMT DEF WebInv, Filled
    <3>4. Closed'
      BY <3>1, <3>2 DEF WebInv, Closed
    <3> QED
      BY <2>2, <2>3, <3>3, <3>4, SMT DEF WebInv, Announced, Given, Web!Pending
  <2> QED
    BY <2>4, <2>5
<1>5. ASSUME NEW n \in 1 .. MaxChunk, Web!OllamaWrite(n) PROVE WebInv'
  <2>1. n \in Nat /\ received = size /\ size + n <= maxSize
    BY <1>5, SMT DEF Web!OllamaWrite, WebInv, Filled
  <2>2. capacity' \in Nat /\ size + n < capacity'
    BY <1>5, <2>1, SMT DEF Web!OllamaWrite, WebInv, Filled
  <2>3. reader # "none"
    BY <1>5 DEF Web!OllamaWrite
  <2> QED
    BY <1>5, <2>1, <2>2, <2>3, KeptWhole DEF Web!OllamaWrite
<1>6. ASSUME NEW res, Web!Finish(res), res.status = "success" /\ whole => res.content = [i \in 1 .. size |-> i]
      PROVE  WebInv'
  <2>1. /\ reader' = "none" /\ result' = res
        /\ UNCHANGED <<maxSize, received, capacity, data, size, truncated, whole>>
    BY <1>6 DEF Web!Finish
  <2>2. Filled' /\ Announced' /\ Closed'
    BY <2>1 DEF WebInv, Filled, Announced, Closed
  <2>3. Given'
    BY <1>6, <2>1 DEF Given
  <2> QED
    BY <2>1, <2>2, <2>3, SMT DEF WebInv
<1>7. whole => Web!CString = [i \in 1 .. size |-> i]
  BY ContentIsBytes DEF WebInv, Closed
<1>8. ASSUME Web!HttpEnds PROVE WebInv'
  <2> DEFINE res == [status |-> "success", content |-> Web!CString]
  <2>1. Web!Finish(res)
    BY <1>8 DEF Web!HttpEnds
  <2>2. res.content = Web!CString
    OBVIOUS
  <2> HIDE DEF res
  <2> QED
    BY <1>6, <1>7, <2>1, <2>2
<1>9. ASSUME NEW code, NEW body, Web!OllamaEnds(code, body) PROVE WebInv'
  <2> DEFINE status == Web!OllamaStatus(code, body)
             res == [status |-> status, content |-> IF status = "success" THEN Web!CString ELSE <<>>]
  <2>1. Web!Finish(res)
    BY <1>9 DEF Web!OllamaEnds
  <2>2. res.status = status /\ (status = "success" => res.content = Web!CString)
    OBVIOUS
  <2> HIDE DEF res, status
  <2>3. res.status = "success" /\ whole => res.content = [i \in 1 .. size |-> i]
    BY <1>7, <2>2
  <2> QED
    BY <1>6, <2>1, <2>3
<1>10. ASSUME NEW status \in {"execution", "timeout", "connection", "unknown"}, Web!TransferFails(status)
       PROVE  WebInv'
  <2>1. [status |-> status, content |-> <<>>].status # "success"
    BY SMT
  <2> QED
    BY <1>6, <1>10, <2>1 DEF Web!TransferFails
<1>11. CASE UNCHANGED Web!vars
  BY <1>11 DEF Web!vars, WebInv, Filled, Announced, Closed, Given
<1> QED
  BY <1>1, <1>2, <1>3, <1>4, <1>5, <1>8, <1>9, <1>10, <1>11 DEF Web!Next

\* Whatever the limits, the chunks and the way a transfer ends: nothing is
\* written outside the buffer, the body's first bytes are in it in order,
\* truncated says that there were more, and what the program is given is what
\* was kept, unless it was cut within a chunk or is empty.
THEOREM ResponseKeptHolds == Web!Spec => []ResponseKept
<1>1. Web!Init => WebInv
  BY WebStarts
<1>2. WebInv /\ [Web!Next]_(Web!vars) => WebInv'
  BY WebSteps
<1>3. WebInv => ResponseKept
  BY DEF WebInv, Filled, Announced, Given, ResponseKept, Web!ResponseKept
<1> QED
  BY <1>1, <1>2, <1>3, PTL DEF Web!Spec
-----------------------------------------------------------------------------
(* The stack of NativeVM. *)

\* Every set of numbers has a least one.
LEMMA LeastNumber ==
  ASSUME NEW T \in SUBSET Nat, T # {}
  PROVE  \E n \in T : \A m \in T : n <= m
<1>1. PICK n \in T : \A m \in T : ~ (<<m, n>> \in OpToRel(<, Nat))
  BY NatLessThanWellFounded, WFMin
<1>2. \A m \in T : ~(m < n)
  BY <1>1 DEF OpToRel
<1> QED
  BY <1>2

\* The value an element e points to in the memory m.
In(m, e) ==
  LET here == {c \in m : c.at = e.at /\ c.size = e.size}
  IN  IF here = {} THEN NullPtr ELSE (CHOOSE c \in here : TRUE).val
Vals(s) == [i \in DOMAIN s.elements |-> In(s.mem, s.elements[i])]

Apart(a, b) == a.at + a.size <= b.at \/ b.at + b.size <= a.at

Elements == [at : Nat, size : Nat \ {0}]
Cells    == [at : Nat, size : Nat \ {0}, val : Values]

\* The elements lie one behind the other, each over a value of its size, and
\* the values in the buffer do not overlap.
Sound(s) ==
  /\ s.elements \in Seq(Elements) /\ s.position \in Nat /\ s.mem \subseteq Cells
  /\ \A i \in DOMAIN s.elements :
       /\ s.elements[i].at + s.elements[i].size <= s.position
       /\ \A j \in 1 .. i - 1 : s.elements[j].at + s.elements[j].size <= s.elements[i].at
       /\ \E c \in s.mem : c.at = s.elements[i].at /\ c.size = s.elements[i].size
  /\ \A c, d \in s.mem : c = d \/ Apart(c, d)

\* An element reads the value it lies over.
LEMMA Reading ==
  ASSUME NEW m, m \subseteq Cells, \A c, d \in m : c = d \/ Apart(c, d),
         NEW e \in Elements, NEW c \in m, c.at = e.at, c.size = e.size
  PROVE  In(m, e) = c.val
<1> DEFINE here == {d \in m : d.at = e.at /\ d.size = e.size}
<1>1. \A d \in here : d = c
  <2> SUFFICES ASSUME NEW d \in m, d.at = e.at, d.size = e.size, d # c PROVE FALSE
    OBVIOUS
  <2>1. Apart(c, d)
    OBVIOUS
  <2> QED
    BY <2>1 DEF Apart, Elements
<1>2. here = {c}
  BY <1>1
<1>3. (CHOOSE d \in here : TRUE) = c
  BY <1>2
<1> QED
  BY <1>2, <1>3 DEF In

\* A push adds its value at the top and leaves those under it as they are.
LEMMA PushAdds ==
  ASSUME NEW s, Sound(s), NEW v \in Values
  PROVE  /\ Sound(Script!Pushed(s, v))
         /\ Vals(Script!Pushed(s, v)) = Append(Vals(s), v)
         /\ Vals(s) \in Seq(Values)
<1> DEFINE new == [at |-> s.position, size |-> Size[v]]
           cell == [at |-> s.position, size |-> Size[v], val |-> v]
           old == {c \in s.mem : c.at + c.size <= s.position \/ c.at >= s.position + Size[v]}
<1>1. /\ Size[v] \in Nat \ {0} /\ v # NullPtr
      /\ s.position \in Nat /\ s.mem \subseteq Cells /\ s.elements \in Seq(Elements)
  BY ScriptAssumption DEF Sound
<1>2. PICK t : t = Script!Pushed(s, v)
  OBVIOUS
<1>3. /\ t.elements = Append(s.elements, new)
      /\ t.position = s.position + Size[v]
      /\ t.mem = old \cup {cell}
  BY <1>1, <1>2 DEF Script!Pushed, Script!Written
<1>4. new \in Elements /\ cell \in Cells
  BY <1>1 DEF Elements, Cells
<1>5. PICK n \in Nat : n = Len(s.elements)
  BY <1>1
<1>6. /\ DOMAIN s.elements = 1 .. n /\ DOMAIN t.elements = 1 .. n + 1
      /\ t.elements \in Seq(Elements)
      /\ \A i \in 1 .. n : t.elements[i] = s.elements[i] /\ s.elements[i] \in Elements
      /\ t.elements[n + 1] = new
  BY <1>1, <1>3, <1>4, <1>5
<1>7. \A c \in old : Apart(c, cell)
  BY <1>1 DEF Apart, Cells
<1>8. t.mem \subseteq Cells
  BY <1>1, <1>3, <1>4
<1>9. \A c, d \in t.mem : c = d \/ Apart(c, d)
  <2> SUFFICES ASSUME NEW c \in t.mem, NEW d \in t.mem, c # d PROVE Apart(c, d)
    OBVIOUS
  <2>1. CASE c \in old /\ d \in old
    BY <2>1 DEF Sound
  <2>2. CASE c = cell
    <3>1. Apart(d, cell)
      BY <1>3, <1>7, <2>2
    <3> QED  BY <2>2, <3>1 DEF Apart
  <2>3. CASE d = cell
    BY <1>3, <1>7, <2>3
  <2> QED  BY <1>3, <2>1, <2>2, <2>3
<1>10. ASSUME NEW i \in 1 .. n
       PROVE  \E c \in old : /\ c.at = s.elements[i].at /\ c.size = s.elements[i].size
                             /\ In(s.mem, s.elements[i]) = c.val
                             /\ In(t.mem, t.elements[i]) = c.val
  <2>1. PICK c \in s.mem : c.at = s.elements[i].at /\ c.size = s.elements[i].size
    BY <1>6 DEF Sound
  <2>2. s.elements[i].at + s.elements[i].size <= s.position
    BY <1>6 DEF Sound
  <2>3. c \in old
    BY <2>1, <2>2
  <2>4. In(s.mem, s.elements[i]) = c.val
    <3>1. \A d, e \in s.mem : d = e \/ Apart(d, e)
      BY DEF Sound
    <3>2. s.elements[i] \in Elements
      BY <1>6
    <3> QED  BY <1>1, <2>1, <3>1, <3>2, Reading
  <2>5. t.elements[i] = s.elements[i] /\ c \in t.mem
    BY <1>3, <1>6, <2>3
  <2>6. In(t.mem, t.elements[i]) = c.val
    BY <1>6, <1>8, <1>9, <2>1, <2>5, Reading
  <2> QED
    BY <2>1, <2>3, <2>4, <2>6
<1>11. In(t.mem, t.elements[n + 1]) = v
  <2>1. cell \in t.mem /\ cell.at = new.at /\ cell.size = new.size /\ cell.val = v
    BY <1>3
  <2> HIDE DEF cell, new
  <2>2. In(t.mem, new) = cell.val
    BY <1>4, <1>8, <1>9, <2>1, Reading
  <2> QED
    BY <1>6, <2>1, <2>2
<1>12. Sound(t)
  <2>1. ASSUME NEW i \in 1 .. n + 1
        PROVE  /\ t.elements[i].at + t.elements[i].size <= t.position
               /\ \A j \in 1 .. i - 1 : t.elements[j].at + t.elements[j].size <= t.elements[i].at
               /\ \E c \in t.mem : c.at = t.elements[i].at /\ c.size = t.elements[i].size
    <3>1. CASE i \in 1 .. n
      <4>1. /\ s.elements[i] \in Elements /\ t.elements[i] = s.elements[i]
            /\ s.elements[i].at + s.elements[i].size <= s.position
            /\ \A j \in 1 .. i - 1 : s.elements[j].at + s.elements[j].size <= s.elements[i].at
        BY <1>6, <3>1 DEF Sound
      <4>2. \A j \in 1 .. i - 1 : t.elements[j] = s.elements[j]
        BY <1>6, <3>1
      <4>3. t.elements[i].at + t.elements[i].size <= t.position
        <5>1. PICK a \in Nat : a = s.elements[i].at + s.elements[i].size
          BY <4>1 DEF Elements
        <5>2. a <= s.position + Size[v]
          BY <1>1, <4>1, <5>1
        <5> QED  BY <1>3, <4>1, <5>1, <5>2
      <4>4. \E c \in t.mem : c.at = t.elements[i].at /\ c.size = t.elements[i].size
        BY <1>3, <1>10, <3>1, <4>1
      <4> QED  BY <4>1, <4>2, <4>3, <4>4
    <3>2. CASE i = n + 1
      <4>1. t.elements[i] = new /\ cell \in t.mem
        BY <1>3, <1>6, <3>2
      <4>2. \A j \in 1 .. i - 1 : j \in 1 .. n
        BY <3>2
      <4>3. \A j \in 1 .. n : s.elements[j].at + s.elements[j].size <= s.position
        BY <1>6 DEF Sound
      <4>4. \A j \in 1 .. i - 1 : t.elements[j].at + t.elements[j].size <= t.elements[i].at
        <5> SUFFICES ASSUME NEW j \in 1 .. i - 1
                     PROVE  t.elements[j].at + t.elements[j].size <= t.elements[i].at
          OBVIOUS
        <5>1. t.elements[j] = s.elements[j]
          BY <1>6, <4>2
        <5>2. s.elements[j].at + s.elements[j].size <= s.position
          BY <4>2, <4>3
        <5> QED  BY <4>1, <5>1, <5>2
      <4>5. t.elements[i].at + t.elements[i].size <= t.position
        <5>1. t.elements[i].at = s.position /\ t.elements[i].size = Size[v]
          BY <4>1
        <5>2. s.position + Size[v] <= s.position + Size[v]
          BY <1>1
        <5> QED  BY <1>3, <5>1, <5>2
      <4> QED
        BY <4>1, <4>4, <4>5
    <3> QED  BY <3>1, <3>2
  <2>2. t.position \in Nat
    BY <1>1, <1>3
  <2> QED
    BY <1>6, <1>8, <1>9, <2>1, <2>2 DEF Sound
<1>13. Vals(s) = [i \in 1 .. n |-> In(s.mem, s.elements[i])]
  BY <1>6 DEF Vals
<1>14. Vals(t) = [i \in 1 .. n + 1 |-> In(t.mem, t.elements[i])]
  BY <1>6 DEF Vals
<1>15. \A i \in 1 .. n : In(s.mem, s.elements[i]) \in Values
  BY <1>1, <1>10 DEF Cells
<1>16. Vals(s) \in Seq(Values) /\ Len(Vals(s)) = n
  BY <1>13, <1>15
<1>17. Vals(t) = Append(Vals(s), v)
  <2>1. PICK a : a = Vals(s)
    OBVIOUS
  <2>2. PICK b : b = Append(a, v)
    OBVIOUS
  <2>3. /\ b \in Seq(Values) /\ Len(b) = n + 1 /\ b[n + 1] = v
        /\ \A i \in 1 .. n : b[i] = a[i]
    BY <1>16, <2>1, <2>2
  <2>4. \A i \in 1 .. n : b[i] = In(t.mem, t.elements[i])
    BY <1>10, <1>13, <2>1, <2>3
  <2>5. b = [i \in 1 .. n + 1 |-> In(t.mem, t.elements[i])]
    BY <1>11, <2>3, <2>4
  <2> QED  BY <1>14, <2>1, <2>2, <2>5
<1> QED
  BY <1>2, <1>12, <1>16, <1>17

\* The states on the way of pushing the first n of args, one after the other.
Folds(s, args, n, g) ==
  g = [r \in SUBSET (1 .. n) |->
         IF r = {} THEN s ELSE Script!Pushed(g[r \ {Script!Max(r)}], args[Script!Max(r)])]

\* Exec pushes its arguments by a fold, which is such a function's last value.
LEMMA FoldIsFolds ==
  ASSUME NEW s, NEW args \in Seq(Values \cup {NullPtr})
  PROVE  Script!FoldLeft(Script!Pushed, s, args) = (CHOOSE g : Folds(s, args, Len(args), g))[1 .. Len(args)]
<1>1. DOMAIN args = 1 .. Len(args)
  OBVIOUS
<1> QED
  BY <1>1 DEF Script!FoldLeft, Script!MapThenFoldSet, Folds

\* The greatest element of a set that has the last number.
LEMMA Greatest ==
  ASSUME NEW n \in Nat, NEW r \in SUBSET (1 .. n + 1), n + 1 \in r
  PROVE  Script!Max(r) = n + 1
<1>1. \A x \in r : n + 1 >= x
  OBVIOUS
<1>2. \A x \in r : (\A y \in r : x >= y) => x = n + 1
  OBVIOUS
<1> QED
  BY <1>1, <1>2 DEF Script!Max

\* There is one for every number of arguments: otherwise there would be a least
\* number without.
LEMMA FoldsExist ==
  ASSUME NEW s, NEW args
  PROVE  \A n \in Nat : \E g : Folds(s, args, n, g)
<1> DEFINE T == {n \in Nat : ~\E g : Folds(s, args, n, g)}
<1> SUFFICES ASSUME T # {} PROVE FALSE
  OBVIOUS
<1>1. PICK n \in T : \A m \in T : n <= m
  <2> HIDE DEF T
  <2>1. T \in SUBSET Nat
    BY DEF T
  <2> QED  BY <2>1, LeastNumber
<1>2. n \in Nat /\ ~\E g : Folds(s, args, n, g)
  BY <1>1
<1>3. n # 0
  <2> DEFINE g == [r \in SUBSET (1 .. 0) |-> s]
  <2>1. \A r \in SUBSET (1 .. 0) : r = {}
    OBVIOUS
  <2>2. Folds(s, args, 0, g)
    BY <2>1 DEF Folds
  <2> QED  BY <1>2, <2>2
<1>4. PICK m \in Nat : n = m + 1
  BY <1>2, <1>3
<1>5. PICK g : Folds(s, args, m, g)
  <2>1. m \notin T
    BY <1>1, <1>4
  <2> QED  BY <2>1
<1> DEFINE Step(r) == IF r = {} THEN s ELSE Script!Pushed(g[r \ {Script!Max(r)}], args[Script!Max(r)])
           h == [r \in SUBSET (1 .. m + 1) |-> IF m + 1 \in r THEN Script!Pushed(g[r \ {m + 1}], args[m + 1]) ELSE g[r]]
<1>6. ASSUME NEW r \in SUBSET (1 .. m + 1)
      PROVE  h[r] = IF r = {} THEN s ELSE Script!Pushed(h[r \ {Script!Max(r)}], args[Script!Max(r)])
  <2>1. CASE m + 1 \in r
    <3>1. Script!Max(r) = m + 1
      BY <2>1, Greatest
    <3>2. r \ {m + 1} \in SUBSET (1 .. m + 1) /\ m + 1 \notin r \ {m + 1}
      OBVIOUS
    <3>3. h[r \ {m + 1}] = g[r \ {m + 1}]
      BY <3>2
    <3>4. h[r] = Script!Pushed(g[r \ {m + 1}], args[m + 1])
      BY <2>1
    <3> QED  BY <2>1, <3>1, <3>3, <3>4
  <2>2. CASE m + 1 \notin r
    <3>1. r \in SUBSET (1 .. m)
      BY <2>2
    <3>2. g[r] = IF r = {} THEN s ELSE Script!Pushed(g[r \ {Script!Max(r)}], args[Script!Max(r)])
      BY <1>5, <3>1 DEF Folds
    <3>3. h[r] = g[r]
      BY <2>2
    <3>4. r \ {Script!Max(r)} \in SUBSET (1 .. m + 1) /\ m + 1 \notin r \ {Script!Max(r)}
      BY <2>2
    <3>5. h[r \ {Script!Max(r)}] = g[r \ {Script!Max(r)}]
      BY <3>4
    <3> QED  BY <3>2, <3>3, <3>5
  <2> QED  BY <2>1, <2>2
<1>7. Folds(s, args, m + 1, h)
  <2>1. h = [r \in SUBSET (1 .. m + 1) |-> h[r]]
    OBVIOUS
  <2> HIDE DEF h
  <2> QED  BY <1>6, <2>1 DEF Folds
<1> QED
  BY <1>2, <1>4, <1>7

\* u is a with b behind it.
Joined(u, a, b) ==
  /\ u \in Seq(Values) /\ a \in Seq(Values) /\ b \in Seq(Values)
  /\ Len(u) = Len(a) + Len(b)
  /\ \A i \in 1 .. Len(a) : u[i] = a[i]
  /\ \A i \in 1 .. Len(b) : u[Len(a) + i] = b[i]

\* Nothing behind a is a.
LEMMA JoinedNone ==
  ASSUME NEW a \in Seq(Values)
  PROVE  Joined(a, a, <<>>)
BY DEF Joined

\* One value more at both ends.
LEMMA JoinedOneMore ==
  ASSUME NEW u, NEW a, NEW b, Joined(u, a, b), NEW v \in Values
  PROVE  Joined(Append(u, v), a, Append(b, v))
<1>1. PICK m \in Nat, n \in Nat : Len(a) = m /\ Len(b) = n
  BY DEF Joined
<1>2. PICK x, y : x = Append(u, v) /\ y = Append(b, v)
  OBVIOUS
<1>3. /\ u \in Seq(Values) /\ b \in Seq(Values) /\ Len(u) = m + n
      /\ \A i \in 1 .. m : u[i] = a[i]
      /\ \A i \in 1 .. n : u[m + i] = b[i]
  BY <1>1 DEF Joined
<1>4. /\ x \in Seq(Values) /\ Len(x) = m + n + 1 /\ x[m + n + 1] = v
      /\ \A i \in 1 .. m + n : x[i] = u[i]
  BY <1>1, <1>2, <1>3
<1>5. /\ y \in Seq(Values) /\ Len(y) = n + 1 /\ y[n + 1] = v
      /\ \A i \in 1 .. n : y[i] = b[i]
  BY <1>1, <1>2, <1>3
<1>6. \A i \in 1 .. m : x[i] = a[i]
  <2>1. \A i \in 1 .. m : i \in 1 .. m + n
    BY <1>1
  <2> QED  BY <1>3, <1>4, <2>1
<1>7. ASSUME NEW i \in 1 .. n + 1 PROVE x[m + i] = y[i]
  <2>1. CASE i = n + 1
    <3>1. m + i = m + n + 1
      BY <1>1, <2>1
    <3> QED  BY <1>4, <1>5, <2>1, <3>1
  <2>2. CASE i \in 1 .. n
    <3>1. m + i \in 1 .. m + n
      BY <1>1, <2>2
    <3> QED  BY <1>3, <1>4, <1>5, <2>2, <3>1
  <2> QED  BY <1>1, <2>1, <2>2
<1>8. m + n + 1 = m + (n + 1)
  BY <1>1
<1>9. a \in Seq(Values)
  BY DEF Joined
<1>10. Joined(x, a, y)
  BY <1>1, <1>4, <1>5, <1>6, <1>7, <1>8, <1>9 DEF Joined
<1> QED
  BY <1>2, <1>10

\* Pushing arguments one after the other adds those that are values.
LEMMA PushesAdd ==
  ASSUME NEW s, Sound(s), NEW vals \in Seq(Values), s.values = <<>>,
         NEW args \in Seq(Values \cup {NullPtr}), vals = Vals(s)
  PROVE  LET t == Script!FoldLeft(Script!Pushed, s, args)
         IN  Sound(t) /\ Joined(Vals(t), vals, t.values)
<1>1. PICK n \in Nat : n = Len(args)
  OBVIOUS
<1>2. PICK g : Folds(s, args, n, g) /\ g[1 .. n] = Script!FoldLeft(Script!Pushed, s, args)
  <2>1. \E g : Folds(s, args, n, g)
    BY FoldsExist
  <2>2. Folds(s, args, n, CHOOSE g : Folds(s, args, n, g))
    BY <2>1
  <2> QED  BY <1>1, <2>2, FoldIsFolds
<1> DEFINE Good(t) == Sound(t) /\ Joined(Vals(t), vals, t.values)
           T == {m \in 0 .. n : ~Good(g[1 .. m])}
<1> SUFFICES ASSUME T # {} PROVE FALSE
  <2>1. n \in 0 .. n /\ n \notin T
    <3>1. n \in 0 .. n
      OBVIOUS
    <3> HIDE DEF T
    <3> QED  BY <3>1
  <2>2. Good(g[1 .. n])
    <3> HIDE DEF Good
    <3> QED  BY <2>1
  <2> QED  BY <1>2, <2>2
<1>3. PICK m \in T : \A k \in T : m <= k
  <2> HIDE DEF T
  <2>1. T \in SUBSET Nat
    BY DEF T
  <2> QED  BY <2>1, LeastNumber
<1>4. m \in 0 .. n /\ ~Good(g[1 .. m])
  BY <1>3
<1>5. m # 0
  <2>1. g[{}] = s
    BY <1>2 DEF Folds
  <2>2. 1 .. 0 = {}
    OBVIOUS
  <2>3. Good(s)
    BY JoinedNone
  <2> QED  BY <1>4, <2>1, <2>2, <2>3
<1>6. PICK k \in 0 .. n - 1 : m = k + 1
  BY <1>4, <1>5
<1>7. g[1 .. k + 1] = Script!Pushed(g[1 .. k], args[k + 1])
  <2>0. k \in Nat /\ k + 1 <= n
    BY <1>6
  <2>1. 1 .. k + 1 \in SUBSET (1 .. n) /\ 1 .. k + 1 # {} /\ k + 1 \in 1 .. k + 1
    <3>1. \A i \in 1 .. k + 1 : i \in 1 .. n
      BY <2>0
    <3>2. k + 1 \in 1 .. k + 1
      BY <2>0
    <3> QED  BY <3>1, <3>2
  <2>2. Script!Max(1 .. k + 1) = k + 1
    BY <2>1, Greatest
  <2>3. (1 .. k + 1) \ {k + 1} = 1 .. k
    OBVIOUS
  <2> QED  BY <1>2, <2>1, <2>2, <2>3 DEF Folds
<1>8. PICK t : t = g[1 .. k]
  OBVIOUS
<1>9. Good(t)
  <2>1. k \notin T
    BY <1>3, <1>6
  <2> QED  BY <1>6, <1>8, <2>1
<1>10. PICK v : v = args[k + 1]
  OBVIOUS
<1>11. v \in Values \cup {NullPtr}
  BY <1>1, <1>6, <1>10
<1>12. CASE v = NullPtr
  BY <1>4, <1>6, <1>7, <1>8, <1>9, <1>10, <1>12 DEF Script!Pushed
<1>13. CASE v \in Values
  <2>1. v # NullPtr
    BY <1>13, ScriptAssumption
  <2>2. PICK u : u = Script!Pushed(t, v)
    OBVIOUS
  <2>3. Sound(u) /\ Vals(u) = Append(Vals(t), v)
    BY <1>9, <1>13, <2>2, PushAdds
  <2>4. u.values = Append(t.values, v)
    BY <2>1, <2>2 DEF Script!Pushed
  <2>5. Joined(Append(Vals(t), v), vals, Append(t.values, v))
    BY <1>9, <1>13, JoinedOneMore
  <2>7. Good(u)
    BY <2>3, <2>4, <2>5
  <2> QED  BY <1>4, <1>6, <1>7, <1>8, <1>10, <2>2, <2>7
<1> QED
  BY <1>11, <1>12, <1>13

\* u is what is left of the sequence st when all but its first n are taken off.
Cut(u, st, n) ==
  /\ u \in Seq(Values) /\ st \in Seq(Values) /\ n \in Nat
  /\ Len(u) = n /\ n <= Len(st)
  /\ \A i \in 1 .. n : u[i] = st[i]

Calls == [before : Nat, top : Nat, low : Nat, mine : Seq(Values)]

\* The history kept with a call: its values are those the stack st has above the
\* least height it fell to.
CallKeeps(c, st) ==
  /\ c \in Calls /\ st \in Seq(Values)
  /\ c.low <= c.top /\ c.low <= Len(st)
  /\ Len(c.mine) = Len(st) - c.low
  /\ \A i \in 1 .. Len(c.mine) : c.mine[i] = st[c.low + i]

KeepAll(cs, st) == cs \in Seq(Calls) /\ \A i \in DOMAIN cs : CallKeeps(cs[i], st)

VMInv ==
  /\ {exported, imported} \subseteq [FnNames -> Fns \cup {NoFn}]
  /\ Sound(Script!Now)
  /\ Script!Stack \in Seq(Values)
  /\ KeepAll(calls, Script!Stack)

\* What NATIVE_gs_core_vm_stack_get reads are the values of the state.
LEMMA StackIsVals == Script!Stack = Vals(Script!Now) /\ Script!Stack' = Vals(Script!Now')
BY DEF Script!Stack, Vals, Script!Now, Script!Read, In

\* `\o` value by value.
LEMMA Concatenating ==
  ASSUME NEW a \in Seq(Values), NEW b \in Seq(Values)
  PROVE  Joined(a \o b, a, b)
<1>1. PICK m \in Nat, n \in Nat : Len(a) = m /\ Len(b) = n
  OBVIOUS
<1>2. PICK u : u = a \o b
  OBVIOUS
<1>3. u \in Seq(Values) /\ Len(u) = m + n
  BY <1>1, <1>2
<1>4. \A i \in 1 .. m : u[i] = a[i]
  BY <1>1, <1>2
<1>5. \A i \in 1 .. n : u[m + i] = b[i]
  BY <1>1, <1>2
<1> QED
  BY <1>1, <1>2, <1>3, <1>4, <1>5 DEF Joined

\* The first n values.
LEMMA Taking ==
  ASSUME NEW a \in Seq(Values), NEW n \in 0 .. Len(a)
  PROVE  Cut(SubSeq(a, 1, n), a, n)
<1>1. PICK u : u = SubSeq(a, 1, n)
  OBVIOUS
<1>2. u \in Seq(Values) /\ Len(u) = n /\ \A i \in 1 .. n : u[i] = a[i]
  BY <1>1
<1> QED
  BY <1>1, <1>2 DEF Cut

\* A running call keeps its history when values are added at the top.
LEMMA GrownCall ==
  ASSUME NEW c, NEW st, CallKeeps(c, st), NEW u, NEW vs, Joined(u, st, vs)
  PROVE  CallKeeps([c EXCEPT !.mine = @ \o vs], u)
<1>1. PICK l \in Nat, m \in Nat, n \in Nat, mine \in Seq(Values) :
        l = c.low /\ m = Len(st) /\ n = Len(vs) /\ mine = c.mine /\ l <= m
  BY DEF CallKeeps, Joined, Calls
<1>2. /\ u \in Seq(Values) /\ vs \in Seq(Values) /\ Len(u) = m + n
      /\ \A i \in 1 .. m : u[i] = st[i]
      /\ \A i \in 1 .. n : u[m + i] = vs[i]
  BY <1>1 DEF Joined
<1>3. Len(mine) = m - l /\ \A i \in 1 .. m - l : mine[i] = st[l + i]
  BY <1>1 DEF CallKeeps
<1>4. PICK both : both = mine \o vs
  OBVIOUS
<1> DEFINE k == m - l
<1>5. /\ both \in Seq(Values) /\ Len(both) = m - l + n
      /\ \A i \in 1 .. m - l : both[i] = mine[i]
      /\ \A i \in 1 .. n : both[m - l + i] = vs[i]
  <2>1. k \in Nat
    BY <1>1
  <2>2. Joined(both, mine, vs) /\ Len(mine) = k
    BY <1>1, <1>2, <1>3, <1>4, Concatenating
  <2> HIDE DEF k
  <2>3. Len(vs) = n
    BY <1>1
  <2>4. /\ both \in Seq(Values) /\ Len(both) = k + n
        /\ \A i \in 1 .. k : both[i] = mine[i]
        /\ \A i \in 1 .. n : both[k + i] = vs[i]
    BY <2>1, <2>2, <2>3 DEF Joined
  <2> QED  BY <2>4 DEF k
<1>6. ASSUME NEW i \in 1 .. m - l + n PROVE both[i] = u[l + i]
  <2>1. CASE i \in 1 .. m - l
    <3>1. l + i \in 1 .. m
      BY <1>1, <2>1
    <3> QED  BY <1>2, <1>3, <1>5, <2>1, <3>1
  <2>2. CASE i \notin 1 .. m - l
    <3>1. PICK j \in 1 .. n : i = m - l + j /\ l + i = m + j
      <4>1. i \in Nat /\ i <= m - l + n /\ i > m - l
        BY <1>1, <2>2
      <4>2. PICK j \in Int : j = i - (m - l)
        BY <1>1, <4>1
      <4>3. j \in 1 .. n
        BY <1>1, <4>1, <4>2
      <4>4. i = m - l + j /\ l + i = m + j
        BY <1>1, <4>1, <4>2
      <4> QED  BY <4>3, <4>4
    <3>2. l + i = m + j
      BY <3>1
    <3> QED  BY <1>2, <1>5, <3>1, <3>2
  <2> QED  BY <2>1, <2>2
<1>7. PICK d : d = [c EXCEPT !.mine = @ \o vs]
  OBVIOUS
<1>8. c \in Calls
  BY DEF CallKeeps
<1>9. d \in Calls /\ d.low = l /\ d.top = c.top /\ d.mine = both
  BY <1>1, <1>4, <1>5, <1>7, <1>8 DEF Calls
<1>10. m - l + n = (m + n) - l /\ l <= m + n
  BY <1>1
<1>11. l <= d.top
  BY <1>1, <1>9 DEF CallKeeps
<1>12. CallKeeps(d, u)
  BY <1>2, <1>5, <1>6, <1>9, <1>10, <1>11 DEF CallKeeps
<1> QED
  BY <1>7, <1>12

\* A running call keeps its history when values are taken off the top.
LEMMA ShrunkCall ==
  ASSUME NEW c, NEW st, CallKeeps(c, st), NEW n, NEW u, Cut(u, st, n)
  PROVE  CallKeeps([c EXCEPT !.low = IF n < @ THEN n ELSE @, !.mine = SubSeq(@, 1, n - c.low)], u)
<1>1. PICK l \in Nat, m \in Nat, mine \in Seq(Values) :
        l = c.low /\ m = Len(st) /\ mine = c.mine /\ l <= m
  BY DEF CallKeeps, Calls
<1>2. /\ n \in Nat /\ n <= m /\ u \in Seq(Values) /\ Len(u) = n
      /\ \A i \in 1 .. n : u[i] = st[i]
  BY <1>1 DEF Cut
<1>3. Len(mine) = m - l /\ \A i \in 1 .. m - l : mine[i] = st[l + i]
  BY <1>1 DEF CallKeeps
<1>4. PICK left, low : left = SubSeq(mine, 1, n - l) /\ low = IF n < l THEN n ELSE l
  OBVIOUS
<1>5. low \in Nat /\ low <= l /\ low <= n
  BY <1>1, <1>2, <1>4
<1>6. left \in Seq(Values) /\ Len(left) = n - low /\ \A i \in 1 .. n - low : left[i] = u[low + i]
  <2>1. CASE n < l
    <3>1. left = <<>> /\ n - low = 0
      BY <1>1, <1>2, <1>4, <2>1
    <3> QED  BY <3>1
  <2>2. CASE ~(n < l)
    <3>1. low = l /\ n - l \in 0 .. m - l
      BY <1>1, <1>2, <1>4, <2>2
    <3>2. left \in Seq(Values) /\ Len(left) = n - l /\ \A i \in 1 .. n - l : left[i] = mine[i]
      <4>1. Cut(left, mine, n - l)
        BY <1>1, <1>3, <1>4, <3>1, Taking
      <4> QED  BY <4>1 DEF Cut
    <3>3. ASSUME NEW i \in 1 .. n - l PROVE left[i] = u[l + i]
      <4>1. i \in 1 .. m - l /\ l + i \in 1 .. n
        BY <1>1, <1>2, <3>1
      <4> QED  BY <1>2, <1>3, <3>2, <4>1
    <3> QED  BY <3>1, <3>2, <3>3
  <2> QED  BY <2>1, <2>2
<1>7. PICK d : d = [c EXCEPT !.low = IF n < @ THEN n ELSE @, !.mine = SubSeq(@, 1, n - c.low)]
  OBVIOUS
<1>8. c \in Calls
  BY DEF CallKeeps
<1>9. d \in Calls /\ d.low = low /\ d.top = c.top /\ d.mine = left
  BY <1>1, <1>4, <1>5, <1>6, <1>7, <1>8 DEF Calls
<1>11. low <= d.top
  <2>1. l <= c.top /\ c.top \in Nat
    BY <1>1, <1>8 DEF CallKeeps, Calls
  <2> QED  BY <1>1, <1>5, <1>9, <2>1
<1>12. CallKeeps(d, u)
  BY <1>2, <1>5, <1>6, <1>9, <1>11 DEF CallKeeps
<1> QED
  BY <1>7, <1>12

\* Push and Exec add the same values to every running call.
LEMMA AllGrown ==
  ASSUME NEW cs, NEW st, KeepAll(cs, st), NEW u, NEW vs, Joined(u, st, vs)
  PROVE  KeepAll(Script!Grown(cs, vs), u)
<1>1. PICK n \in Nat : DOMAIN cs = 1 .. n /\ n = Len(cs)
  BY DEF KeepAll
<1>2. PICK d : d = Script!Grown(cs, vs)
  OBVIOUS
<1>3. d = [i \in 1 .. n |-> [cs[i] EXCEPT !.mine = @ \o vs]]
  BY <1>1, <1>2 DEF Script!Grown
<1>4. ASSUME NEW i \in 1 .. n PROVE CallKeeps(d[i], u)
  <2>1. CallKeeps(cs[i], st)
    BY <1>1 DEF KeepAll
  <2> QED  BY <1>3, <2>1, GrownCall
<1>5. \A i \in 1 .. n : d[i] \in Calls
  BY <1>4 DEF CallKeeps
<1>6. d \in Seq(Calls) /\ DOMAIN d = 1 .. n
  <2>1. DOMAIN d = 1 .. n
    BY <1>3
  <2>2. d = [i \in 1 .. n |-> d[i]]
    BY <1>3
  <2>3. d \in [1 .. n -> Calls]
    BY <1>5, <2>2
  <2> QED  BY <1>1, <2>1, <2>3
<1> QED
  BY <1>2, <1>4, <1>6 DEF KeepAll

\* Pop, Clear and Return take the same values from every running call.
LEMMA AllShrunk ==
  ASSUME NEW cs, NEW st, KeepAll(cs, st), NEW n, NEW u, Cut(u, st, n)
  PROVE  KeepAll(Script!Shrunk(cs, n), u)
<1>1. PICK m \in Nat : DOMAIN cs = 1 .. m /\ m = Len(cs)
  BY DEF KeepAll
<1>2. PICK d : d = Script!Shrunk(cs, n)
  OBVIOUS
<1>3. d = [i \in 1 .. m |-> [cs[i] EXCEPT !.low = IF n < @ THEN n ELSE @,
                                          !.mine = SubSeq(@, 1, n - cs[i].low)]]
  BY <1>1, <1>2 DEF Script!Shrunk
<1>4. ASSUME NEW i \in 1 .. m PROVE CallKeeps(d[i], u)
  <2>1. CallKeeps(cs[i], st)
    BY <1>1 DEF KeepAll
  <2>2. PICK c : c = cs[i]
    OBVIOUS
  <2>3. CallKeeps([c EXCEPT !.low = IF n < @ THEN n ELSE @, !.mine = SubSeq(@, 1, n - c.low)], u)
    BY <2>1, <2>2, ShrunkCall
  <2> QED  BY <1>3, <2>2, <2>3
<1>5. \A i \in 1 .. m : d[i] \in Calls
  BY <1>4 DEF CallKeeps
<1>6. d \in Seq(Calls) /\ DOMAIN d = 1 .. m
  <2>1. DOMAIN d = 1 .. m
    BY <1>3
  <2>2. d = [i \in 1 .. m |-> d[i]]
    BY <1>3
  <2>3. d \in [1 .. m -> Calls]
    BY <1>5, <2>2
  <2> QED  BY <1>1, <2>1, <2>3
<1> QED
  BY <1>2, <1>4, <1>6 DEF KeepAll

\* The calls within the innermost one.
LEMMA AllOuter ==
  ASSUME NEW cs, NEW st, KeepAll(cs, st), cs # <<>>
  PROVE  KeepAll(Tail(cs), st) /\ CallKeeps(Head(cs), st)
<1>1. PICK n \in Nat : DOMAIN cs = 1 .. n /\ n = Len(cs) /\ n > 0 /\ cs \in Seq(Calls)
  BY DEF KeepAll
<1>2. PICK d : d = Tail(cs)
  OBVIOUS
<1>3. /\ d \in Seq(Calls) /\ DOMAIN d = 1 .. n - 1
      /\ \A i \in 1 .. n - 1 : d[i] = cs[i + 1]
  BY <1>1, <1>2
<1>4. \A i \in 1 .. n - 1 : i + 1 \in 1 .. n
  BY <1>1
<1>5. \A i \in 1 .. n : CallKeeps(cs[i], st)
  BY <1>1 DEF KeepAll
<1>6. Head(cs) = cs[1] /\ 1 \in 1 .. n
  BY <1>1
<1>7. \A i \in 1 .. n - 1 : CallKeeps(d[i], st)
  BY <1>3, <1>4, <1>5
<1> QED
  BY <1>2, <1>3, <1>5, <1>6, <1>7 DEF KeepAll

\* A new call has found the stack as it is.
LEMMA AllInner ==
  ASSUME NEW cs, NEW st, KeepAll(cs, st), NEW b \in Nat
  PROVE  KeepAll(<<[before |-> b, top |-> Len(st), low |-> Len(st), mine |-> <<>>]>> \o cs, st)
         \/ st \notin Seq(Values)
<1> SUFFICES ASSUME st \in Seq(Values)
             PROVE  KeepAll(<<[before |-> b, top |-> Len(st), low |-> Len(st), mine |-> <<>>]>> \o cs, st)
  OBVIOUS
<1>1. PICK n \in Nat : DOMAIN cs = 1 .. n /\ n = Len(cs) /\ cs \in Seq(Calls)
  BY DEF KeepAll
<1>2. PICK c : c = [before |-> b, top |-> Len(st), low |-> Len(st), mine |-> <<>>]
  OBVIOUS
<1>3. CallKeeps(c, st)
  BY <1>2 DEF CallKeeps, Calls
<1>4. PICK d : d = <<c>> \o cs
  OBVIOUS
<1>5. c \in Calls
  BY <1>3 DEF CallKeeps
<1>6. /\ d \in Seq(Calls) /\ DOMAIN d = 1 .. n + 1 /\ d[1] = c
      /\ \A i \in 1 .. n : d[i + 1] = cs[i]
  BY <1>1, <1>4, <1>5
<1>7. ASSUME NEW i \in 1 .. n + 1 PROVE CallKeeps(d[i], st)
  <2>1. CASE i = 1
    BY <1>3, <1>6, <2>1
  <2>2. CASE i # 1
    <3>1. PICK j \in 1 .. n : i = j + 1
      <4>1. i - 1 \in 1 .. n /\ i = (i - 1) + 1
        BY <1>1, <2>2
      <4> QED  BY <4>1
    <3> QED  BY <1>1, <1>6, <3>1 DEF KeepAll
  <2> QED  BY <2>1, <2>2
<1> QED
  BY <1>2, <1>4, <1>6, <1>7 DEF KeepAll

\* The stack becomes that of s, which has more values.
LEMMA StackGrows ==
  ASSUME VMInv, NEW s, Sound(s), Joined(Vals(s), Script!Stack, s.values), Script!SetStack(s)
  PROVE  Sound(Script!Now') /\ Joined(Script!Stack', Script!Stack, s.values) /\ Len(s.elements) = Len(Script!Stack')
<1>1. elements' = s.elements /\ position' = s.position /\ mem' = s.mem
  BY DEF Script!SetStack
<1>2. /\ Script!Now'.elements = s.elements /\ Script!Now'.position = s.position /\ Script!Now'.mem = s.mem
  BY <1>1 DEF Script!Now
<1>3. Sound(Script!Now')
  BY <1>2 DEF Sound
<1>4. Vals(Script!Now') = Vals(s)
  BY <1>2 DEF Vals
<1>5. s.elements \in Seq(Elements)
  BY DEF Sound
<1>6. Len(s.elements) = Len(Vals(s))
  BY <1>5 DEF Vals
<1> QED
  BY <1>3, <1>4, <1>6, StackIsVals

\* All but the first n elements are taken off.
LEMMA StackShrinks ==
  ASSUME VMInv, NEW n \in 0 .. Len(elements), elements' = SubSeq(elements, 1, n),
         position' \in Nat, n = 0 \/ position' = position, mem' = mem
  PROVE  Sound(Script!Now') /\ Cut(Script!Stack', Script!Stack, n)
<1>1. PICK e, p, m : e = elements /\ p = position /\ m = mem
  OBVIOUS
<1>2. /\ e \in Seq(Elements) /\ p \in Nat /\ m \subseteq Cells
      /\ \A i \in DOMAIN e :
           /\ e[i].at + e[i].size <= p
           /\ \A j \in 1 .. i - 1 : e[j].at + e[j].size <= e[i].at
           /\ \E c \in m : c.at = e[i].at /\ c.size = e[i].size
      /\ \A c, d \in m : c = d \/ Apart(c, d)
  BY <1>1 DEF VMInv, Sound, Script!Now
<1>3. /\ Script!Now'.elements = SubSeq(e, 1, n) /\ Script!Now'.mem = m /\ Script!Now'.position = position'
  BY <1>1 DEF Script!Now
<1>4. PICK f : f = SubSeq(e, 1, n)
  OBVIOUS
<1>5. /\ f \in Seq(Elements) /\ Len(f) = n /\ DOMAIN f = 1 .. n
      /\ \A i \in 1 .. n : f[i] = e[i] /\ i \in DOMAIN e
  BY <1>1, <1>2, <1>4
<1>6. ASSUME NEW i \in 1 .. n
      PROVE  /\ f[i].at + f[i].size <= position'
             /\ \A j \in 1 .. i - 1 : f[j].at + f[j].size <= f[i].at
             /\ \E c \in m : c.at = f[i].at /\ c.size = f[i].size
  <2>1. \A j \in 1 .. i - 1 : j \in 1 .. n
    OBVIOUS
  <2>2. position' = p
    BY <1>1
  <2>3. \A j \in 1 .. i - 1 : e[j].at + e[j].size <= e[i].at
    BY <1>2, <1>5
  <2>4. \A j \in 1 .. i - 1 : f[j].at + f[j].size <= f[i].at
    BY <1>5, <2>1, <2>3
  <2>5. f[i].at + f[i].size <= position' /\ \E c \in m : c.at = f[i].at /\ c.size = f[i].size
    BY <1>2, <1>5, <2>2
  <2> QED  BY <2>4, <2>5
<1>7. Sound(Script!Now')
  BY <1>2, <1>3, <1>4, <1>5, <1>6 DEF Sound
<1>8. Script!Stack' = [i \in 1 .. n |-> In(m, f[i])]
  BY <1>3, <1>4, <1>5, StackIsVals DEF Vals
<1>9. Script!Stack = [i \in DOMAIN e |-> In(m, e[i])]
  BY <1>1, StackIsVals DEF Vals, Script!Now
<1>10. \A i \in 1 .. n : Script!Stack'[i] = Script!Stack[i] /\ Script!Stack[i] \in Values
  <2>1. DOMAIN Script!Stack = DOMAIN e
    BY <1>9
  <2>2. \A i \in 1 .. n : Script!Stack[i] \in Values
    BY <1>5, <2>1 DEF VMInv
  <2> QED  BY <1>5, <1>8, <1>9, <2>2
<1>11. Script!Stack' \in Seq(Values) /\ Len(Script!Stack') = n
  BY <1>8, <1>10
<1>12. Len(Script!Stack) = Len(e)
  BY <1>2, <1>9
<1> QED
  BY <1>1, <1>7, <1>10, <1>11, <1>12 DEF Cut, VMInv

\* The state before a step is sound, and nothing has been pushed yet.
LEMMA NowSound == ASSUME VMInv PROVE Joined(Vals(Script!Now), Script!Stack, <<>>) /\ Script!Now.values = <<>>
<1>1. Script!Now.values = <<>>
  BY DEF Script!Now
<1> QED
  BY <1>1, JoinedNone, StackIsVals DEF VMInv

\* Each step changes the stack at its top: by values that come, or that go.
StackMoves == \/ \E vs : Joined(Script!Stack', Script!Stack, vs)
              \/ \E n : Cut(Script!Stack', Script!Stack, n)

\* The start has an empty stack and no calls.
LEMMA VMStarts == Script!Init => VMInv
<1> SUFFICES ASSUME Script!Init PROVE VMInv
  OBVIOUS
<1>1. elements = <<>> /\ position = 0 /\ mem = {} /\ calls = <<>>
  BY DEF Script!Init
<1>2. Sound(Script!Now)
  BY <1>1 DEF Sound, Script!Now
<1>3. Script!Stack = <<>>
  BY <1>1 DEF Script!Stack
<1>4. KeepAll(calls, Script!Stack)
  BY <1>1 DEF KeepAll
<1>5. {exported, imported} \subseteq [FnNames -> Fns \cup {NoFn}]
  BY DEF Script!Init
<1> QED
  BY <1>2, <1>3, <1>4, <1>5 DEF VMInv

\* A step that leaves the VM alone.
LEMMA VMUnmoved ==
  ASSUME VMInv, UNCHANGED <<elements, position, mem, calls>>,
         {exported', imported'} \subseteq [FnNames -> Fns \cup {NoFn}]
  PROVE  VMInv' /\ StackMoves
<1>1. Script!Now' = Script!Now /\ Script!Stack' = Script!Stack /\ calls' = calls
  BY DEF Script!Now, Script!Stack, Script!Read
<1>2. VMInv'
  BY <1>1 DEF VMInv
<1>3. Joined(Script!Stack', Script!Stack, <<>>)
  BY <1>1, JoinedNone DEF VMInv
<1> QED
  BY <1>2, <1>3 DEF StackMoves

\* Every function of the VM keeps the invariant, and it only adds values at the
\* top or takes them from there.
LEMMA VMSteps == ASSUME VMInv, Script!Next PROVE VMInv' /\ StackMoves
<1>0. /\ Sound(Script!Now) /\ Script!Stack \in Seq(Values) /\ KeepAll(calls, Script!Stack)
      /\ {exported, imported} \subseteq [FnNames -> Fns \cup {NoFn}]
  BY DEF VMInv
<1>1. ASSUME NEW n \in FnNames, NEW f \in Fns, Script!RegisterExport(n, f) \/ Script!RegisterImport(n, f)
      PROVE  VMInv' /\ StackMoves
  <2>1. {exported', imported'} \subseteq [FnNames -> Fns \cup {NoFn}]
    BY <1>0, <1>1 DEF Script!RegisterExport, Script!RegisterImport
  <2>2. UNCHANGED <<elements, position, mem, calls>>
    BY <1>1 DEF Script!RegisterExport, Script!RegisterImport
  <2> QED  BY <2>1, <2>2, VMUnmoved
<1>2. ASSUME NEW v \in Values \cup {NullPtr}, Script!Push(v)
      PROVE  VMInv' /\ StackMoves
  <2>1. PICK s : s = Script!Pushed(Script!Now, v)
    OBVIOUS
  <2>2. Script!SetStack(s) /\ calls' = Script!Grown(calls, s.values) /\ UNCHANGED <<exported, imported>>
    BY <1>2, <2>1 DEF Script!Push
  <2>3. Sound(s) /\ Joined(Vals(s), Script!Stack, s.values)
    <3>1. CASE v = NullPtr
      BY <1>0, <2>1, <3>1, NowSound DEF Script!Pushed
    <3>2. CASE v \in Values
      <4>1. v # NullPtr
        BY <3>2, ScriptAssumption
      <4>2. Sound(s) /\ Vals(s) = Append(Script!Stack, v)
        BY <1>0, <2>1, <3>2, PushAdds, StackIsVals
      <4>3. s.values = Append(<<>>, v)
        BY <2>1, <4>1, NowSound DEF Script!Pushed
      <4>4. Joined(Append(Script!Stack, v), Script!Stack, Append(<<>>, v))
        BY <1>0, <3>2, JoinedNone, JoinedOneMore
      <4> QED  BY <4>2, <4>3, <4>4
    <3> QED  BY <3>1, <3>2
  <2>4. Sound(Script!Now') /\ Joined(Script!Stack', Script!Stack, s.values)
    BY <2>2, <2>3, StackGrows
  <2>5. KeepAll(calls', Script!Stack')
    BY <1>0, <2>2, <2>4, AllGrown
  <2>6. Script!Stack' \in Seq(Values)
    BY <2>4 DEF Joined
  <2> QED  BY <1>0, <2>2, <2>4, <2>5, <2>6 DEF VMInv, StackMoves
<1>3. ASSUME NEW n \in 0 .. Len(elements), elements' = SubSeq(elements, 1, n),
             position' \in Nat, n = 0 \/ position' = position, mem' = mem,
             NEW cs, KeepAll(cs, Script!Stack), calls' = Script!Shrunk(cs, n), UNCHANGED <<exported, imported>>
      PROVE  VMInv' /\ StackMoves
  <2>1. Sound(Script!Now') /\ Cut(Script!Stack', Script!Stack, n)
    BY <1>3, StackShrinks
  <2>2. KeepAll(calls', Script!Stack')
    BY <1>3, <2>1, AllShrunk
  <2>3. Script!Stack' \in Seq(Values)
    BY <2>1 DEF Cut
  <2> QED  BY <1>0, <1>3, <2>1, <2>2, <2>3 DEF VMInv, StackMoves
<1>4. elements \in Seq(Elements) /\ position \in Nat
  BY <1>0 DEF Sound, Script!Now
<1>5. ASSUME NEW n \in 1 .. MaxStack, Script!Pop(n)
      PROVE  VMInv' /\ StackMoves
  <2>1. PICK left : left = IF Len(elements) < n THEN 0 ELSE Len(elements) - n
    OBVIOUS
  <2>2. left \in 0 .. Len(elements)
    BY <1>4, <2>1, ScriptAssumption
  <2>3. /\ elements' = SubSeq(elements, 1, left) /\ calls' = Script!Shrunk(calls, left)
        /\ UNCHANGED <<exported, imported, position, mem>>
    BY <1>5, <2>1 DEF Script!Pop
  <2> QED  BY <1>0, <1>3, <1>4, <2>2, <2>3
<1>6. ASSUME NEW cs, KeepAll(cs, Script!Stack), elements' = <<>>, position' = 0, calls' = Script!Shrunk(cs, 0),
             UNCHANGED <<exported, imported, mem>>
      PROVE  VMInv' /\ StackMoves
  <2>1. 0 \in 0 .. Len(elements) /\ SubSeq(elements, 1, 0) = <<>>
    BY <1>4
  <2> QED  BY <1>3, <1>6, <2>1
<1>7. CASE Script!Clear
  BY <1>0, <1>6, <1>7 DEF Script!Clear
<1>8. CASE Script!Return
  <2>1. KeepAll(Tail(calls), Script!Stack)
    BY <1>0, <1>8, AllOuter DEF Script!Return
  <2> QED  BY <1>6, <1>8, <2>1 DEF Script!Return
<1>9. ASSUME NEW f, NEW args \in Script!BoundedSeq(Values \cup {NullPtr}, ArgsMax), Script!Exec(f, args)
      PROVE  VMInv' /\ StackMoves
  <2>1. args \in Seq(Values \cup {NullPtr})
    BY DEF Script!BoundedSeq, Script!SeqOf
  <2>2. PICK s : s = Script!FoldLeft(Script!Pushed, Script!Now, args)
    OBVIOUS
  <2>3. PICK b : b = Len(elements)
    OBVIOUS
  <2>4. /\ Script!SetStack(s) /\ UNCHANGED <<exported, imported>>
        /\ calls' = <<[before |-> b, top |-> Len(s.elements), low |-> Len(s.elements), mine |-> <<>>]>>
                      \o Script!Grown(calls, s.values)
    BY <1>9, <2>2, <2>3 DEF Script!Exec
  <2>5. Sound(s) /\ Joined(Vals(s), Script!Stack, s.values)
    BY <1>0, <2>1, <2>2, NowSound, PushesAdd, StackIsVals
  <2>6. Sound(Script!Now') /\ Joined(Script!Stack', Script!Stack, s.values) /\ Len(s.elements) = Len(Script!Stack')
    BY <2>4, <2>5, StackGrows
  <2>7. KeepAll(Script!Grown(calls, s.values), Script!Stack') /\ Script!Stack' \in Seq(Values) /\ b \in Nat
    <3>1. KeepAll(Script!Grown(calls, s.values), Script!Stack')
      BY <1>0, <2>6, AllGrown
    <3>2. Script!Stack' \in Seq(Values)
      BY <2>6 DEF Joined
    <3>3. b \in Nat
      BY <1>4, <2>3
    <3> QED  BY <3>1, <3>2, <3>3
  <2>8. KeepAll(calls', Script!Stack')
    BY <2>4, <2>6, <2>7, AllInner
  <2> QED  BY <1>0, <2>4, <2>6, <2>7, <2>8 DEF VMInv, StackMoves
<1> QED
  BY <1>1, <1>2, <1>5, <1>7, <1>8, <1>9 DEF Script!Next

\* Fitting takes a first part of the values, and one that fits.
LEMMA NoBytes == Script!Bytes(<<>>) = 0
<1> DEFINE g == [r \in SUBSET {} |-> 0]
           Step(h) == [r \in SUBSET DOMAIN <<>> |->
                         IF r = {} THEN 0 ELSE h[r \ {Script!Max(r)}] + Size[<<>>[Script!Max(r)]]]
<1>1. DOMAIN <<>> = {}
  OBVIOUS
<1>2. \A r \in SUBSET {} : r = {}
  OBVIOUS
<1>3. \A h : Step(h) = g
  BY <1>1, <1>2
<1>4. Script!Bytes(<<>>) = (CHOOSE h : h = Step(h))[DOMAIN <<>>]
  BY DEF Script!Bytes, Script!FoldLeft, Script!MapThenFoldSet
<1> HIDE DEF Step
<1>5. (CHOOSE h : h = Step(h)) = g
  <2>1. \E h : h = Step(h)
    BY <1>3
  <2> QED  BY <1>3, <2>1
<1> QED
  BY <1>1, <1>4, <1>5

\* What script_exec collects fits the slots and the buffer of its result.
LEMMA FittingFits ==
  ASSUME NEW vs \in Seq(Values)
  PROVE  Len(Script!Fitting(vs)) <= RetMax /\ Script!Bytes(Script!Fitting(vs)) < RetBuffer
<1> DEFINE enough(j) == Script!Bytes(SubSeq(vs, 1, j)) < RetBuffer
           fits(k) == k <= RetMax /\ \A j \in 1 .. k : Script!Bytes(SubSeq(vs, 1, j)) < RetBuffer
           last(k) == fits(k) /\ (k < Len(vs) => ~fits(k + 1))
           k == CHOOSE i \in 0 .. Len(vs) : last(i)
<1>1. PICK n \in Nat : n = Len(vs)
  OBVIOUS
<1>2. fits(0)
  BY ScriptAssumption
<1>3. \E i \in 0 .. n : last(i)
  <2> DEFINE T == {i \in 1 .. n : ~fits(i)}
  <2> HIDE DEF fits
  <2>1. CASE T = {}
    <3>1. n \in 0 .. n /\ fits(n)
      <4>1. CASE n = 0
        BY <1>2, <4>1
      <4>2. CASE n # 0
        BY <2>1, <4>2
      <4> QED  BY <4>1, <4>2
    <3> QED  BY <1>1, <3>1
  <2>2. CASE T # {}
    <3>1. PICK i \in T : \A j \in T : i <= j
      <4>1. T \in SUBSET Nat
        OBVIOUS
      <4> HIDE DEF T
      <4> QED  BY <2>2, <4>1, LeastNumber
    <3>2. i \in 1 .. n /\ ~fits(i) /\ i - 1 \in 0 .. n /\ (i - 1) + 1 = i
      BY <3>1
    <3>3. fits(i - 1)
      <4>1. CASE i = 1
        BY <1>2, <4>1
      <4>2. CASE i # 1
        <5>1. i - 1 \in 1 .. n /\ i - 1 < i
          BY <3>2, <4>2
        <5> QED  BY <3>1, <5>1
      <4> QED  BY <4>1, <4>2
    <3> QED  BY <3>2, <3>3
  <2> QED  BY <2>1, <2>2
<1>4. k \in 0 .. n /\ last(k)
  <2> HIDE DEF last
  <2> QED  BY <1>1, <1>3
<1>5. Script!Fitting(vs) = SubSeq(vs, 1, k)
  BY DEF Script!Fitting
<1>6. fits(k)
  BY <1>4
<1> HIDE DEF k
<1>7. Len(SubSeq(vs, 1, k)) = k
  BY <1>1, <1>4, Taking DEF Cut
<1>8. Script!Bytes(SubSeq(vs, 1, k)) < RetBuffer
  <2>1. CASE k = 0
    <3>1. SubSeq(vs, 1, 0) = <<>>
      OBVIOUS
    <3>2. 0 < RetBuffer
      BY ScriptAssumption
    <3>3. SubSeq(vs, 1, k) = <<>>
      BY <2>1, <3>1
    <3> QED  BY <3>2, <3>3, NoBytes
  <2>2. CASE k # 0
    <3>1. k \in 1 .. k
      BY <1>4, <2>2
    <3> QED  BY <1>6, <3>1
  <2> QED  BY <2>1, <2>2
<1>9. k <= RetMax
  BY <1>6
<1> QED
  BY <1>5, <1>7, <1>8, <1>9

\* The rest of a sequence behind its first p.
LEMMA Rest ==
  ASSUME NEW a \in Seq(Values), NEW p \in Nat, NEW n \in Nat, NEW m \in Nat,
         m = Len(a), p + n = m
  PROVE  /\ SubSeq(a, p + 1, m) \in Seq(Values) /\ Len(SubSeq(a, p + 1, m)) = n
         /\ \A i \in 1 .. n : SubSeq(a, p + 1, m)[i] = a[p + i]
OBVIOUS

\* Behind the last one there is nothing.
LEMMA NoRest ==
  ASSUME NEW a \in Seq(Values), NEW p \in Nat, NEW m \in Nat, m <= p
  PROVE  SubSeq(a, p + 1, m) = <<>>
OBVIOUS

\* What lies above a call's arguments is the end of what it left.
LEMMA ResultsKept ==
  ASSUME NEW c, NEW st, CallKeeps(c, st)
  PROVE  /\ SubSeq(st, c.top + 1, Len(st)) = SubSeq(c.mine, c.top - c.low + 1, Len(c.mine))
         /\ SubSeq(st, c.top + 1, Len(st)) \in Seq(Values)
<1>1. PICK l \in Nat, t \in Nat, m \in Nat, mine \in Seq(Values) :
        l = c.low /\ t = c.top /\ m = Len(st) /\ mine = c.mine /\ l <= m /\ l <= t
  BY DEF CallKeeps, Calls
<1>a. l <= m /\ l <= t
  BY <1>1
<1>2. PICK k \in Nat, h \in Nat : k = m - l /\ h = t - l
  <2>1. m - l \in Nat /\ t - l \in Nat
    BY <1>a
  <2> QED  BY <2>1
<1>b. Len(st) = m
  BY <1>1
<1>3. /\ st \in Seq(Values) /\ Len(mine) = k
      /\ \A i \in 1 .. k : mine[i] = st[l + i]
  BY <1>1, <1>2 DEF CallKeeps
<1>4. SubSeq(st, t + 1, m) = SubSeq(mine, h + 1, k) /\ SubSeq(st, t + 1, m) \in Seq(Values)
  <2>1. CASE m <= t
    <3>1. k <= h
      BY <1>a, <1>2, <2>1
    <3>2. SubSeq(st, t + 1, m) = <<>> /\ SubSeq(mine, h + 1, k) = <<>>
      BY <1>b, <1>3, <2>1, <3>1, NoRest
    <3>3. <<>> \in Seq(Values)
      OBVIOUS
    <3> QED  BY <3>2, <3>3, Zenon
  <2>2. CASE ~(m <= t)
    <3>1. PICK n \in Nat : t + n = m /\ h + n = k
      <4>1. m - t \in Nat /\ t + (m - t) = m /\ h + (m - t) = k
        BY <1>a, <1>2, <2>2
      <4> QED  BY <4>1
    <3>2. PICK x, y : x = SubSeq(st, t + 1, m) /\ y = SubSeq(mine, h + 1, k)
      OBVIOUS
    <3>3. x \in Seq(Values) /\ Len(x) = n /\ \A i \in 1 .. n : x[i] = st[t + i]
      BY <1>b, <1>3, <3>1, <3>2, Rest
    <3>4. y \in Seq(Values) /\ Len(y) = n /\ \A i \in 1 .. n : y[i] = mine[h + i]
      BY <1>3, <3>1, <3>2, Rest
    <3>5. ASSUME NEW i \in 1 .. n PROVE x[i] = y[i]
      <4>1. h + i \in 1 .. k /\ l + (h + i) = t + i
        BY <1>a, <1>2, <3>1
      <4> QED  BY <1>3, <3>3, <3>4, <4>1
    <3> QED  BY <3>2, <3>3, <3>4, <3>5, SeqEqual
  <2> QED  BY <2>1, <2>2
<1> QED
  BY <1>1, <1>2, <1>3, <1>4

\* The invariant of the VM, for any values, sizes and limits and any nesting of
\* calls: the elements lie over the values they were pushed with, and every call
\* that runs knows what is above the least height the stack had in it.
THEOREM VMInvHolds == Script!Spec => []VMInv
<1>1. VMInv /\ [Script!Next]_(Script!vars) => VMInv'
  <2>1. ASSUME VMInv, UNCHANGED Script!vars PROVE VMInv'
    <3>1. {exported', imported'} \subseteq [FnNames -> Fns \cup {NoFn}]
      BY <2>1 DEF Script!vars, VMInv
    <3> QED  BY <2>1, <3>1, VMUnmoved DEF Script!vars
  <2> QED  BY <2>1, VMSteps
<1> QED
  BY <1>1, VMStarts, PTL DEF Script!Spec

\* The elements on the stack never overlap, none reaches past the end of the
\* buffer, and each reads the value that was pushed, whatever pop, clear and
\* script_exec left behind in the bytes.
THEOREM StackSoundHolds == Script!Spec => []Script!StackSound
<1>1. VMInv => Script!StackSound
  <2> SUFFICES ASSUME VMInv PROVE Script!StackSound
    OBVIOUS
  <2>1. /\ elements \in Seq(Elements) /\ position \in Nat /\ mem \subseteq Cells
        /\ \A i \in DOMAIN elements :
             /\ elements[i].at + elements[i].size <= position
             /\ \A j \in 1 .. i - 1 : elements[j].at + elements[j].size <= elements[i].at
    BY DEF VMInv, Sound, Script!Now
  <2>2. Elements \subseteq [at : Nat, size : Nat] /\ Cells \subseteq [at : Nat, size : Nat, val : Values]
    BY DEF Elements, Cells
  <2>3. elements \in Seq([at : Nat, size : Nat])
    BY <2>1, <2>2, SeqMonotonic
  <2>4. Script!TypeOK
    BY <2>1, <2>2, <2>3 DEF Script!TypeOK, VMInv
  <2>5. \A i \in DOMAIN elements : Script!Stack[i] \in Values
    <3>1. DOMAIN Script!Stack = DOMAIN elements
      BY DEF Script!Stack
    <3> QED  BY <3>1 DEF VMInv
  <2> QED  BY <2>1, <2>4, <2>5 DEF Script!StackSound
<1> QED
  BY <1>1, VMInvHolds, PTL

\* script_exec collects what the function and those under it left above its
\* arguments, less as many values from the front as the stack once fell below
\* them, and never more than gs_core_vm_exec_ret_t takes.
THEOREM ResultsAreTheCallsHolds == Script!Spec => []ResultsAreTheCalls
<1>1. VMInv => Script!ResultsAreTheCalls
  <2> SUFFICES ASSUME VMInv, calls # <<>>
               PROVE  LET c == Head(calls)
                      IN  /\ Script!Collected(c) = Script!Fitting(SubSeq(c.mine, c.top - c.low + 1, Len(c.mine)))
                          /\ Len(Script!Collected(c)) <= RetMax /\ Script!Bytes(Script!Collected(c)) < RetBuffer
    BY DEF Script!ResultsAreTheCalls
  <2>1. PICK c : c = Head(calls)
    OBVIOUS
  <2>2. CallKeeps(c, Script!Stack)
    BY <2>1, AllOuter DEF VMInv
  <2>3. PICK vs \in Seq(Values) : /\ vs = SubSeq(Script!Stack, c.top + 1, Len(Script!Stack))
                                 /\ vs = SubSeq(c.mine, c.top - c.low + 1, Len(c.mine))
    BY <2>2, ResultsKept
  <2>4. Script!Collected(c) = Script!Fitting(vs)
    BY <2>3 DEF Script!Collected
  <2>5. Len(Script!Fitting(vs)) <= RetMax /\ Script!Bytes(Script!Fitting(vs)) < RetBuffer
    BY <2>3, FittingFits
  <2> QED  BY <2>1, <2>3, <2>4, <2>5
<1> QED
  BY <1>1, VMInvHolds, StackSoundHolds, PTL DEF ResultsAreTheCalls

\* A step adds values at the top or takes them from the top, and leaves the ones
\* under it: no function of the VM writes into somebody else's values.
THEOREM StackDisciplineHolds == Script!Spec => StackDiscipline
<1>1. ASSUME NEW u, NEW a, NEW b, Joined(u, a, b) PROVE Script!IsPrefix(a, u)
  <2>1. PICK m \in Nat, n \in Nat : Len(a) = m /\ Len(b) = n
    BY <1>1 DEF Joined
  <2>2. /\ a \in Seq(Values) /\ u \in Seq(Values) /\ Len(u) = m + n
        /\ \A i \in 1 .. m : u[i] = a[i]
    BY <1>1, <2>1 DEF Joined
  <2>3. m \in 0 .. Len(u) /\ m \in 0 .. Len(a)
    BY <2>1, <2>2
  <2>4. Cut(SubSeq(u, 1, m), u, m) /\ Cut(SubSeq(a, 1, m), a, m)
    BY <2>2, <2>3, Taking
  <2>5. SubSeq(u, 1, m) = SubSeq(a, 1, m)
    BY <2>2, <2>4, SeqEqual DEF Cut
  <2> QED  BY <2>1, <2>3, <2>5 DEF Script!IsPrefix
<1>2. ASSUME NEW u, NEW st, NEW n, Cut(u, st, n) PROVE Script!IsPrefix(u, st)
  <2>1. /\ u \in Seq(Values) /\ st \in Seq(Values) /\ n \in Nat /\ Len(u) = n /\ n <= Len(st)
        /\ \A i \in 1 .. n : u[i] = st[i]
    BY <1>2 DEF Cut
  <2>2. n \in 0 .. Len(u) /\ n \in 0 .. Len(st)
    BY <2>1
  <2>3. Cut(SubSeq(u, 1, n), u, n) /\ Cut(SubSeq(st, 1, n), st, n)
    BY <2>1, <2>2, Taking
  <2>4. SubSeq(u, 1, n) = SubSeq(st, 1, n)
    BY <2>1, <2>3, SeqEqual DEF Cut
  <2> QED  BY <2>1, <2>4 DEF Script!IsPrefix
<1>3. StackMoves => Script!IsPrefix(Script!Stack, Script!Stack') \/ Script!IsPrefix(Script!Stack', Script!Stack)
  BY <1>1, <1>2 DEF StackMoves
<1>4. VMInv /\ [Script!Next]_(Script!vars) => [Script!IsPrefix(Script!Stack, Script!Stack') \/ Script!IsPrefix(Script!Stack', Script!Stack)]_(Script!vars)
  BY <1>3, VMSteps
<1> QED
  BY <1>4, VMInvHolds, PTL DEF StackDiscipline, Script!StackDiscipline, Script!Spec
-----------------------------------------------------------------------------
(* The host of the network. *)

\* A destroyed host has no type; and as long as no creation went wrong, the union
\* holds what its host's type says, and nothing before there is a host.
ConnectionInv ==
  /\ enetHost \in {"null", "live", "dead"} /\ hostType \in {"invalid", "server", "client"}
  /\ Connection!DeadHostUnused
  /\ clean =>
       /\ enetHost = "dead" => hostType = "invalid"
       /\ enetHost = "null" => union = "null"
       /\ hostType = "server" => union \in {"null", "table"}
       /\ hostType = "client" => union \in {"null", "peer"}

\* Whatever is called after a host was destroyed, it is not used.
THEOREM ConnectionHolds == Connection!Spec => []Connection!DeadHostUnused
<1> USE DEF ConnectionInv, Connection!DeadHostUnused
<1>1. Connection!Init => ConnectionInv
  BY DEF Connection!Init
<1>2. ASSUME ConnectionInv, [Connection!Next]_(Connection!vars) PROVE ConnectionInv'
  <2>1. ASSUME NEW created, Connection!ServerCreate(created) PROVE ConnectionInv'
    BY <1>2, <2>1 DEF Connection!ServerCreate
  <2>2. ASSUME NEW outcome \in {"no host", "no peer", "timeout", "connected"}, Connection!ClientCreate(outcome)
        PROVE  ConnectionInv'
    BY <1>2, <2>2 DEF Connection!ClientCreate
  <2>3. CASE Connection!HostDestroy
    <3>1. CASE hostType = "invalid"
      BY <1>2, <2>3, <3>1 DEF Connection!HostDestroy, Connection!Destroyed
    <3>2. CASE hostType # "invalid"
      <4>1. hostType' = "invalid" /\ clean' = clean /\ enetHost' = IF enetHost = "null" THEN "null" ELSE "dead"
        BY <2>3, <3>2 DEF Connection!HostDestroy, Connection!Destroyed
      <4>2. PICK connected \in Connection!Connected :
              /\ misused' = misused \cup (IF connected THEN Connection!Asked \cup Connection!UnionUsed ELSE Connection!Asked \cup Connection!HostUsed)
              /\ union' = CASE hostType = "client" /\ connected -> "null"
                            [] union = "table" -> "old table"
                            [] OTHER -> union
        BY <2>3, <3>2 DEF Connection!HostDestroy, Connection!Destroyed, Connection!Misused
      <4>3. clean => misused' = misused
        BY <1>2, <3>2, <4>2 DEF Connection!Asked, Connection!UnionUsed, Connection!HostUsed
      <4>4. enetHost' = "null" => enetHost = "null"
        BY <4>1
      <4>5. clean /\ enetHost = "null" => union' = "null"
        BY <1>2, <4>2
      <4> QED  BY <1>2, <4>1, <4>3, <4>4, <4>5
    <3> QED  BY <3>1, <3>2
  <2>4. ASSUME NEW answered, Connection!Disconnect(answered) PROVE ConnectionInv'
    BY <1>2, <2>4 DEF Connection!Disconnect, Connection!Misused, Connection!Asked, Connection!UnionUsed, Connection!HostUsed, Connection!Connected
  <2>5. CASE Connection!PollData \/ Connection!PollConnect \/ Connection!PollDisconnect
    BY <1>2, <2>5 DEF Connection!PollData, Connection!PollConnect, Connection!PollDisconnect, Connection!Poll, Connection!Misused, Connection!UnionUsed, Connection!HostUsed
  <2>6. CASE Connection!Send \/ Connection!NumConnections
    BY <1>2, <2>6 DEF Connection!Send, Connection!NumConnections, Connection!Misused, Connection!Asked, Connection!UnionUsed, Connection!HostUsed
  <2>7. CASE UNCHANGED Connection!vars
    BY <1>2, <2>7 DEF Connection!vars
  <2> QED  BY <1>2, <2>1, <2>2, <2>3, <2>4, <2>5, <2>6, <2>7 DEF Connection!Next
<1> QED
  BY <1>1, <1>2, PTL DEF Connection!Spec
-----------------------------------------------------------------------------
(* The host. *)

\* The places of the steps in the life of the program.
StartRank ==
  [app |-> 1, sched |-> 2, meta |-> 3, register |-> 4, assets |-> 5, physics |-> 6,
   entities |-> 7, network |-> 8, ai |-> 9, gfx |-> 10, ecs |-> 11, entity |-> 12,
   commands |-> 13, app_meta |-> 14, app_init |-> 15]
StopRank ==
  [app_shutdown |-> 16, app_meta |-> 17, app |-> 18, sched |-> 19, register |-> 20,
   network |-> 21, entities |-> 22, physics |-> 23, gfx |-> 24, assets |-> 25]

Rank(step) == IF step[1] = "new" THEN StartRank[step[2]] ELSE StopRank[step[2]]

ScriptSteps == {Core!New(s) : s \in DOMAIN StartRank} \cup {Core!Free(s) : s \in DOMAIN StopRank}

\* A script goes through them in order.
InOrder(s) ==
  /\ s \in Seq(ScriptSteps)
  /\ \A i, j \in DOMAIN s : i < j => Rank(s[i]) < Rank(s[j])

\* The steps that are left, and the time after the entities' shutdown.
Left == {todo[i] : i \in DOMAIN todo}
Shut == "entities" \notin up /\ Core!New("entities") \notin Left

\* A script starts or stops; what is left of it says what is still to come.
ScriptInv ==
  /\ editor \in BOOLEAN
  /\ InOrder(todo)
  /\ \A r, s \in Left : r[1] = s[1]
  /\ Core!New("app") \in Left => Core!New("app_meta") \in Left
  /\ Core!Free("app_meta") \in Left => Core!Free("app") \in Left \/ Core!Free("entities") \in Left
  /\ Core!Free("app") \in Left => editor
  /\ \A s \in DOMAIN StopRank \ {"app_shutdown", "app_meta", "app"} :
       Core!Free(s) \in Left => Core!Free("entities") \in Left \/ Shut
  /\ Shut => \A s \in Left : Rank(s) > StopRank["entities"]

\* A system runs from its start to its end.
UpInv ==
  /\ "meta" \in up \/ Core!New("meta") \in Left
  /\ \A s \in Core!Structs : s \in up \/ Core!New(s) \in Left \/ Core!Free("entities") \in Left \/ Shut
  /\ \A s \in {"sched", "network", "physics", "assets"} : Core!Free(s) \in Left => s \in up
  /\ Core!Free("entities") \in Left \/ Core!Free("app_shutdown") \in Left => "gfx" \in up

\* A class of the core has its vtable in the program, one of the application in
\* the library that is loaded, and while there is an application its classes are
\* registered.
RegistryInv ==
  /\ build \in Nat
  /\ \A c \in DOMAIN info :
       \/ c \in DOMAIN Core!CoreClasses /\ info[c] = 0
       \/ /\ c \in DOMAIN Core!AppClasses /\ info[c] = Core!AppLib /\ app # Core!Null
          /\ Core!New("app") \notin Left /\ Core!New("app_meta") \notin Left
          /\ Core!Free("app") \in Left => Core!Free("app_meta") \in Left
  /\ \/ DOMAIN Core!CoreClasses \subseteq DOMAIN info
     \/ Core!New("register") \in Left \/ Core!Free("entities") \in Left \/ Shut
  /\ app # Core!Null =>
       \/ "app_t" \in DOMAIN info
       \/ Core!New("app_meta") \in Left \/ Core!Free("app") \in Left
       \/ Core!Free("entities") \in Left \/ Shut
  /\ Core!Free("app_shutdown") \in Left => "app_t" \in DOMAIN info
  /\ Core!New("app_init") \in Left => Core!New("app_meta") \in Left \/ "app_t" \in DOMAIN info
  /\ Core!New("app_meta") \in Left => Core!New("app") \in Left \/ app # Core!Null
  /\ ~editor => Core!New("app") \in Left \/ app # Core!Null

\* What flecs knows: components of registered classes, and systems whose
\* callbacks are where the registry says.
EcsInv ==
  /\ Core!New("ecs") \in Left \/ Core!Components(Core!CoreClasses) \subseteq DOMAIN components
  /\ "app_t" \in DOMAIN info => "app_component_t" \in DOMAIN components
  /\ ~editor => \A c \in DOMAIN components : components[c] = 0
  /\ \A s \in systems :
       \E c \in DOMAIN info \cap (Core!Systems(Core!CoreClasses) \cup Core!Systems(Core!AppClasses)) : s = <<c, info[c]>>

\* Commands and variables name each other.
Listed(cmds, cv) ==
  /\ IsFiniteSet(DOMAIN cmds) /\ DOMAIN cmds \subseteq Nat
  /\ \A n \in DOMAIN cv : cv[n][1] \in DOMAIN cmds /\ cmds[cv[n][1]] = <<n, cv[n][2]>>
  /\ \A h \in DOMAIN cmds :
       cmds[h][1] \in Core!AppCvars => cmds[h][1] \in DOMAIN cv /\ cv[cmds[h][1]][1] = h

\* The console shows what is registered, and a variable lies in the library of
\* the application.
ConsoleInv ==
  /\ Listed(commands, cvars)
  /\ shown = {commands[h] : h \in DOMAIN commands}
  /\ DOMAIN cvars \subseteq Core!AppCvars
  /\ \A n \in DOMAIN cvars : "app_t" \in DOMAIN info /\ cvars[n][2] = info["app_t"]

\* Entities have components flecs knows, and the scene's renderables are theirs.
WorldInv ==
  /\ \A e \in DOMAIN world :
       DOMAIN world[e] \subseteq {Core!Transform, Core!Renderable, "app_component_t"} \cap DOMAIN components
  /\ IsFiniteSet(renderables) /\ renderables \subseteq Nat
  /\ Core!New("gfx") \in Left \/ Core!New("register") \in Left =>
       world = <<>> /\ renderables = {} /\ held = {}
  /\ Core!SceneMatchesWorld

HostInv == ScriptInv /\ UpInv /\ RegistryInv /\ EcsInv /\ ConsoleInv /\ WorldInv /\ Core!NoFault

\* The steps of a script.
Parts(s) == {s[i] : i \in DOMAIN s}

\* Every step of a script has a place.
LEMMA Ranks ==
  /\ \A s \in ScriptSteps : Rank(s) \in 1 .. 25
  /\ \A s \in DOMAIN StartRank : Rank(Core!New(s)) = StartRank[s]
  /\ \A s \in DOMAIN StopRank : Rank(Core!Free(s)) = StopRank[s]
<1>1. \A s : Core!New(s)[1] = "new" /\ Core!New(s)[2] = s
  BY DEF Core!New
<1>2. \A s : Core!Free(s)[1] = "free" /\ Core!Free(s)[2] = s
  BY DEF Core!Free
<1>3. \A s \in DOMAIN StartRank : StartRank[s] \in 1 .. 25
  BY DEF StartRank
<1>4. \A s \in DOMAIN StopRank : StopRank[s] \in 1 .. 25
  BY DEF StopRank
<1>5. \A s \in DOMAIN StartRank : Rank(Core!New(s)) = StartRank[s]
  BY <1>1 DEF Rank
<1>6. \A s \in DOMAIN StopRank : Rank(Core!Free(s)) = StopRank[s]
  BY <1>2 DEF Rank
<1>7. \A s \in ScriptSteps : Rank(s) \in 1 .. 25
  BY <1>3, <1>4, <1>5, <1>6 DEF ScriptSteps
<1> QED
  BY <1>5, <1>6, <1>7

\* A step that is done is the first of what was left, and only it is gone.
LEMMA Doing ==
  ASSUME InOrder(todo), NEW step, Core!Do(step)
  PROVE  /\ step \in Left
         /\ InOrder(todo')
         /\ Left' = Left \ {step}
         /\ \A r \in Left : r # step => Rank(step) < Rank(r)
<1>1. /\ todo \in Seq(ScriptSteps) /\ todo # <<>> /\ step = todo[1]
      /\ todo' = Tail(todo)
  BY DEF InOrder, Core!Do
<1>2. PICK n \in Nat : Len(todo) = n /\ n > 0 /\ DOMAIN todo = 1 .. n
  BY <1>1
<1>3. /\ todo' \in Seq(ScriptSteps) /\ DOMAIN todo' = 1 .. n - 1
      /\ \A i \in 1 .. n - 1 : todo'[i] = todo[i + 1]
  BY <1>1, <1>2
<1>4. \A i \in 2 .. n : Rank(todo[1]) < Rank(todo[i])
  BY <1>2 DEF InOrder
<1>5. \A i, j \in 1 .. n - 1 : i < j => Rank(todo'[i]) < Rank(todo'[j])
  <2> SUFFICES ASSUME NEW i \in 1 .. n - 1, NEW j \in 1 .. n - 1, i < j
               PROVE  Rank(todo[i + 1]) < Rank(todo[j + 1])
    BY <1>3
  <2> QED  BY <1>2 DEF InOrder
<1>6. InOrder(todo')
  BY <1>3, <1>5 DEF InOrder
<1>7. Left' = {todo[i] : i \in 2 .. n}
  <2>1. Left' = {todo'[i] : i \in 1 .. n - 1}
    BY <1>3 DEF Left
  <2>2. \A i \in 1 .. n - 1 : i + 1 \in 2 .. n /\ todo'[i] = todo[i + 1]
    BY <1>2, <1>3
  <2>3. \A i \in 2 .. n : i - 1 \in 1 .. n - 1 /\ todo'[i - 1] = todo[i]
    BY <1>2, <1>3
  <2> QED  BY <2>1, <2>2, <2>3
<1>8. Left = {todo[i] : i \in 1 .. n}
  BY <1>2 DEF Left
<1>9. \A i \in 1 .. n : i = 1 \/ i \in 2 .. n
  BY <1>2
<1>10. step \in ScriptSteps /\ \A i \in 2 .. n : todo[i] \in ScriptSteps
  BY <1>1, <1>2
<1>11. Rank(step) \in Int
  BY <1>10, Ranks
<1>12. \A i \in 2 .. n : todo[i] # step
  BY <1>1, <1>4, <1>11
<1>13. 1 \in 1 .. n /\ \A i \in 2 .. n : i \in 1 .. n
  BY <1>2
<1>14. Left' = Left \ {step}
  BY <1>1, <1>7, <1>8, <1>9, <1>12, <1>13
<1>15. \A r \in Left : r # step => Rank(step) < Rank(r)
  BY <1>1, <1>4, <1>8, <1>9
<1> QED
  BY <1>1, <1>6, <1>8, <1>13, <1>14, <1>15

\* Two scripts one after the other.
LEMMA Joining ==
  ASSUME NEW s, InOrder(s), NEW t, InOrder(t),
         \A a \in Parts(s), b \in Parts(t) : Rank(a) < Rank(b)
  PROVE  InOrder(s \o t) /\ Parts(s \o t) = Parts(s) \cup Parts(t)
<1>1. s \in Seq(ScriptSteps) /\ t \in Seq(ScriptSteps)
  BY DEF InOrder
<1>2. PICK m \in Nat, n \in Nat : /\ Len(s) = m /\ DOMAIN s = 1 .. m
                                 /\ Len(t) = n /\ DOMAIN t = 1 .. n
  BY <1>1
<1>3. PICK u : u = s \o t
  OBVIOUS
<1>11. u \in Seq(ScriptSteps) /\ DOMAIN u = 1 .. m + n
  <2>1. u \in Seq(ScriptSteps) /\ Len(u) = m + n
    BY <1>1, <1>2, <1>3
  <2> QED  BY <2>1
<1>12. \A i \in 1 .. m : u[i] = s[i]
  BY <1>1, <1>2, <1>3
<1>13. \A i \in 1 .. n : u[m + i] = t[i]
  BY <1>1, <1>2, <1>3
<1>4. /\ u \in Seq(ScriptSteps) /\ DOMAIN u = 1 .. m + n
      /\ \A i \in 1 .. m : u[i] = s[i]
      /\ \A i \in 1 .. n : u[m + i] = t[i]
  BY <1>11, <1>12, <1>13
<1>5. \A i \in m + 1 .. m + n : i - m \in 1 .. n /\ u[i] = t[i - m]
  <2> SUFFICES ASSUME NEW i \in m + 1 .. m + n PROVE i - m \in 1 .. n /\ u[i] = t[i - m]
    OBVIOUS
  <2>1. i - m \in 1 .. n /\ m + (i - m) = i
    BY <1>2
  <2> QED  BY <1>4, <2>1
<1>6. \A i \in 1 .. m + n : i \in 1 .. m \/ i \in m + 1 .. m + n
  BY <1>2
<1>7. Parts(s) = {s[i] : i \in 1 .. m} /\ Parts(t) = {t[i] : i \in 1 .. n}
  BY <1>2 DEF Parts
<1>8. ASSUME NEW i \in 1 .. m + n, NEW j \in 1 .. m + n, i < j
      PROVE  Rank(u[i]) < Rank(u[j])
  <2>1. CASE j \in 1 .. m
    <3>1. i \in 1 .. m
      BY <1>2, <1>8, <2>1
    <3> QED  BY <1>2, <1>4, <1>8, <2>1, <3>1 DEF InOrder
  <2>2. CASE i \in 1 .. m /\ j \in m + 1 .. m + n
    <3>1. u[i] \in Parts(s) /\ u[j] \in Parts(t)
      BY <1>4, <1>5, <1>7, <2>2
    <3> QED  BY <3>1
  <2>3. CASE i \in m + 1 .. m + n /\ j \in m + 1 .. m + n
    <3>1. i - m < j - m
      BY <1>2, <1>8
    <3>2. Rank(t[i - m]) < Rank(t[j - m])
      BY <1>2, <1>5, <2>3, <3>1 DEF InOrder
    <3> QED  BY <1>5, <2>3, <3>2
  <2> QED  BY <1>6, <1>8, <2>1, <2>2, <2>3
<1>9. InOrder(u)
  BY <1>4, <1>8 DEF InOrder
<1>10. Parts(u) = Parts(s) \cup Parts(t)
  <2>1. Parts(u) = {u[i] : i \in 1 .. m + n}
    BY <1>4 DEF Parts
  <2>2. \A i \in 1 .. m : i \in 1 .. m + n
    BY <1>2
  <2>3. \A i \in 1 .. n : m + i \in 1 .. m + n
    BY <1>2
  <2> QED  BY <1>4, <1>5, <1>6, <1>7, <2>1, <2>2, <2>3
<1> QED  BY <1>3, <1>9, <1>10

\* The first two of three.
LEMMA FirstTwo ==
  ASSUME NEW S, NEW s \in Seq(S), Len(s) = 3
  PROVE  /\ SubSeq(s, 1, 2) \in Seq(S) /\ Len(SubSeq(s, 1, 2)) = 2
         /\ \A i \in 1 .. 2 : SubSeq(s, 1, 2)[i] = s[i]
OBVIOUS

\* What the scripts of the host consist of.
LEMMA Scripts ==
  /\ InOrder(Core!StartOrder) /\ InOrder(Core!StopOrder) /\ InOrder(Core!AppStart) /\ InOrder(Core!AppStop)
  /\ InOrder(<<>>) /\ InOrder(<<Core!New("app")>>) /\ InOrder(Tail(Core!AppStart)) /\ InOrder(SubSeq(Core!AppStop, 1, 2))
  /\ Parts(Core!StartOrder) = {Core!New(s) : s \in Core!Structs \cup {"register", "ecs", "entity", "commands"}}
  /\ Parts(Core!StopOrder) = {Core!Free(s) : s \in {"sched", "register", "network", "entities", "physics", "gfx", "assets"}}
  /\ Parts(Core!AppStart) = {Core!New("app"), Core!New("app_meta"), Core!New("app_init")}
  /\ Parts(Core!AppStop) = {Core!Free("app_shutdown"), Core!Free("app_meta"), Core!Free("app")}
  /\ Parts(<<>>) = {} /\ Parts(<<Core!New("app")>>) = {Core!New("app")}
  /\ Parts(Tail(Core!AppStart)) = {Core!New("app_meta"), Core!New("app_init")}
  /\ Parts(SubSeq(Core!AppStop, 1, 2)) = {Core!Free("app_shutdown"), Core!Free("app_meta")}
<1>1. /\ Core!StartOrder = <<Core!New("sched"), Core!New("meta"), Core!New("register"), Core!New("assets"), Core!New("physics"),
                        Core!New("entities"), Core!New("network"), Core!New("ai"), Core!New("gfx"), Core!New("ecs"),
                        Core!New("entity"), Core!New("commands")>>
  BY DEF Core!StartOrder, Core!Each
<1>2. Core!StopOrder = <<Core!Free("sched"), Core!Free("register"), Core!Free("network"), Core!Free("entities"),
                    Core!Free("physics"), Core!Free("gfx"), Core!Free("assets")>>
  BY DEF Core!StopOrder, Core!Each
<1>3. Core!AppStart = <<Core!New("app"), Core!New("app_meta"), Core!New("app_init")>>
  BY DEF Core!AppStart, Core!Each
<1>4. Core!AppStop = <<Core!Free("app_shutdown"), Core!Free("app_meta"), Core!Free("app")>>
  BY DEF Core!AppStop, Core!Each
<1>5. Tail(Core!AppStart) = <<Core!New("app_meta"), Core!New("app_init")>>
  BY <1>3
<1>6. PICK x : x = SubSeq(Core!AppStop, 1, 2)
  OBVIOUS
<1>15. Core!AppStop \in Seq(ScriptSteps) /\ Len(Core!AppStop) = 3
  BY <1>4 DEF ScriptSteps, StopRank
<1>16. x \in Seq(ScriptSteps) /\ DOMAIN x = 1 .. 2 /\ x[1] = Core!AppStop[1] /\ x[2] = Core!AppStop[2]
  BY <1>6, <1>15, FirstTwo
<1>17. x[1] = Core!Free("app_shutdown") /\ x[2] = Core!Free("app_meta")
  BY <1>4, <1>16
<1>7. InOrder(Core!StartOrder)
  BY <1>1, Ranks DEF InOrder, ScriptSteps, StartRank
<1>8. InOrder(Core!StopOrder)
  BY <1>2, Ranks DEF InOrder, ScriptSteps, StopRank
<1>9. InOrder(Core!AppStart) /\ InOrder(Tail(Core!AppStart)) /\ InOrder(<<Core!New("app")>>) /\ InOrder(<<>>)
  BY <1>3, <1>5, Ranks DEF InOrder, ScriptSteps, StartRank
<1>10. InOrder(Core!AppStop)
  BY <1>4, Ranks DEF InOrder, ScriptSteps, StopRank
<1>18. InOrder(x)
  <2>1. Rank(x[1]) = 16 /\ Rank(x[2]) = 17
    BY <1>17, Ranks DEF StopRank
  <2>2. \A i, j \in 1 .. 2 : i < j => i = 1 /\ j = 2
    OBVIOUS
  <2> QED  BY <1>16, <2>1, <2>2 DEF InOrder
<1>11. Parts(Core!StartOrder) = {Core!New(s) : s \in Core!Structs \cup {"register", "ecs", "entity", "commands"}}
  BY <1>1 DEF Parts, Core!Structs
<1>12. Parts(Core!StopOrder) = {Core!Free(s) : s \in {"sched", "register", "network", "entities", "physics", "gfx", "assets"}}
  BY <1>2 DEF Parts
<1>13. Parts(Core!AppStart) = {Core!New("app"), Core!New("app_meta"), Core!New("app_init")} /\ Parts(<<Core!New("app")>>) = {Core!New("app")} /\ Parts(<<>>) = {}
       /\ Parts(Tail(Core!AppStart)) = {Core!New("app_meta"), Core!New("app_init")}
  BY <1>3, <1>5 DEF Parts
<1>14. Parts(Core!AppStop) = {Core!Free("app_shutdown"), Core!Free("app_meta"), Core!Free("app")}
  BY <1>4 DEF Parts
<1>19. Parts(x) = {Core!Free("app_shutdown"), Core!Free("app_meta")}
  <2>1. Parts(x) = {x[i] : i \in 1 .. 2}
    BY <1>16 DEF Parts
  <2>2. \A i \in 1 .. 2 : i = 1 \/ i = 2
    OBVIOUS
  <2> QED  BY <1>17, <2>1, <2>2
<1> QED
  BY <1>6, <1>18, <1>19, <1>7, <1>8, <1>9, <1>10, <1>11, <1>12, <1>13, <1>14

\* No two steps are the same.
LEMMA StepNames ==
  /\ \A s, t : Core!New(s) # Core!Free(t) /\ (Core!New(s) = Core!New(t) => s = t) /\ (Core!Free(s) = Core!Free(t) => s = t)
  /\ \A s : Core!New(s)[1] = "new" /\ Core!Free(s)[1] = "free"
BY DEF Core!New, Core!Free

\* The place of each step.
LEMMA RankOf ==
  /\ Rank(Core!New("app")) = 1 /\ Rank(Core!New("sched")) = 2 /\ Rank(Core!New("meta")) = 3
  /\ Rank(Core!New("register")) = 4 /\ Rank(Core!New("entities")) = 7 /\ Rank(Core!New("gfx")) = 10
  /\ Rank(Core!New("ecs")) = 11 /\ Rank(Core!New("entity")) = 12 /\ Rank(Core!New("commands")) = 13
  /\ Rank(Core!New("app_meta")) = 14 /\ Rank(Core!New("app_init")) = 15
  /\ Rank(Core!Free("app_shutdown")) = 16 /\ Rank(Core!Free("app_meta")) = 17 /\ Rank(Core!Free("app")) = 18
  /\ Rank(Core!Free("sched")) = 19 /\ Rank(Core!Free("register")) = 20 /\ Rank(Core!Free("network")) = 21
  /\ Rank(Core!Free("entities")) = 22 /\ Rank(Core!Free("physics")) = 23 /\ Rank(Core!Free("gfx")) = 24
  /\ Rank(Core!Free("assets")) = 25
  /\ StopRank["entities"] = 22
BY Ranks DEF StartRank, StopRank

\* A system is started.
LEMMA NewKeeps ==
  ASSUME ScriptInv, UpInv, editor' = editor,
         NEW s \in Core!Structs, Core!Do(Core!New(s)), up' = up \cup {s}
  PROVE  ScriptInv' /\ UpInv' /\ (Shut' <=> Shut)
<1>1. /\ Core!New(s) \in Left /\ InOrder(todo') /\ Left' = Left \ {Core!New(s)}
      /\ \A r \in Left : r # Core!New(s) => Rank(Core!New(s)) < Rank(r)
  BY Doing DEF ScriptInv
<1>2. \A t : Core!Free(t) \notin Left
  BY <1>1, StepNames DEF ScriptInv
<1>3. Shut' <=> Shut
  BY <1>1, StepNames DEF Shut
<1>4. s # "app_meta"
  BY DEF Core!Structs
<1>5. ScriptInv'
  BY <1>1, <1>2, <1>3, <1>4, StepNames DEF ScriptInv
<1>6. UpInv'
  BY <1>1, <1>2, <1>3, StepNames DEF UpInv
<1> QED
  BY <1>3, <1>5, <1>6

\* A step between them.
LEMMA PlainKeeps ==
  ASSUME ScriptInv, UpInv, editor' = editor, up' = up, NEW step, Core!Do(step),
         \/ step \in {Core!New(s) : s \in {"app", "register", "ecs", "entity", "commands", "app_meta", "app_init"}}
         \/ step \in {Core!Free(s) : s \in {"app_shutdown", "app_meta", "app", "register"}}
  PROVE  ScriptInv' /\ UpInv' /\ (Shut' <=> Shut)
<1>1. /\ step \in Left /\ InOrder(todo') /\ Left' = Left \ {step}
      /\ \A r \in Left : r # step => Rank(step) < Rank(r)
  BY Doing DEF ScriptInv
<1>2. step # Core!New("entities") /\ step # Core!Free("entities") /\ \A s \in Core!Structs : step # Core!New(s)
  BY StepNames DEF Core!Structs
<1>3. Shut' <=> Shut
  BY <1>1, <1>2 DEF Shut
<1>4. Core!New("app") \in Left' => Core!New("app_meta") \in Left'
  BY <1>1, StepNames, RankOf DEF ScriptInv
<1>5. Core!Free("app_meta") \in Left' => Core!Free("app") \in Left' \/ Core!Free("entities") \in Left'
  BY <1>1, <1>2, StepNames, RankOf DEF ScriptInv
<1>6. ScriptInv'
  BY <1>1, <1>2, <1>3, <1>4, <1>5 DEF ScriptInv
<1>7. UpInv'
  BY <1>1, <1>2, <1>3 DEF UpInv, Core!Structs
<1> QED
  BY <1>3, <1>6, <1>7

\* A system is stopped.
LEMMA FreeKeeps ==
  ASSUME ScriptInv, UpInv, editor' = editor,
         NEW s \in {"sched", "network", "entities", "physics", "gfx", "assets"},
         Core!Do(Core!Free(s)), up' = up \ {s}
  PROVE  ScriptInv' /\ UpInv' /\ (Shut' <=> Shut \/ s = "entities")
<1>1. /\ Core!Free(s) \in Left /\ InOrder(todo') /\ Left' = Left \ {Core!Free(s)}
      /\ \A r \in Left : r # Core!Free(s) => Rank(Core!Free(s)) < Rank(r)
  BY Doing DEF ScriptInv
<1>2. \A t : Core!New(t) \notin Left
  BY <1>1, StepNames DEF ScriptInv
<1>3. Shut' <=> Shut \/ s = "entities"
  BY <1>1, <1>2 DEF Shut
<1>4. CASE s = "entities"
  <2>1. Core!Free("app_meta") \notin Left /\ Core!Free("app_shutdown") \notin Left
    BY <1>1, <1>4, StepNames, RankOf
  <2>2. \A r \in Left' : Rank(r) > StopRank["entities"]
    <3> SUFFICES ASSUME NEW r \in Left' PROVE Rank(r) > 22
      BY RankOf
    <3>1. r \in ScriptSteps
      BY <1>1 DEF ScriptInv, InOrder, Left
    <3>2. Rank(r) \in Int
      BY <3>1, Ranks
    <3> QED  BY <1>1, <1>4, <3>2, RankOf
  <2>3. ScriptInv'
    BY <1>1, <1>2, <1>3, <1>4, <2>1, <2>2 DEF ScriptInv
  <2>4. UpInv'
    BY <1>1, <1>2, <1>3, <1>4, <2>1 DEF UpInv
  <2> QED  BY <1>3, <2>3, <2>4
<1>5. CASE s # "entities"
  <2>1. Core!Free("entities") \in Left' \/ Shut'
    <3>1. s \in DOMAIN StopRank \ {"app_shutdown", "app_meta", "app"}
      BY DEF StopRank
    <3> QED  BY <1>1, <1>3, <1>5, <3>1, StepNames DEF ScriptInv
  <2>2. s = "gfx" => Core!Free("entities") \notin Left /\ Core!Free("app_shutdown") \notin Left
    BY <1>1, StepNames, RankOf
  <2>3. ScriptInv'
    BY <1>1, <1>2, <1>3, <1>5, <2>1, StepNames DEF ScriptInv
  <2>4. UpInv'
    BY <1>1, <1>2, <1>3, <1>5, <2>1, <2>2, StepNames DEF UpInv, Core!Structs
  <2> QED  BY <1>3, <2>3, <2>4
<1> QED
  BY <1>4, <1>5

\* While the program runs nothing of a script is left.
LEMMA Idle ==
  ASSUME ScriptInv, UpInv, todo = <<>>, "entities" \in up
  PROVE  Left = {} /\ ~Shut /\ Core!Structs \subseteq up
<1>1. Left = {} /\ ~Shut
  BY DEF Left, Shut
<1> QED
  BY <1>1 DEF UpInv

\* A script is begun.
LEMMA BeginKeeps ==
  ASSUME ScriptInv, UpInv, todo = <<>>, "entities" \in up,
         editor' = editor, up' = up, InOrder(todo'),
         \/ editor /\ Left' = Parts(Core!AppStart)
         \/ editor /\ Left' = Parts(Core!AppStop)
         \/ ~editor /\ Left' = Parts(SubSeq(Core!AppStop, 1, 2)) \cup Parts(Core!StopOrder)
         \/ editor /\ Left' = Parts(Core!AppStop) \cup Parts(Core!StopOrder)
         \/ editor /\ Left' = Parts(Core!StopOrder)
  PROVE  ScriptInv' /\ UpInv' /\ ~Shut'
<1>1. Left = {} /\ ~Shut /\ Core!Structs \subseteq up
  BY Idle
<1>2. ~Shut'
  BY DEF Shut
<1>3. \A r, s \in Left' : r[1] = s[1]
  BY Scripts, StepNames
<1>4. \A s \in DOMAIN StopRank \ {"app_shutdown", "app_meta", "app"} :
        Core!Free(s) \in Left' => Core!Free("entities") \in Left'
  BY Scripts, StepNames DEF StopRank
<1>5. /\ Core!New("app") \in Left' => Core!New("app_meta") \in Left'
      /\ Core!Free("app_meta") \in Left' => Core!Free("app") \in Left' \/ Core!Free("entities") \in Left'
      /\ Core!Free("app") \in Left' => editor
  BY Scripts, StepNames
<1>6. ScriptInv'
  BY <1>2, <1>3, <1>4, <1>5 DEF ScriptInv
<1>7. UpInv'
  BY <1>1 DEF UpInv, Core!Structs
<1> QED
  BY <1>2, <1>6, <1>7

\* What Quit begins.
LEMMA Quitting ==
  ASSUME Core!Quit, editor \in BOOLEAN
  PROVE  /\ InOrder(todo')
         /\ \/ ~editor /\ Left' = Parts(SubSeq(Core!AppStop, 1, 2)) \cup Parts(Core!StopOrder)
            \/ editor /\ app # Core!Null /\ Left' = Parts(Core!AppStop) \cup Parts(Core!StopOrder)
            \/ editor /\ app = Core!Null /\ Left' = Parts(Core!StopOrder)
<1>1. Left' = Parts(todo')
  BY DEF Left, Parts
<1>2. \A a \in Parts(Core!AppStop) \cup Parts(SubSeq(Core!AppStop, 1, 2)), b \in Parts(Core!StopOrder) : Rank(a) < Rank(b)
  <2>1. Parts(Core!AppStop) \cup Parts(SubSeq(Core!AppStop, 1, 2)) = {Core!Free("app_shutdown"), Core!Free("app_meta"), Core!Free("app")}
    BY Scripts
  <2>2. \A a \in Parts(Core!AppStop) \cup Parts(SubSeq(Core!AppStop, 1, 2)) : Rank(a) \in 16 .. 18
    BY <2>1, RankOf
  <2>3. \A b \in Parts(Core!StopOrder) : Rank(b) \in 19 .. 25
    BY Scripts, RankOf
  <2> QED  BY <2>2, <2>3
<1>3. CASE ~editor
  <2>1. todo' = SubSeq(Core!AppStop, 1, 2) \o Core!StopOrder
    BY <1>3 DEF Core!Quit
  <2> QED  BY <1>1, <1>2, <1>3, <2>1, Joining, Scripts
<1>4. CASE editor /\ app = Core!Null
  <2>1. todo' = <<>> \o Core!StopOrder
    BY <1>4 DEF Core!Quit
  <2>2. \A a \in Parts(<<>>) : FALSE
    BY Scripts
  <2>3. InOrder(todo') /\ Parts(todo') = Parts(<<>>) \cup Parts(Core!StopOrder)
    BY <2>1, <2>2, Joining, Scripts
  <2> QED  BY <1>1, <1>4, <2>2, <2>3
<1>5. CASE editor /\ app # Core!Null
  <2>1. todo' = Core!AppStop \o Core!StopOrder
    BY <1>5 DEF Core!Quit
  <2> QED  BY <1>1, <1>2, <1>5, <2>1, Joining, Scripts
<1> QED
  BY <1>3, <1>4, <1>5

\* The program starts with all there is to start.
LEMMA ScriptsStart ==
  ASSUME Core!Init
  PROVE  /\ ScriptInv /\ UpInv /\ ~Shut
         /\ Parts(Core!StartOrder) \subseteq Left /\ \A s : Core!Free(s) \notin Left
         /\ Core!New("app") \in Left <=> ~editor
         /\ Core!New("app_meta") \in Left <=> ~editor
         /\ Core!New("app_init") \in Left <=> ~editor
<1>1. Left = Parts(todo)
  BY DEF Left, Parts
<1>2. InOrder(todo) /\ Left = IF editor THEN Parts(Core!StartOrder)
                              ELSE {Core!New("app")} \cup Parts(Core!StartOrder) \cup {Core!New("app_meta"), Core!New("app_init")}
  <2>1. CASE editor
    BY <1>1, <2>1, Scripts DEF Core!Init
  <2>2. CASE ~editor
    <3>1. PICK u : u = <<Core!New("app")>> \o Core!StartOrder
      OBVIOUS
    <3>2. \A b \in Parts(Core!StartOrder) : Rank(b) \in 2 .. 13
      BY Scripts, Ranks DEF StartRank, Core!Structs
    <3>3. \A a \in Parts(<<Core!New("app")>>), b \in Parts(Core!StartOrder) : Rank(a) < Rank(b)
      <4>1. \A a \in Parts(<<Core!New("app")>>) : Rank(a) = 1
        BY Scripts, RankOf
      <4> QED  BY <3>2, <4>1
    <3>4. InOrder(u) /\ Parts(u) = {Core!New("app")} \cup Parts(Core!StartOrder)
      BY <3>1, <3>3, Joining, Scripts
    <3>5. \A a \in Parts(u), b \in Parts(Tail(Core!AppStart)) : Rank(a) < Rank(b)
      <4>1. \A a \in Parts(u) : Rank(a) \in 1 .. 13
        BY <3>2, <3>4, RankOf
      <4>2. \A b \in Parts(Tail(Core!AppStart)) : Rank(b) \in 14 .. 15
        BY Scripts, RankOf
      <4> QED  BY <4>1, <4>2
    <3>6. todo = u \o Tail(Core!AppStart)
      BY <2>2, <3>1 DEF Core!Init
    <3>7. InOrder(todo) /\ Parts(todo) = Parts(u) \cup Parts(Tail(Core!AppStart))
      BY <3>4, <3>5, <3>6, Joining, Scripts
    <3> QED  BY <1>1, <2>2, <3>4, <3>7, Scripts
  <2> QED  BY <2>1, <2>2
<1>3. \A s : Core!Free(s) \notin Left
  BY <1>2, Scripts, StepNames
<1>4. \A s \in Left : s[1] = "new"
  BY <1>2, Scripts, StepNames
<1>5. /\ Parts(Core!StartOrder) \subseteq Left /\ Core!New("entities") \in Left
      /\ \A s \in Core!Structs : Core!New(s) \in Left
  BY <1>2, Scripts DEF Core!Structs
<1>6. /\ Core!New("app") \in Left <=> ~editor
      /\ Core!New("app_meta") \in Left <=> ~editor
      /\ Core!New("app_init") \in Left <=> ~editor
  BY <1>2, Scripts, StepNames DEF Core!Structs
<1>7. ~Shut
  BY <1>5 DEF Shut
<1>8. ScriptInv
  BY <1>2, <1>3, <1>4, <1>6, <1>7 DEF ScriptInv, Core!Init
<1>9. UpInv
  BY <1>3, <1>5 DEF UpInv, Core!Structs
<1> QED
  BY <1>3, <1>5, <1>6, <1>7, <1>8, <1>9

\* gs_slot_array_insert finds an index that is free.
LEMMA FreeIsFree ==
  ASSUME NEW used \in SUBSET Nat, IsFiniteSet(used)
  PROVE  Core!FreeHandle(used) \in Nat \ used
<1>1. PICK n \in Nat : n = Cardinality(used)
  BY FS_CardinalityType
<1> DEFINE T == {h \in 0 .. n : h \notin used}
<1>2. T # {}
  <2> SUFFICES ASSUME T = {} PROVE FALSE
    OBVIOUS
  <2>1. 0 .. n \subseteq used
    OBVIOUS
  <2>2. Cardinality(0 .. n) <= n
    BY <1>1, <2>1, FS_Subset
  <2>3. Cardinality(0 .. n) = n + 1
    BY FS_Interval
  <2> QED  BY <2>2, <2>3
<1>3. T \in SUBSET Nat
  OBVIOUS
<1>4. PICK h \in T : \A k \in T : h <= k
  <2> HIDE DEF T
  <2> QED  BY <1>2, <1>3, LeastNumber
<1>5. Core!Min(T) \in T
  <2>1. \E x \in T : \A y \in T : x <= y
    BY <1>4
  <2> HIDE DEF T
  <2> QED  BY <2>1 DEF Core!Min
<1>6. Core!FreeHandle(used) = Core!Min(T)
  <2>1. Cardinality(used) = Core!Cardinality(used)
    BY DEF Cardinality, Core!Cardinality
  <2> HIDE DEF T
  <2> QED  BY <1>1, <2>1 DEF Core!FreeHandle, T
<1> QED
  BY <1>3, <1>5, <1>6

\* What the classes of the core and of the application are.
LEMMA ClassFacts ==
  /\ DOMAIN Core!AppClasses = {"app_t", "app_component_t", "app_system_t"}
  /\ DOMAIN Core!AppClasses \cap DOMAIN Core!CoreClasses = {}
  /\ {Core!Transform, Core!Renderable, "gs_core_component_tag_t"} \subseteq Core!Components(Core!CoreClasses)
  /\ "app_component_t" \in Core!Components(Core!AppClasses)
  /\ \A classes : Core!Components(classes) \subseteq DOMAIN classes /\ Core!Systems(classes) \subseteq DOMAIN classes
  /\ Core!Renderable \in DOMAIN Core!CoreClasses
  /\ Core!Transform # Core!Renderable /\ Core!Renderable # "app_component_t"
<1>1. DOMAIN Core!AppClasses = {"app_t", "app_component_t", "app_system_t"}
  BY DEF Core!AppClasses
<1>2. "app_t" \notin DOMAIN Core!CoreClasses /\ "app_component_t" \notin DOMAIN Core!CoreClasses /\ "app_system_t" \notin DOMAIN Core!CoreClasses
  BY DEF Core!CoreClasses
<1>3. /\ Core!CoreClasses[Core!Transform] = Core!gs_core_component_transform_t
      /\ Core!CoreClasses[Core!Renderable] = Core!gs_core_component_renderable_t
      /\ Core!CoreClasses["gs_core_component_tag_t"] = Core!gs_core_component_tag_t
      /\ {Core!Transform, Core!Renderable, "gs_core_component_tag_t"} \subseteq DOMAIN Core!CoreClasses
  BY DEF Core!CoreClasses, Core!Transform, Core!Renderable
<1>4. \A b, s : Core!Class(b, s).base = b
  BY DEF Core!Class
<1>5. /\ Core!gs_core_component_transform_t.base = "gs_core_entities_component_t"
      /\ Core!gs_core_component_renderable_t.base = "gs_core_entities_component_t"
      /\ Core!gs_core_component_tag_t.base = "gs_core_entities_component_t"
  BY <1>4 DEF Core!gs_core_component_transform_t, Core!gs_core_component_renderable_t, Core!gs_core_component_tag_t, Core!Plain
<1>6. Core!AppClasses["app_component_t"].base = "gs_core_entities_component_t"
  BY <1>4 DEF Core!AppClasses
<1>7. {Core!Transform, Core!Renderable, "gs_core_component_tag_t"} \subseteq Core!Components(Core!CoreClasses)
  BY <1>3, <1>5 DEF Core!Components, Core!Derived
<1>8. "app_component_t" \in Core!Components(Core!AppClasses)
  BY <1>1, <1>6 DEF Core!Components, Core!Derived
<1>9. \A classes : Core!Components(classes) \subseteq DOMAIN classes /\ Core!Systems(classes) \subseteq DOMAIN classes
  BY DEF Core!Components, Core!Systems, Core!Derived
<1>10. Core!Transform # Core!Renderable /\ Core!Renderable # "app_component_t"
  BY DEF Core!Transform, Core!Renderable
<1> QED
  BY <1>1, <1>2, <1>3, <1>7, <1>8, <1>9, <1>10

\* The base of each class, and that no class has more than three above it.
LEMMA BasesKnown ==
  LET base(c) == Core!Classes[c].base
      Roots   == {"gs_core_obj_t", "gs_core_app_t", "gs_core_asset_t", "gs_core_entities_component_t",
                  "gs_core_entities_system_t", "gs_core_network_rpc_t"}
  IN  /\ \A c \in DOMAIN Core!Classes : base(c) \in Roots \cup {Core!Null}
      /\ Roots \subseteq DOMAIN Core!Classes
      /\ \A c \in Roots : base(c) = IF c = "gs_core_obj_t" THEN Core!Null ELSE "gs_core_obj_t"
      /\ Core!Null \notin Roots
<1> DEFINE Roots == {"gs_core_obj_t", "gs_core_app_t", "gs_core_asset_t", "gs_core_entities_component_t",
                     "gs_core_entities_system_t", "gs_core_network_rpc_t"}
<1>1. \A b, s : Core!Class(b, s).base = b
  BY DEF Core!Class
<1>2. \A b : Core!Plain(b).base = b /\ DOMAIN Core!Plain(b) = {"base", "slots"}
  BY DEF Core!Plain, Core!Class
<1>3. \A d : Core!Message(d).base = "gs_core_network_rpc_t"
  BY <1>2 DEF Core!Message, Core!Over
<1>4. /\ Core!gs_core_obj_t.base = Core!Null /\ Core!gs_core_app_t.base = "gs_core_obj_t"
      /\ Core!gs_core_graphics_renderpass_t.base = "gs_core_obj_t" /\ Core!gs_core_asset_t.base = "gs_core_obj_t"
      /\ Core!gs_core_entities_system_t.base = "gs_core_obj_t" /\ Core!gs_core_network_rpc_t.base = "gs_core_obj_t"
      /\ Core!gs_core_asset_texture_t.base = "gs_core_asset_t"
      /\ Core!gs_core_component_renderable_t.base = "gs_core_entities_component_t"
      /\ Core!gs_core_system_renderable_t.base = "gs_core_entities_system_t"
  BY <1>1 DEF Core!gs_core_obj_t, Core!gs_core_app_t, Core!gs_core_graphics_renderpass_t, Core!gs_core_asset_t,
       Core!gs_core_entities_system_t, Core!gs_core_network_rpc_t, Core!gs_core_asset_texture_t,
       Core!gs_core_component_renderable_t, Core!gs_core_system_renderable_t
<1>5. /\ Core!gs_core_asset_handle_t.base = "gs_core_obj_t" /\ Core!gs_core_entities_component_t.base = "gs_core_obj_t"
      /\ Core!gs_core_component_transform_t.base = "gs_core_entities_component_t"
      /\ Core!gs_core_component_tag_t.base = "gs_core_entities_component_t"
  BY <1>2 DEF Core!gs_core_asset_handle_t, Core!gs_core_entities_component_t, Core!gs_core_component_transform_t, Core!gs_core_component_tag_t
<1>6. \A c \in {Core!gs_core_asset_mesh_t, Core!gs_core_asset_material_t, Core!gs_core_asset_font_t, Core!gs_core_asset_pipeline_t,
                Core!gs_core_asset_ui_stylesheet_t, Core!gs_core_asset_script_t, Core!gs_core_asset_audio_t} :
        c.base = "gs_core_asset_t"
  BY <1>2 DEF Core!gs_core_asset_mesh_t, Core!gs_core_asset_material_t, Core!gs_core_asset_font_t, Core!gs_core_asset_pipeline_t,
       Core!gs_core_asset_ui_stylesheet_t, Core!gs_core_asset_script_t, Core!gs_core_asset_audio_t
<1>7. Core!gs_core_network_rpc_reliable_t.base = "gs_core_network_rpc_t" /\ Core!gs_core_network_rpc_unreliable_t.base = "gs_core_network_rpc_t"
  BY <1>3 DEF Core!gs_core_network_rpc_reliable_t, Core!gs_core_network_rpc_unreliable_t
<1>8. \A c \in DOMAIN Core!CoreClasses : Core!CoreClasses[c].base \in Roots \cup {Core!Null}
  BY <1>4, <1>5, <1>6, <1>7 DEF Core!CoreClasses
<1>9. \A c \in DOMAIN Core!AppClasses : Core!AppClasses[c].base \in Roots
  BY <1>1 DEF Core!AppClasses
<1>10. /\ DOMAIN Core!Classes = DOMAIN Core!CoreClasses \cup DOMAIN Core!AppClasses
       /\ \A c \in DOMAIN Core!CoreClasses : Core!Classes[c] = Core!CoreClasses[c]
       /\ \A c \in DOMAIN Core!AppClasses \ DOMAIN Core!CoreClasses : Core!Classes[c] = Core!AppClasses[c]
  BY DEF Core!Classes, Core!Over
<1>11. \A c \in DOMAIN Core!Classes : Core!Classes[c].base \in Roots \cup {Core!Null}
  BY <1>8, <1>9, <1>10
<1>12. Roots \subseteq DOMAIN Core!CoreClasses
  BY DEF Core!CoreClasses
<1>13. \A c \in Roots : Core!CoreClasses[c].base = IF c = "gs_core_obj_t" THEN Core!Null ELSE "gs_core_obj_t"
  BY <1>4, <1>5 DEF Core!CoreClasses
<1>14. Core!Null \notin Roots
  BY DEF Core!Null
<1> QED
  BY <1>10, <1>11, <1>12, <1>13, <1>14

\* A table as the generated vtable inits fill it.
Tables(f) ==
  f = [c \in DOMAIN Core!Classes |->
         IF Core!Classes[c].base = Core!Null THEN Core!Classes[c].slots
         ELSE Core!Over(Core!Classes[c].slots, f[Core!Classes[c].base])]

\* There is such a table: what the classes have above them is known.
LEMMA TablesExist == \E f : Tables(f)
<1> DEFINE base(c) == Core!Classes[c].base
           Roots == {"gs_core_obj_t", "gs_core_app_t", "gs_core_asset_t", "gs_core_entities_component_t",
                     "gs_core_entities_system_t", "gs_core_network_rpc_t"}
           first == Core!Classes["gs_core_obj_t"].slots
           second(c) == IF c = "gs_core_obj_t" THEN first ELSE Core!Over(Core!Classes[c].slots, first)
           third(c) == IF base(c) = Core!Null THEN Core!Classes[c].slots ELSE Core!Over(Core!Classes[c].slots, second(base(c)))
           f == [c \in DOMAIN Core!Classes |-> third(c)]
<1>1. /\ \A c \in DOMAIN Core!Classes : base(c) \in Roots \cup {Core!Null}
      /\ Roots \subseteq DOMAIN Core!Classes
      /\ \A c \in Roots : base(c) = IF c = "gs_core_obj_t" THEN Core!Null ELSE "gs_core_obj_t"
      /\ Core!Null \notin Roots
  BY BasesKnown
<1>2. "gs_core_obj_t" \in Roots
  OBVIOUS
<1>3. \A c \in DOMAIN Core!Classes : f[c] = third(c)
  OBVIOUS
<1> HIDE DEF Roots, f
<1>4. \A c \in Roots : f[c] = second(c)
  BY <1>1, <1>2, <1>3
<1>5. ASSUME NEW c \in DOMAIN Core!Classes
      PROVE  f[c] = IF Core!Classes[c].base = Core!Null THEN Core!Classes[c].slots
                    ELSE Core!Over(Core!Classes[c].slots, f[Core!Classes[c].base])
  BY <1>1, <1>3, <1>4
<1>6. f = [c \in DOMAIN Core!Classes |-> f[c]]
  BY DEF f
<1> HIDE DEF third
<1>7. Tables(f)
  BY <1>5, <1>6 DEF Tables
<1> QED
  BY <1>7

\* The dtor of a renderable component is its own.
LEMMA DtorKnown == Core!VtableInit(Core!Classes, Core!Renderable).dtor # Core!Null
<1>1. PICK f : f = CHOOSE g : Tables(g)
  OBVIOUS
<1>2. Tables(f)
  BY <1>1, TablesExist
<1>3. Core!VtableInit(Core!Classes, Core!Renderable) = f[Core!Renderable]
  BY <1>1 DEF Core!VtableInit, Tables
<1>4. /\ Core!Renderable \in DOMAIN Core!Classes
      /\ Core!Classes[Core!Renderable] = Core!gs_core_component_renderable_t
  <2>1. Core!Renderable \in DOMAIN Core!CoreClasses /\ Core!CoreClasses[Core!Renderable] = Core!gs_core_component_renderable_t
    BY DEF Core!CoreClasses, Core!Renderable
  <2> QED  BY <2>1 DEF Core!Classes, Core!Over
<1>5. /\ Core!gs_core_component_renderable_t.base = "gs_core_entities_component_t"
      /\ "dtor" \in DOMAIN Core!gs_core_component_renderable_t.slots
      /\ Core!gs_core_component_renderable_t.slots["dtor"] = "gs_core_graphics_scene_renderable_destroy"
  BY DEF Core!gs_core_component_renderable_t, Core!Class, Core!Over
<1>6. "gs_core_entities_component_t" # Core!Null
  BY DEF Core!Null
<1>7. f[Core!Renderable] = Core!Over(Core!Classes[Core!Renderable].slots, f["gs_core_entities_component_t"])
  BY <1>2, <1>4, <1>5, <1>6 DEF Tables
<1>8. f[Core!Renderable]["dtor"] = "gs_core_graphics_scene_renderable_destroy"
  BY <1>4, <1>5, <1>7 DEF Core!Over
<1>9. "gs_core_graphics_scene_renderable_destroy" # Core!Null
  BY DEF Core!Null
<1> QED
  BY <1>3, <1>8, <1>9

\* Steps of a script that have nothing to do with the registry.
LEMMA RegistryRests ==
  ASSUME RegistryInv, UNCHANGED <<editor, build, info, app>>, Left' \subseteq Left,
         \A r \in {Core!New("app"), Core!New("register"), Core!New("app_meta"), Core!Free("app_meta"), Core!Free("app")} :
           r \in Left => r \in Left',
         Core!Free("entities") \in Left \/ Shut => Core!Free("entities") \in Left' \/ Shut'
  PROVE  RegistryInv'
<1>1. Core!AppLib' = Core!AppLib
  BY DEF Core!AppLib
<1> QED
  BY <1>1 DEF RegistryInv

\* flecs is left alone.
LEMMA EcsRests ==
  ASSUME EcsInv, UNCHANGED <<editor, info, components, systems>>, Core!New("ecs") \in Left => Core!New("ecs") \in Left'
  PROVE  EcsInv'
BY DEF EcsInv

\* The console is left alone.
LEMMA ConsoleRests ==
  ASSUME ConsoleInv, UNCHANGED <<info, commands, shown, cvars>>
  PROVE  ConsoleInv'
BY DEF ConsoleInv

\* The world and the scene are left alone.
LEMMA WorldRests ==
  ASSUME WorldInv, UNCHANGED <<world, renderables, held>>,
         DOMAIN components \subseteq DOMAIN components',
         Core!Renderable \in DOMAIN info' => Core!Renderable \in DOMAIN info,
         Left' \subseteq Left, "gfx" \in up' => "gfx" \in up
  PROVE  WorldInv'
<1>1. Core!SceneMatchesWorld'
  BY DEF WorldInv, Core!SceneMatchesWorld, Core!Handles
<1> QED
  BY <1>1 DEF WorldInv

\* Nothing is read.
LEMMA FaultRests ==
  ASSUME Core!NoFault, UNCHANGED <<editor, faults>>
  PROVE  Core!NoFault'
BY DEF Core!NoFault

\* What is read is there.
LEMMA NoNewFault ==
  ASSUME Core!NoFault, editor' = editor, NEW ok, NEW what, ok, Core!Fault(ok, what)
  PROVE  Core!NoFault'
BY DEF Core!NoFault, Core!Fault

\* No vtable lies in a library that is gone.
LEMMA Loaded ==
  ASSUME RegistryInv
  PROVE  /\ \A c \in DOMAIN info : info[c] \in Core!Libs
         /\ \A c : Core!Callable(c)
         /\ "app_t" \in DOMAIN info => Core!AppCallable /\ info["app_t"] = Core!AppLib
<1>1. \A c \in DOMAIN info : info[c] = 0 \/ (info[c] = Core!AppLib /\ app # Core!Null)
  BY DEF RegistryInv
<1>2. \A c \in DOMAIN info : info[c] \in Core!Libs
  BY <1>1 DEF Core!Libs
<1>3. "app_t" \in DOMAIN info => info["app_t"] = Core!AppLib /\ app # Core!Null
  BY ClassFacts DEF RegistryInv
<1> QED
  BY <1>2, <1>3 DEF Core!Callable, Core!AppCallable

\* While the application runs, all it needs is there.
LEMMA AllThere ==
  ASSUME HostInv, Core!Running
  PROVE  /\ Left = {} /\ ~Shut /\ Core!Structs \subseteq up
         /\ "app_t" \in DOMAIN info
         /\ DOMAIN Core!CoreClasses \subseteq DOMAIN info
         /\ {Core!Transform, Core!Renderable, "app_component_t", "gs_core_component_tag_t"} \subseteq DOMAIN components
<1>1. Left = {} /\ ~Shut /\ Core!Structs \subseteq up
  BY Idle DEF HostInv, Core!Running
<1>2. "app_t" \in DOMAIN info /\ DOMAIN Core!CoreClasses \subseteq DOMAIN info
  BY <1>1 DEF HostInv, RegistryInv, Core!Running
<1>3. Core!Components(Core!CoreClasses) \subseteq DOMAIN components /\ "app_component_t" \in DOMAIN components
  BY <1>1, <1>2 DEF HostInv, EcsInv
<1> QED
  BY <1>1, <1>2, <1>3, ClassFacts

\* Where nothing of a script is done, only the world and the scene may change.
LEMMA ScriptsRest ==
  ASSUME ScriptInv, UpInv, RegistryInv, UNCHANGED <<todo, editor, up, build, info, app>>
  PROVE  ScriptInv' /\ UpInv' /\ RegistryInv' /\ (Shut' <=> Shut) /\ Left' = Left
<1>1. (Shut' <=> Shut) /\ Left' = Left
  BY DEF Shut, Left
<1>2. Core!AppLib' = Core!AppLib
  BY DEF Core!AppLib
<1> QED
  BY <1>1, <1>2 DEF ScriptInv, UpInv, RegistryInv

\* gs_core_new and gs_core_free: what starts and stops.
LEMMA NewStructKeeps == ASSUME HostInv, Core!NewStruct PROVE HostInv'
<1>1. PICK s \in Core!Structs : Core!Do(Core!New(s)) /\ up' = up \cup {s}
  BY DEF Core!NewStruct
<1>2. UNCHANGED <<editor, build, info, components, systems, world, renderables, held, app, commands, shown, cvars, faults>>
  BY DEF Core!NewStruct, Core!meta, Core!scene, Core!console
<1>3. ScriptInv' /\ UpInv' /\ (Shut' <=> Shut)
  BY <1>1, <1>2, NewKeeps DEF HostInv
<1>4. Core!New(s) \in Left /\ Left' = Left \ {Core!New(s)}
  BY <1>1, Doing DEF HostInv, ScriptInv
<1>5. s \notin {"app", "register", "app_meta", "ecs"}
  BY DEF Core!Structs
<1>6. RegistryInv'
  BY <1>2, <1>3, <1>4, <1>5, RegistryRests, StepNames DEF HostInv
<1>7. EcsInv' /\ ConsoleInv' /\ Core!NoFault'
  BY <1>2, <1>4, <1>5, EcsRests, ConsoleRests, FaultRests, StepNames DEF HostInv
<1>8. WorldInv'
  <2>1. CASE s # "gfx"
    BY <1>1, <1>2, <1>4, <2>1, WorldRests DEF HostInv
  <2>2. CASE s = "gfx"
    <3>1. world = <<>> /\ renderables = {} /\ held = {}
      BY <1>4, <2>2 DEF HostInv, WorldInv
    <3>2. Core!Handles(DOMAIN world)' = {} /\ DOMAIN world' = {}
      BY <1>2, <3>1 DEF Core!Handles
    <3>3. Core!SceneMatchesWorld'
      BY <1>2, <3>1, <3>2 DEF Core!SceneMatchesWorld
    <3> QED  BY <1>2, <1>4, <3>1, <3>3 DEF HostInv, WorldInv
  <2> QED  BY <2>1, <2>2
<1> QED
  BY <1>3, <1>6, <1>7, <1>8 DEF HostInv

\* What registers or unregisters classes finds the registry and the entities.
LEMMA RegistryUp ==
  ASSUME ScriptInv, UpInv, NEW step, Core!Do(step),
         step \in {Core!New("ecs"), Core!New("app_meta"), Core!Free("app_meta"), Core!Free("register")}
  PROVE  {"meta", "entities"} \subseteq up /\ ~Shut
<1>1. step \in Left /\ \A r \in Left : r # step => Rank(step) < Rank(r)
  BY Doing DEF ScriptInv
<1>2. Rank(step) \in 11 .. 20 /\ step # Core!New("meta") /\ step # Core!New("entities")
  BY RankOf, StepNames
<1>3. Core!New("meta") \notin Left /\ Core!New("entities") \notin Left
  BY <1>1, <1>2, RankOf
<1>4. ~Shut
  BY <1>1, <1>2, RankOf DEF ScriptInv
<1> QED
  BY <1>3, <1>4 DEF UpInv, Shut

\* The core's classes are registered before there is a world.
LEMMA MetaRegisterKeeps == ASSUME HostInv, Core!MetaRegister PROVE HostInv'
<1> DEFINE step == Core!New("register")
<1>1. /\ Core!Do(step) /\ Core!Fault("meta" \in up, "registry")
      /\ info' = Core!Over([c \in DOMAIN Core!CoreClasses |-> 0], info)
      /\ UNCHANGED <<editor, up, build, components, systems, world, renderables, held, app, commands, shown, cvars>>
  BY DEF Core!MetaRegister, Core!Registered, Core!scene, Core!console
<1>2. ScriptInv' /\ UpInv' /\ (Shut' <=> Shut)
  BY <1>1, PlainKeeps DEF HostInv
<1>3. /\ step \in Left /\ Left' = Left \ {step}
      /\ \A r \in Left : r # step => Rank(step) < Rank(r)
  BY <1>1, Doing DEF HostInv, ScriptInv
<1>4. \A s : Core!Free(s) \notin Left
  BY <1>3, StepNames DEF HostInv, ScriptInv
<1>5. /\ DOMAIN info' = DOMAIN Core!CoreClasses \cup DOMAIN info
      /\ \A c \in DOMAIN Core!CoreClasses : info'[c] = 0
      /\ \A c \in DOMAIN info \ DOMAIN Core!CoreClasses : info'[c] = info[c]
  BY <1>1 DEF Core!Over
<1>6. \A c \in DOMAIN info : info'[c] = info[c]
  BY <1>5, ClassFacts DEF HostInv, RegistryInv
<1>7. "app_t" \in DOMAIN info' => "app_t" \in DOMAIN info
  BY <1>5, ClassFacts
<1>8. RegistryInv'
  <2>1. Core!AppLib' = Core!AppLib
    BY <1>1 DEF Core!AppLib
  <2>2. \A s \in {"app", "app_meta", "app_init"} : Core!New(s) \in Left' <=> Core!New(s) \in Left
    BY <1>3, StepNames
  <2>3. \A c \in DOMAIN info' :
          \/ c \in DOMAIN Core!CoreClasses /\ info'[c] = 0
          \/ /\ c \in DOMAIN Core!AppClasses /\ info'[c] = Core!AppLib /\ app # Core!Null
             /\ Core!New("app") \notin Left' /\ Core!New("app_meta") \notin Left'
    BY <1>5, <1>6, <2>2 DEF HostInv, RegistryInv
  <2>4. \A s : Core!Free(s) \notin Left'
    BY <1>3, <1>4
  <2>5. DOMAIN Core!CoreClasses \subseteq DOMAIN info' /\ DOMAIN info \subseteq DOMAIN info'
    BY <1>5
  <2> HIDE DEF step
  <2> QED
    BY <1>1, <1>4, <2>1, <2>2, <2>3, <2>4, <2>5, <1>2 DEF HostInv, RegistryInv
<1>9. EcsInv'
  <2>1. Core!New("ecs") \in Left' <=> Core!New("ecs") \in Left
    BY <1>3, StepNames
  <2>2. \A s \in systems' :
          \E c \in DOMAIN info' \cap (Core!Systems(Core!CoreClasses) \cup Core!Systems(Core!AppClasses)) : s = <<c, info'[c]>>
    BY <1>1, <1>5, <1>6 DEF HostInv, EcsInv
  <2> QED  BY <1>1, <1>7, <2>1, <2>2 DEF HostInv, EcsInv
<1>10. ConsoleInv'
  BY <1>1, <1>5, <1>6 DEF HostInv, ConsoleInv
<1>11. WorldInv'
  <2>1. world = <<>> /\ renderables = {} /\ held = {}
    BY <1>3 DEF HostInv, WorldInv
  <2>2. DOMAIN world' = {} /\ Core!Handles(DOMAIN world)' = {}
    BY <1>1, <2>1 DEF Core!Handles
  <2>3. Core!SceneMatchesWorld'
    BY <1>1, <2>1, <2>2 DEF Core!SceneMatchesWorld
  <2> QED  BY <1>1, <2>1, <2>2, <2>3 DEF HostInv, WorldInv
<1>12. Core!NoFault'
  <2>1. Core!New("meta") \notin Left
    BY <1>3, StepNames, RankOf
  <2> QED  BY <1>1, <2>1, NoNewFault DEF HostInv, UpInv
<1> QED
  BY <1>2, <1>8, <1>9, <1>10, <1>11, <1>12 DEF HostInv

\* flecs learns of the core's components and systems, which are registered.
LEMMA EcsRegisterKeeps == ASSUME HostInv, Core!EcsRegister PROVE HostInv'
<1> DEFINE step == Core!New("ecs")
<1>1. /\ Core!Do(step) /\ Core!Fault({"meta", "entities"} \subseteq up, "entities")
      /\ components' = Core!Over(components, [c \in Core!Components(Core!CoreClasses) |-> 0])
      /\ systems' = systems \cup {<<c, 0>> : c \in Core!Systems(Core!CoreClasses)}
      /\ UNCHANGED <<editor, up, build, info, world, renderables, held, app, commands, shown, cvars>>
  BY DEF Core!EcsRegister, Core!EcsRegistered, Core!scene, Core!console
<1>2. ScriptInv' /\ UpInv' /\ (Shut' <=> Shut)
  BY <1>1, PlainKeeps DEF HostInv
<1>3. /\ step \in Left /\ Left' = Left \ {step}
      /\ \A r \in Left : r # step => Rank(step) < Rank(r)
  BY <1>1, Doing DEF HostInv, ScriptInv
<1>4. {"meta", "entities"} \subseteq up /\ ~Shut
  BY <1>1, RegistryUp DEF HostInv
<1>5. RegistryInv'
  BY <1>1, <1>2, <1>3, RegistryRests, StepNames DEF HostInv
<1>6. /\ DOMAIN components' = DOMAIN components \cup Core!Components(Core!CoreClasses)
      /\ \A c \in DOMAIN components : components'[c] = components[c]
      /\ \A c \in Core!Components(Core!CoreClasses) \ DOMAIN components : components'[c] = 0
  BY <1>1 DEF Core!Over
<1>7. \A c \in Core!Systems(Core!CoreClasses) : c \in DOMAIN info /\ info[c] = 0
  <2>1. Core!New("register") \notin Left /\ Core!Free("entities") \notin Left
    BY <1>3, StepNames, RankOf DEF HostInv, ScriptInv
  <2>2. DOMAIN Core!CoreClasses \subseteq DOMAIN info
    BY <1>4, <2>1 DEF HostInv, RegistryInv
  <2> QED  BY <2>2, ClassFacts DEF HostInv, RegistryInv
<1>8. EcsInv'
  <2>1. \A s \in systems' :
          \E c \in DOMAIN info \cap (Core!Systems(Core!CoreClasses) \cup Core!Systems(Core!AppClasses)) : s = <<c, info[c]>>
    BY <1>1, <1>7 DEF HostInv, EcsInv
  <2>2. ~editor => \A c \in DOMAIN components' : components'[c] = 0
    BY <1>6 DEF HostInv, EcsInv
  <2> QED  BY <1>1, <1>6, <2>1, <2>2 DEF HostInv, EcsInv
<1>9. ConsoleInv' /\ WorldInv'
  BY <1>1, <1>3, <1>6, ConsoleRests, WorldRests DEF HostInv
<1>10. Core!NoFault'
  BY <1>1, <1>4, NoNewFault DEF HostInv
<1> QED
  BY <1>2, <1>5, <1>8, <1>9, <1>10 DEF HostInv

\* The default entity's tag is a component by now.
LEMMA DefaultEntityKeeps == ASSUME HostInv, Core!DefaultEntity PROVE HostInv'
<1> DEFINE step == Core!New("entity")
<1>1. /\ Core!Do(step) /\ Core!Fault("gs_core_component_tag_t" \in DOMAIN components, "component")
      /\ UNCHANGED <<editor, up, build, info, components, systems, world, renderables, held, app, commands, shown, cvars>>
  BY DEF Core!DefaultEntity, Core!meta, Core!scene, Core!console
<1>2. ScriptInv' /\ UpInv' /\ (Shut' <=> Shut)
  BY <1>1, PlainKeeps DEF HostInv
<1>3. /\ step \in Left /\ Left' = Left \ {step}
      /\ \A r \in Left : r # step => Rank(step) < Rank(r)
  BY <1>1, Doing DEF HostInv, ScriptInv
<1>4. Core!New("ecs") \notin Left
  BY <1>3, StepNames, RankOf
<1>5. RegistryInv' /\ EcsInv' /\ ConsoleInv' /\ WorldInv'
  BY <1>1, <1>2, <1>3, RegistryRests, EcsRests, ConsoleRests, WorldRests, StepNames DEF HostInv
<1>6. Core!NoFault'
  BY <1>1, <1>4, NoNewFault, ClassFacts DEF HostInv, EcsInv
<1> QED
  BY <1>2, <1>5, <1>6 DEF HostInv

\* A command of the console.
LEMMA CommandAdded ==
  ASSUME NEW cmds, NEW cv, Listed(cmds, cv), NEW name, name \notin Core!AppCvars
  PROVE  Listed(Core!CmdRegister(cmds, <<name, 0>>), cv)
<1>1. PICK h : h = Core!FreeHandle(DOMAIN cmds)
  OBVIOUS
<1>2. h \in Nat \ DOMAIN cmds
  BY <1>1, FreeIsFree DEF Listed
<1>3. PICK new : new = Core!CmdRegister(cmds, <<name, 0>>)
  OBVIOUS
<1>4. /\ DOMAIN new = DOMAIN cmds \cup {h} /\ new[h] = <<name, 0>>
      /\ \A x \in DOMAIN cmds : new[x] = cmds[x]
  BY <1>1, <1>2, <1>3 DEF Core!CmdRegister, Core!Put
<1>5. IsFiniteSet(DOMAIN new) /\ DOMAIN new \subseteq Nat
  BY <1>2, <1>4, FS_AddElement DEF Listed
<1>6. \A x \in DOMAIN new : new[x][1] \in Core!AppCvars => x \in DOMAIN cmds
  BY <1>4
<1>7. Listed(new, cv)
  BY <1>4, <1>5, <1>6 DEF Listed
<1> QED
  BY <1>3, <1>7

\* gs_core_new ends with the console's own commands.
LEMMA AddCommandsKeeps == ASSUME HostInv, Core!AddCommands PROVE HostInv'
<1> DEFINE step == Core!New("commands")
<1>1. /\ Core!Do(step)
      /\ commands' = Core!CmdRegister(Core!CmdRegister(commands, <<"help", 0>>), <<"clear", 0>>)
      /\ shown' = {commands'[x] : x \in DOMAIN commands'}
      /\ UNCHANGED <<editor, up, build, info, components, systems, world, renderables, held, app, cvars, faults>>
  BY DEF Core!AddCommands, Core!meta, Core!scene
<1>2. ScriptInv' /\ UpInv' /\ (Shut' <=> Shut)
  BY <1>1, PlainKeeps DEF HostInv
<1>3. step \in Left /\ Left' = Left \ {step}
  BY <1>1, Doing DEF HostInv, ScriptInv
<1>4. RegistryInv' /\ EcsInv' /\ WorldInv' /\ Core!NoFault'
  BY <1>1, <1>2, <1>3, RegistryRests, EcsRests, WorldRests, FaultRests, StepNames DEF HostInv
<1>5. "help" \notin Core!AppCvars /\ "clear" \notin Core!AppCvars
  BY DEF Core!AppCvars
<1>6. Listed(commands', cvars')
  <2>1. Listed(commands, cvars)
    BY DEF HostInv, ConsoleInv
  <2> QED  BY <1>1, <1>5, <2>1, CommandAdded
<1>7. ConsoleInv'
  BY <1>1, <1>6 DEF HostInv, ConsoleInv
<1> QED
  BY <1>2, <1>4, <1>7 DEF HostInv

\* A new application has no classes yet, and those of an earlier one are gone.
LEMMA AppNewKeeps == ASSUME HostInv, Core!AppNew PROVE HostInv'
<1> DEFINE step == Core!New("app")
<1>1. /\ Core!Do(step) /\ app' \in {"STOPPED", "PLAYING"} /\ build' \in {build, build + 1}
      /\ UNCHANGED <<editor, up, info, components, systems, world, renderables, held, commands, shown, cvars, faults>>
  BY DEF Core!AppNew, Core!meta, Core!scene, Core!console
<1>2. ScriptInv' /\ UpInv' /\ (Shut' <=> Shut)
  BY <1>1, PlainKeeps DEF HostInv
<1>3. step \in Left /\ Left' = Left \ {step}
  BY <1>1, Doing DEF HostInv, ScriptInv
<1>4. \A s : Core!Free(s) \notin Left
  BY <1>3, StepNames DEF HostInv, ScriptInv
<1>5. Core!New("app_meta") \in Left'
  BY <1>3, StepNames DEF HostInv, ScriptInv
<1>6. app' # Core!Null
  BY <1>1 DEF Core!Null
<1>7. \A c \in DOMAIN info : c \in DOMAIN Core!CoreClasses /\ info[c] = 0
  BY <1>3 DEF HostInv, RegistryInv
<1>8. RegistryInv'
  <2>1. build' \in Nat
    BY <1>1 DEF HostInv, RegistryInv
  <2>2. Core!New("register") \in Left => Core!New("register") \in Left'
    BY <1>3, StepNames
  <2>3. Core!Free("app_shutdown") \notin Left' /\ Core!Free("entities") \notin Left
    BY <1>3, <1>4
  <2> HIDE DEF step
  <2> QED  BY <1>1, <1>2, <1>5, <1>6, <1>7, <2>1, <2>2, <2>3 DEF HostInv, RegistryInv
<1>9. EcsInv' /\ ConsoleInv' /\ WorldInv' /\ Core!NoFault'
  BY <1>1, <1>3, EcsRests, ConsoleRests, WorldRests, FaultRests, StepNames DEF HostInv
<1> QED
  BY <1>2, <1>8, <1>9 DEF HostInv

\* The application's variable is registered with its command.
LEMMA CvarAdded ==
  ASSUME ConsoleInv, cvars = <<>> \/ DOMAIN cvars = {}, NEW lib, Core!CvarsRegister(lib)
  PROVE  /\ Listed(commands', cvars') /\ shown' = {commands'[h] : h \in DOMAIN commands'}
         /\ DOMAIN cvars' = Core!AppCvars /\ \A n \in Core!AppCvars : cvars'[n][2] = lib
<1>1. Core!AppCvars = {"app_cvar"} /\ (CHOOSE c \in Core!AppCvars : TRUE) = "app_cvar"
  BY DEF Core!AppCvars
<1>2. DOMAIN cvars = {}
  OBVIOUS
<1>3. PICK h : h = Core!FreeHandle(DOMAIN commands)
  OBVIOUS
<1>4. h \in Nat \ DOMAIN commands
  BY <1>3, FreeIsFree DEF ConsoleInv, Listed
<1>5. /\ commands' = Core!CmdRegister(commands, <<"app_cvar", lib>>)
      /\ cvars' = Core!Put(cvars, "app_cvar", <<h, lib>>)
      /\ shown' = {commands'[x] : x \in DOMAIN commands'}
  BY <1>1, <1>2, <1>3 DEF Core!CvarsRegister
<1>6. /\ DOMAIN commands' = DOMAIN commands \cup {h} /\ commands'[h] = <<"app_cvar", lib>>
      /\ \A x \in DOMAIN commands : commands'[x] = commands[x]
  BY <1>3, <1>4, <1>5 DEF Core!CmdRegister, Core!Put
<1>7. DOMAIN cvars' = {"app_cvar"} /\ cvars'["app_cvar"] = <<h, lib>>
  BY <1>2, <1>5 DEF Core!Put
<1>8. IsFiniteSet(DOMAIN commands') /\ DOMAIN commands' \subseteq Nat
  BY <1>4, <1>6, FS_AddElement DEF ConsoleInv, Listed
<1>9. \A x \in DOMAIN commands : commands[x][1] \notin Core!AppCvars
  BY <1>2 DEF ConsoleInv, Listed
<1>10. Listed(commands', cvars')
  BY <1>1, <1>6, <1>7, <1>8, <1>9 DEF Listed
<1> QED
  BY <1>1, <1>5, <1>7, <1>10

\* The application's classes join those of the core.
LEMMA AppMetaRegisterKeeps == ASSUME HostInv, Core!AppMetaRegister PROVE HostInv'
<1> DEFINE step == Core!New("app_meta")
<1>1. /\ Core!Do(step) /\ Core!CvarsRegister(Core!AppLib) /\ Core!Fault({"meta", "entities"} \subseteq up, "entities")
      /\ info' = Core!Over([c \in DOMAIN Core!AppClasses |-> Core!AppLib], info)
      /\ components' = Core!Over(components, [c \in Core!Components(Core!AppClasses) |-> Core!AppLib])
      /\ systems' = systems \cup {<<c, Core!AppLib>> : c \in Core!Systems(Core!AppClasses)}
      /\ UNCHANGED <<editor, up, build, world, renderables, held, app>>
  BY DEF Core!AppMetaRegister, Core!Registered, Core!EcsRegistered, Core!scene
<1>2. ScriptInv' /\ UpInv' /\ (Shut' <=> Shut)
  BY <1>1, PlainKeeps DEF HostInv
<1>3. /\ step \in Left /\ Left' = Left \ {step}
      /\ \A r \in Left : r # step => Rank(step) < Rank(r)
  BY <1>1, Doing DEF HostInv, ScriptInv
<1>4. {"meta", "entities"} \subseteq up /\ ~Shut
  BY <1>1, RegistryUp DEF HostInv
<1>5. \A s : Core!Free(s) \notin Left
  BY <1>3, StepNames DEF HostInv, ScriptInv
<1>6. Core!New("app") \notin Left /\ app # Core!Null
  <2>1. Core!New("app") \notin Left
    BY <1>3, StepNames, RankOf
  <2> QED  BY <1>3, <2>1 DEF HostInv, RegistryInv
<1>7. \A c \in DOMAIN info : c \in DOMAIN Core!CoreClasses /\ c \notin DOMAIN Core!AppClasses /\ info[c] = 0
  BY <1>3, ClassFacts DEF HostInv, RegistryInv
<1>8. /\ DOMAIN info' = DOMAIN Core!AppClasses \cup DOMAIN info
      /\ \A c \in DOMAIN Core!AppClasses : info'[c] = Core!AppLib
      /\ \A c \in DOMAIN info : info'[c] = info[c]
  BY <1>1, <1>7 DEF Core!Over
<1>9. Core!AppLib' = Core!AppLib /\ "app_t" \in DOMAIN Core!AppClasses /\ (~editor => Core!AppLib = 0)
  BY <1>1, ClassFacts DEF Core!AppLib
<1>10. RegistryInv'
  <2>1. \A c \in DOMAIN info' :
          \/ c \in DOMAIN Core!CoreClasses /\ info'[c] = 0
          \/ c \in DOMAIN Core!AppClasses /\ info'[c] = Core!AppLib'
    BY <1>7, <1>8, <1>9
  <2>2. Core!New("app_meta") \notin Left' /\ Core!New("app") \notin Left' /\ \A s : Core!Free(s) \notin Left'
    BY <1>3, <1>5, <1>6
  <2>3. Core!New("register") \in Left => Core!New("register") \in Left'
    BY <1>3, StepNames
  <2>4. "app_t" \in DOMAIN info' /\ DOMAIN info \subseteq DOMAIN info'
    BY <1>8, <1>9
  <2> HIDE DEF step
  <2> QED  BY <1>1, <1>2, <1>5, <1>6, <2>1, <2>2, <2>3, <2>4 DEF HostInv, RegistryInv
<1>11. /\ DOMAIN components' = DOMAIN components \cup Core!Components(Core!AppClasses)
       /\ \A c \in DOMAIN components : components'[c] = components[c]
       /\ \A c \in Core!Components(Core!AppClasses) \ DOMAIN components : components'[c] = Core!AppLib
  BY <1>1 DEF Core!Over
<1>12. EcsInv'
  <2>1. \A c \in Core!Systems(Core!AppClasses) : c \in DOMAIN info' /\ info'[c] = Core!AppLib
    BY <1>8, ClassFacts
  <2>2. \A s \in systems' :
          \E c \in DOMAIN info' \cap (Core!Systems(Core!CoreClasses) \cup Core!Systems(Core!AppClasses)) : s = <<c, info'[c]>>
    BY <1>1, <1>8, <2>1 DEF HostInv, EcsInv
  <2>3. ~editor => \A c \in DOMAIN components' : components'[c] = 0
    BY <1>9, <1>11 DEF HostInv, EcsInv
  <2>4. "app_component_t" \in DOMAIN components'
    BY <1>11, ClassFacts
  <2>5. Core!New("ecs") \in Left => Core!New("ecs") \in Left'
    BY <1>3, StepNames
  <2> HIDE DEF step
  <2> QED  BY <1>1, <1>11, <2>2, <2>3, <2>4, <2>5 DEF HostInv, EcsInv
<1>13. ConsoleInv'
  <2>1. DOMAIN cvars = {}
    BY <1>7, <1>9 DEF HostInv, ConsoleInv
  <2>2. /\ Listed(commands', cvars') /\ shown' = {commands'[h] : h \in DOMAIN commands'}
        /\ DOMAIN cvars' = Core!AppCvars /\ \A n \in Core!AppCvars : cvars'[n][2] = Core!AppLib
    BY <1>1, <2>1, CvarAdded DEF HostInv
  <2> QED  BY <1>8, <1>9, <2>2 DEF ConsoleInv
<1>14. WorldInv'
  <2>1. Core!Renderable \in DOMAIN info' => Core!Renderable \in DOMAIN info
    BY <1>8, ClassFacts
  <2> QED  BY <1>1, <1>3, <1>11, <2>1, WorldRests DEF HostInv
<1>15. Core!NoFault'
  BY <1>1, <1>4, NoNewFault DEF HostInv
<1> QED
  BY <1>2, <1>10, <1>12, <1>13, <1>14, <1>15 DEF HostInv

\* The application is called after its class is registered.
LEMMA AppInitKeeps == ASSUME HostInv, Core!AppInit PROVE HostInv'
<1> DEFINE step == Core!New("app_init")
<1>1. /\ Core!Do(step) /\ Core!Fault(Core!AppCallable, "app vtable")
      /\ UNCHANGED <<editor, up, build, info, components, systems, world, renderables, held, app, commands, shown, cvars>>
  BY DEF Core!AppInit, Core!meta, Core!scene, Core!console
<1>2. ScriptInv' /\ UpInv' /\ (Shut' <=> Shut)
  BY <1>1, PlainKeeps DEF HostInv
<1>3. /\ step \in Left /\ Left' = Left \ {step}
      /\ \A r \in Left : r # step => Rank(step) < Rank(r)
  BY <1>1, Doing DEF HostInv, ScriptInv
<1>4. Core!New("app_meta") \notin Left
  BY <1>3, StepNames, RankOf
<1>5. RegistryInv' /\ EcsInv' /\ ConsoleInv' /\ WorldInv'
  BY <1>1, <1>2, <1>3, RegistryRests, EcsRests, ConsoleRests, WorldRests, StepNames DEF HostInv
<1>6. Core!AppCallable
  BY <1>3, <1>4, Loaded DEF HostInv, RegistryInv
<1>7. Core!NoFault'
  BY <1>1, <1>6, NoNewFault DEF HostInv
<1> QED
  BY <1>2, <1>5, <1>7 DEF HostInv

\* Nothing lies in the library of the application any more.
LEMMA AppUnloadKeeps == ASSUME HostInv, Core!AppUnload PROVE HostInv'
<1> DEFINE step == Core!Free("app")
<1>1. /\ Core!Do(step) /\ app' = Core!Null
      /\ UNCHANGED <<editor, up, build, info, components, systems, world, renderables, held, commands, shown, cvars, faults>>
  BY DEF Core!AppUnload, Core!meta, Core!scene, Core!console
<1>2. ScriptInv' /\ UpInv' /\ (Shut' <=> Shut)
  BY <1>1, PlainKeeps DEF HostInv
<1>3. /\ step \in Left /\ Left' = Left \ {step}
      /\ \A r \in Left : r # step => Rank(step) < Rank(r)
  BY <1>1, Doing DEF HostInv, ScriptInv
<1>4. \A s : Core!New(s) \notin Left
  BY <1>3, StepNames DEF HostInv, ScriptInv
<1>5. Core!Free("app_meta") \notin Left /\ Core!Free("app_shutdown") \notin Left /\ editor
  BY <1>3, StepNames, RankOf DEF HostInv, ScriptInv
<1>6. \A c \in DOMAIN info : c \in DOMAIN Core!CoreClasses /\ info[c] = 0
  BY <1>3, <1>5 DEF HostInv, RegistryInv
<1>7. RegistryInv'
  <2>1. \A s : Core!New(s) \notin Left'
    BY <1>3, <1>4
  <2>2. Core!Free("entities") \in Left => Core!Free("entities") \in Left'
    BY <1>3, StepNames
  <2>3. Core!Free("app_shutdown") \notin Left'
    BY <1>3, <1>5
  <2> HIDE DEF step
  <2> QED  BY <1>1, <1>2, <1>4, <1>5, <1>6, <2>1, <2>2, <2>3 DEF HostInv, RegistryInv
<1>8. EcsInv' /\ ConsoleInv' /\ WorldInv' /\ Core!NoFault'
  BY <1>1, <1>3, EcsRests, ConsoleRests, WorldRests, FaultRests, StepNames DEF HostInv
<1> QED
  BY <1>2, <1>7, <1>8 DEF HostInv

\* Of flecs' systems those stay whose classes do.
LEMMA SystemsStay ==
  ASSUME EcsInv, NEW classes, classes = Core!CoreClasses \/ classes = Core!AppClasses,
         Core!Unregistered(classes), Core!SystemsUnregistered(classes)
  PROVE  /\ DOMAIN info' = DOMAIN info \ DOMAIN classes
         /\ \A c \in DOMAIN info' : info'[c] = info[c]
         /\ \A s \in systems' :
              \E c \in DOMAIN info' \cap (Core!Systems(Core!CoreClasses) \cup Core!Systems(Core!AppClasses)) : s = <<c, info'[c]>>
<1>1. /\ DOMAIN info' = DOMAIN info \ DOMAIN classes
      /\ \A c \in DOMAIN info' : info'[c] = info[c]
  BY DEF Core!Unregistered
<1>2. ASSUME NEW s \in systems'
      PROVE  \E c \in DOMAIN info' \cap (Core!Systems(Core!CoreClasses) \cup Core!Systems(Core!AppClasses)) : s = <<c, info'[c]>>
  <2>1. s \in systems /\ s[1] \notin Core!Systems(classes)
    BY DEF Core!SystemsUnregistered
  <2>2. PICK c \in DOMAIN info \cap (Core!Systems(Core!CoreClasses) \cup Core!Systems(Core!AppClasses)) : s = <<c, info[c]>>
    BY <2>1 DEF EcsInv
  <2>3. c \notin Core!Systems(classes)
    BY <2>1, <2>2
  <2>4. c \notin DOMAIN classes
    BY <2>2, <2>3, ClassFacts
  <2> QED  BY <1>1, <2>2, <2>4
<1> QED
  BY <1>1, <1>2

\* From here on no dtor finds its vtable: the entities end before anybody asks.
LEMMA MetaUnregisterKeeps == ASSUME HostInv, Core!MetaUnregister PROVE HostInv'
<1> DEFINE step == Core!Free("register")
<1>1. /\ Core!Do(step) /\ Core!Fault({"meta", "entities"} \subseteq up, "entities")
      /\ Core!Unregistered(Core!CoreClasses) /\ Core!SystemsUnregistered(Core!CoreClasses)
      /\ UNCHANGED <<editor, up, build, components, world, renderables, held, app, commands, shown, cvars>>
  BY DEF Core!MetaUnregister, Core!scene, Core!console
<1>2. ScriptInv' /\ UpInv' /\ (Shut' <=> Shut)
  BY <1>1, PlainKeeps DEF HostInv
<1>3. step \in Left /\ Left' = Left \ {step}
  BY <1>1, Doing DEF HostInv, ScriptInv
<1>4. {"meta", "entities"} \subseteq up /\ ~Shut
  BY <1>1, RegistryUp DEF HostInv
<1>5. \A s : Core!New(s) \notin Left
  BY <1>3, StepNames DEF HostInv, ScriptInv
<1>6. /\ DOMAIN info' = DOMAIN info \ DOMAIN Core!CoreClasses
      /\ \A c \in DOMAIN info' : info'[c] = info[c]
      /\ \A s \in systems' :
           \E c \in DOMAIN info' \cap (Core!Systems(Core!CoreClasses) \cup Core!Systems(Core!AppClasses)) : s = <<c, info'[c]>>
  BY <1>1, SystemsStay DEF HostInv
<1>7. "app_t" \in DOMAIN info => "app_t" \in DOMAIN info' /\ info'["app_t"] = info["app_t"]
  BY <1>6, ClassFacts
<1>8. RegistryInv'
  <2>1. Core!Free("entities") \in Left'
    <3>1. "register" \in DOMAIN StopRank \ {"app_shutdown", "app_meta", "app"}
      BY DEF StopRank
    <3> QED  BY <1>3, <1>4, <3>1, StepNames DEF HostInv, ScriptInv
  <2>2. Core!AppLib' = Core!AppLib
    BY <1>1 DEF Core!AppLib
  <2>3. \A s : Core!New(s) \notin Left'
    BY <1>3, <1>5
  <2>4. \A s \in {"app", "app_meta", "app_shutdown"} : Core!Free(s) \in Left' <=> Core!Free(s) \in Left
    BY <1>3, StepNames
  <2> HIDE DEF step
  <2> QED  BY <1>1, <1>5, <1>6, <1>7, <2>1, <2>2, <2>3, <2>4 DEF HostInv, RegistryInv
<1>9. EcsInv'
  BY <1>1, <1>5, <1>6, <1>7 DEF HostInv, EcsInv
<1>10. ConsoleInv'
  BY <1>1, <1>7 DEF HostInv, ConsoleInv
<1>11. WorldInv'
  BY <1>1, <1>3, <1>6, WorldRests DEF HostInv
<1>12. Core!NoFault'
  BY <1>1, <1>4, NoNewFault DEF HostInv
<1> QED
  BY <1>2, <1>8, <1>9, <1>10, <1>11, <1>12 DEF HostInv

\* The application's variable goes with its command.
LEMMA CvarRemoved ==
  ASSUME ConsoleInv, Core!CvarsUnregister
  PROVE  /\ Listed(commands', cvars') /\ shown' = {commands'[h] : h \in DOMAIN commands'}
         /\ DOMAIN cvars' = {}
<1>1. Core!AppCvars = {"app_cvar"} /\ (CHOOSE c \in Core!AppCvars : TRUE) = "app_cvar"
  BY DEF Core!AppCvars
<1>2. CASE "app_cvar" \notin DOMAIN cvars
  <2>1. UNCHANGED <<commands, shown, cvars>>
    BY <1>1, <1>2 DEF Core!CvarsUnregister, Core!console
  <2> QED  BY <1>1, <1>2, <2>1 DEF ConsoleInv
<1>3. CASE "app_cvar" \in DOMAIN cvars
  <2>1. PICK h : h = cvars["app_cvar"][1]
    OBVIOUS
  <2>2. /\ commands' = Core!Drop(commands, h) /\ shown' = {commands'[x] : x \in DOMAIN commands'}
        /\ cvars' = Core!Drop(cvars, "app_cvar")
    BY <1>1, <1>3, <2>1 DEF Core!CvarsUnregister, Core!CmdUnregister
  <2>3. /\ DOMAIN commands' = DOMAIN commands \ {h}
        /\ \A x \in DOMAIN commands' : commands'[x] = commands[x]
        /\ DOMAIN cvars' = DOMAIN cvars \ {"app_cvar"}
    BY <2>2 DEF Core!Drop
  <2>4. DOMAIN cvars' = {}
    BY <1>1, <2>3 DEF ConsoleInv
  <2>5. \A x \in DOMAIN commands' : commands'[x][1] \notin Core!AppCvars
    BY <1>1, <2>1, <2>3 DEF ConsoleInv, Listed
  <2>6. IsFiniteSet(DOMAIN commands') /\ DOMAIN commands' \subseteq Nat
    BY <2>3, FS_Subset DEF ConsoleInv, Listed
  <2>7. Listed(commands', cvars')
    BY <2>4, <2>5, <2>6 DEF Listed
  <2> QED  BY <2>2, <2>4, <2>7
<1> QED
  BY <1>2, <1>3

\* The application's classes go with its systems and its variable, its components stay.
LEMMA AppMetaUnregisterKeeps == ASSUME HostInv, Core!AppMetaUnregister PROVE HostInv'
<1> DEFINE step == Core!Free("app_meta")
<1>1. /\ Core!Do(step) /\ Core!CvarsUnregister /\ Core!Fault({"meta", "entities"} \subseteq up, "entities")
      /\ Core!Unregistered(Core!AppClasses) /\ Core!SystemsUnregistered(Core!AppClasses)
      /\ UNCHANGED <<editor, up, build, components, world, renderables, held, app>>
  BY DEF Core!AppMetaUnregister, Core!scene
<1>2. ScriptInv' /\ UpInv' /\ (Shut' <=> Shut)
  BY <1>1, PlainKeeps DEF HostInv
<1>3. /\ step \in Left /\ Left' = Left \ {step}
      /\ \A r \in Left : r # step => Rank(step) < Rank(r)
  BY <1>1, Doing DEF HostInv, ScriptInv
<1>4. {"meta", "entities"} \subseteq up /\ ~Shut
  BY <1>1, RegistryUp DEF HostInv
<1>5. \A s : Core!New(s) \notin Left
  BY <1>3, StepNames DEF HostInv, ScriptInv
<1>6. /\ DOMAIN info' = DOMAIN info \ DOMAIN Core!AppClasses
      /\ \A c \in DOMAIN info' : info'[c] = info[c]
      /\ \A s \in systems' :
           \E c \in DOMAIN info' \cap (Core!Systems(Core!CoreClasses) \cup Core!Systems(Core!AppClasses)) : s = <<c, info'[c]>>
  BY <1>1, SystemsStay DEF HostInv
<1>7. "app_t" \notin DOMAIN info' /\ \A c \in DOMAIN info' : c \in DOMAIN Core!CoreClasses /\ info'[c] = 0
  BY <1>6, ClassFacts DEF HostInv, RegistryInv
<1>8. RegistryInv'
  <2>1. Core!Free("app") \in Left' \/ Core!Free("entities") \in Left'
    BY <1>3, StepNames DEF HostInv, ScriptInv
  <2>2. \A s : Core!New(s) \notin Left'
    BY <1>3, <1>5
  <2>3. Core!Free("app_shutdown") \notin Left'
    BY <1>3, StepNames, RankOf
  <2>4. DOMAIN Core!CoreClasses \subseteq DOMAIN info => DOMAIN Core!CoreClasses \subseteq DOMAIN info'
    BY <1>6, ClassFacts
  <2>5. Core!Free("entities") \in Left => Core!Free("entities") \in Left'
    BY <1>3, StepNames
  <2> HIDE DEF step
  <2> QED  BY <1>1, <1>2, <1>4, <1>5, <1>7, <2>1, <2>2, <2>3, <2>4, <2>5 DEF HostInv, RegistryInv
<1>9. EcsInv'
  BY <1>1, <1>3, <1>5, <1>6, <1>7 DEF HostInv, EcsInv
<1>10. ConsoleInv'
  BY <1>1, CvarRemoved DEF HostInv, ConsoleInv
<1>11. WorldInv'
  BY <1>1, <1>3, <1>6, WorldRests DEF HostInv
<1>12. Core!NoFault'
  BY <1>1, <1>4, NoNewFault DEF HostInv
<1> QED
  BY <1>2, <1>8, <1>9, <1>10, <1>11, <1>12 DEF HostInv

\* Entities are destroyed: what they own of the scene goes if its class is
\* there to do it, and nothing is called that is not there.
LEMMA DestroyedKeeps ==
  ASSUME HostInv, NEW es \in SUBSET DOMAIN world, Core!Destroyed(es), "gfx" \in up, editor' = editor
  PROVE  /\ Core!NoFault'
         /\ renderables' = renderables \ (IF Core!Renderable \in DOMAIN info THEN Core!Handles(es) ELSE {})
<1> DEFINE classes == UNION {DOMAIN world[e] : e \in es}
<1>1. /\ renderables' = renderables \ (IF Core!Renderable \in DOMAIN info THEN Core!Handles(es) ELSE {})
      /\ faults' = faults \cup {"actions" : c \in {x \in classes : components[x] \notin Core!Libs}}
                          \cup {"dtor" : c \in {x \in classes : ~Core!Callable(x)}}
                          \cup {"scene" : h \in IF "gfx" \in up THEN {} ELSE Core!Handles(es)}
  BY DtorKnown DEF Core!Destroyed
<1>2. \A c : Core!Callable(c)
  BY Loaded DEF HostInv
<1>3. classes \subseteq DOMAIN components
  BY DEF HostInv, WorldInv
<1>4. ~editor => \A c \in classes : components[c] \in Core!Libs
  BY <1>3 DEF HostInv, EcsInv, Core!Libs
<1> HIDE DEF classes
<1>5. faults' = faults \cup {"actions" : c \in {x \in classes : components[x] \notin Core!Libs}}
  BY <1>1, <1>2
<1>6. Core!NoFault'
  BY <1>4, <1>5 DEF HostInv, Core!NoFault
<1> QED
  BY <1>1, <1>6

\* What is left of the world keeps its renderables.
LEMMA WorldLoses ==
  ASSUME WorldInv, NEW es \in SUBSET DOMAIN world,
         DOMAIN world' = DOMAIN world \ es, \A e \in DOMAIN world' : world'[e] = world[e],
         renderables' = renderables \ (IF Core!Renderable \in DOMAIN info THEN Core!Handles(es) ELSE {}),
         UNCHANGED <<info, components, held>>,
         "gfx" \in up' => "gfx" \in up,
         Core!New("gfx") \notin Left', Core!New("register") \notin Left'
  PROVE  WorldInv'
<1>1. IsFiniteSet(renderables') /\ renderables' \subseteq Nat
  BY FS_Subset DEF WorldInv
<1>2. \A e \in DOMAIN world' :
        DOMAIN world'[e] \subseteq {Core!Transform, Core!Renderable, "app_component_t"} \cap DOMAIN components'
  BY DEF WorldInv
<1>3. Core!SceneMatchesWorld'
  <2> SUFFICES ASSUME (Core!Renderable \in DOMAIN info /\ "gfx" \in up)'
               PROVE  (/\ renderables = held \cup Core!Handles(DOMAIN world)
                       /\ held \cap Core!Handles(DOMAIN world) = {}
                       /\ \A e, f \in {x \in DOMAIN world : Core!Renderable \in DOMAIN world[x]} :
                            e # f => world[e][Core!Renderable] # world[f][Core!Renderable])'
    BY DEF Core!SceneMatchesWorld
  <2> DEFINE owners == {x \in DOMAIN world : Core!Renderable \in DOMAIN world[x]}
  <2>1. /\ renderables = held \cup Core!Handles(DOMAIN world)
        /\ held \cap Core!Handles(DOMAIN world) = {}
        /\ \A e, f \in owners : e # f => world[e][Core!Renderable] # world[f][Core!Renderable]
    BY DEF WorldInv, Core!SceneMatchesWorld
  <2>2. renderables' = renderables \ Core!Handles(es)
    OBVIOUS
  <2>3. /\ Core!Handles(DOMAIN world) = {world[e][Core!Renderable] : e \in owners}
        /\ Core!Handles(es) = {world[e][Core!Renderable] : e \in owners \cap es}
        /\ Core!Handles(DOMAIN world)' = {world[e][Core!Renderable] : e \in owners \ es}
    BY DEF Core!Handles
  <2>4. owners' = owners \ es /\ \A e \in owners \ es : world'[e][Core!Renderable] = world[e][Core!Renderable]
    OBVIOUS
  <2>5. Core!Handles(DOMAIN world)' = Core!Handles(DOMAIN world) \ Core!Handles(es)
    <3> HIDE DEF owners
    <3>1. \A e \in owners \ es, f \in owners \cap es : world[e][Core!Renderable] # world[f][Core!Renderable]
      BY <2>1
    <3> DEFINE mine == {world[e][Core!Renderable] : e \in owners \ es}
               theirs == {world[e][Core!Renderable] : e \in owners \cap es}
    <3>2. mine \cap theirs = {}
      BY <3>1
    <3>3. {world[e][Core!Renderable] : e \in owners} = mine \cup theirs
      OBVIOUS
    <3>4. mine = (mine \cup theirs) \ theirs
      BY <3>2
    <3> QED  BY <2>3, <3>3, <3>4
  <2>6. held \cap Core!Handles(es) = {}
    BY <2>1, <2>3
  <2>7. \A e, f \in owners' : e # f => world'[e][Core!Renderable] # world'[f][Core!Renderable]
    BY <2>1, <2>4
  <2> QED  BY <2>1, <2>2, <2>5, <2>6, <2>7
<1> QED
  BY <1>1, <1>2, <1>3 DEF WorldInv

\* The entities that are left are destroyed, while the scene is still there.
LEMMA EntitiesShutdownKeeps == ASSUME HostInv, Core!EntitiesShutdown PROVE HostInv'
<1> DEFINE step == Core!Free("entities")
<1>1. /\ Core!Do(step) /\ Core!Destroyed(DOMAIN world) /\ world' = <<>> /\ systems' = {} /\ up' = up \ {"entities"}
      /\ UNCHANGED <<editor, build, info, components, held, app, commands, shown, cvars>>
  BY DEF Core!EntitiesShutdown, Core!console
<1>2. ScriptInv' /\ UpInv' /\ Shut'
  BY <1>1, FreeKeeps DEF HostInv
<1>3. step \in Left /\ Left' = Left \ {step}
  BY <1>1, Doing DEF HostInv, ScriptInv
<1>4. \A s : Core!New(s) \notin Left
  BY <1>3, StepNames DEF HostInv, ScriptInv
<1>5. Core!NoFault' /\ renderables' = renderables \ (IF Core!Renderable \in DOMAIN info THEN Core!Handles(DOMAIN world) ELSE {})
  <2>1. "gfx" \in up
    BY <1>3 DEF HostInv, UpInv
  <2> QED  BY <1>1, <2>1, DestroyedKeeps
<1>6. RegistryInv'
  BY <1>1, <1>2, <1>3, RegistryRests, StepNames DEF HostInv
<1>7. EcsInv' /\ ConsoleInv'
  BY <1>1, <1>4, ConsoleRests DEF HostInv, EcsInv
<1>8. WorldInv'
  <2>1. DOMAIN world' = DOMAIN world \ DOMAIN world
    BY <1>1
  <2>2. Core!New("gfx") \notin Left' /\ Core!New("register") \notin Left'
    BY <1>3, <1>4
  <2> QED  BY <1>1, <1>5, <2>1, <2>2, WorldLoses DEF HostInv
<1> QED
  BY <1>2, <1>5, <1>6, <1>7, <1>8 DEF HostInv

\* The application deallocates what it remembers; its vtable is still there.
LEMMA AppShutdownKeeps == ASSUME HostInv, Core!AppShutdown PROVE HostInv'
<1> DEFINE step == Core!Free("app_shutdown")
<1>1. Core!Do(step) /\ UNCHANGED <<editor, up, build, info, components, systems, held, app, commands, shown, cvars>>
  BY DEF Core!AppShutdown, Core!meta, Core!console
<1>2. ScriptInv' /\ UpInv' /\ (Shut' <=> Shut)
  BY <1>1, PlainKeeps DEF HostInv
<1>3. step \in Left /\ Left' = Left \ {step}
  BY <1>1, Doing DEF HostInv, ScriptInv
<1>4. \A s : Core!New(s) \notin Left
  BY <1>3, StepNames DEF HostInv, ScriptInv
<1>5. Core!AppCallable /\ "gfx" \in up
  BY <1>3, Loaded DEF HostInv, RegistryInv, UpInv
<1>6. PICK es \in SUBSET DOMAIN world : world' = [e \in DOMAIN world \ es |-> world[e]] /\ Core!Destroyed(es)
  BY <1>5 DEF Core!AppShutdown
<1>7. Core!NoFault' /\ renderables' = renderables \ (IF Core!Renderable \in DOMAIN info THEN Core!Handles(es) ELSE {})
  BY <1>1, <1>5, <1>6, DestroyedKeeps
<1>8. RegistryInv' /\ EcsInv' /\ ConsoleInv'
  BY <1>1, <1>2, <1>3, RegistryRests, EcsRests, ConsoleRests, StepNames DEF HostInv
<1>9. WorldInv'
  <2>1. Core!New("gfx") \notin Left' /\ Core!New("register") \notin Left'
    BY <1>3, <1>4
  <2> QED  BY <1>1, <1>6, <1>7, <2>1, WorldLoses DEF HostInv
<1> QED
  BY <1>2, <1>7, <1>8, <1>9 DEF HostInv

\* An entity takes its renderable with it.
LEMMA DeallocateKeeps == ASSUME HostInv, Core!Deallocate PROVE HostInv'
<1>1. PICK e \in DOMAIN world : world' = Core!Drop(world, e) /\ Core!Destroyed({e})
  BY DEF Core!Deallocate
<1>2. UNCHANGED <<todo, editor, up, build, info, components, systems, held, app, commands, shown, cvars>>
  BY DEF Core!Deallocate, Core!meta, Core!console
<1>3. Left = {} /\ "gfx" \in up
  BY AllThere DEF Core!Deallocate, Core!Structs
<1>4. ScriptInv' /\ UpInv' /\ RegistryInv' /\ Left' = Left
  BY <1>2, ScriptsRest DEF HostInv
<1>5. Core!NoFault' /\ renderables' = renderables \ (IF Core!Renderable \in DOMAIN info THEN Core!Handles({e}) ELSE {})
  BY <1>1, <1>2, <1>3, DestroyedKeeps
<1>6. EcsInv' /\ ConsoleInv'
  BY <1>2, <1>4, EcsRests, ConsoleRests DEF HostInv
<1>7. WorldInv'
  <2>1. DOMAIN world' = DOMAIN world \ {e} /\ \A x \in DOMAIN world' : world'[x] = world[x]
    BY <1>1 DEF Core!Drop
  <2> QED  BY <1>2, <1>3, <1>4, <1>5, <2>1, WorldLoses DEF HostInv
<1> QED
  BY <1>4, <1>5, <1>6, <1>7 DEF HostInv

\* What is stopped runs.
LEMMA FreeStructKeeps == ASSUME HostInv, Core!FreeStruct PROVE HostInv'
<1>1. PICK s \in {"sched", "network", "physics", "assets"} : Core!Do(Core!Free(s)) /\ Core!Fault(s \in up, s) /\ up' = up \ {s}
  BY DEF Core!FreeStruct
<1>2. UNCHANGED <<editor, build, info, components, systems, world, renderables, held, app, commands, shown, cvars>>
  BY DEF Core!FreeStruct, Core!meta, Core!scene, Core!console
<1>3. ScriptInv' /\ UpInv' /\ (Shut' <=> Shut)
  BY <1>1, <1>2, FreeKeeps DEF HostInv
<1>4. Core!Free(s) \in Left /\ Left' = Left \ {Core!Free(s)}
  BY <1>1, Doing DEF HostInv, ScriptInv
<1>5. RegistryInv' /\ EcsInv' /\ ConsoleInv' /\ WorldInv'
  BY <1>1, <1>2, <1>3, <1>4, RegistryRests, EcsRests, ConsoleRests, WorldRests, StepNames DEF HostInv
<1>6. Core!NoFault'
  BY <1>1, <1>2, <1>4, NoNewFault DEF HostInv, UpInv
<1> QED
  BY <1>3, <1>5, <1>6 DEF HostInv

\* The scene ends, and nobody's handle is asked for after it.
LEMMA GfxShutdownKeeps == ASSUME HostInv, Core!GfxShutdown PROVE HostInv'
<1> DEFINE step == Core!Free("gfx")
<1>1. /\ Core!Do(step) /\ renderables' = {} /\ up' = up \ {"gfx"}
      /\ UNCHANGED <<editor, build, info, components, systems, world, held, app, commands, shown, cvars, faults>>
  BY DEF Core!GfxShutdown, Core!meta, Core!console
<1>2. ScriptInv' /\ UpInv' /\ (Shut' <=> Shut)
  BY <1>1, FreeKeeps DEF HostInv
<1>3. step \in Left /\ Left' = Left \ {step}
  BY <1>1, Doing DEF HostInv, ScriptInv
<1>4. \A s : Core!New(s) \notin Left
  BY <1>3, StepNames DEF HostInv, ScriptInv
<1>5. RegistryInv' /\ EcsInv' /\ ConsoleInv' /\ Core!NoFault'
  BY <1>1, <1>2, <1>3, RegistryRests, EcsRests, ConsoleRests, FaultRests, StepNames DEF HostInv
<1>6. WorldInv'
  <2>1. Core!New("gfx") \notin Left' /\ Core!New("register") \notin Left'
    BY <1>3, <1>4
  <2>2. Core!SceneMatchesWorld'
    BY <1>1 DEF Core!SceneMatchesWorld
  <2>3. IsFiniteSet(renderables')
    BY <1>1, FS_EmptySet
  <2> QED  BY <1>1, <2>1, <2>2, <2>3 DEF HostInv, WorldInv
<1> QED
  BY <1>2, <1>5, <1>6 DEF HostInv

\* A script is begun: the registry has what its steps will ask for.
LEMMA RegistryBegins ==
  ASSUME ScriptInv, UpInv, RegistryInv, todo = <<>>, "entities" \in up,
         UNCHANGED <<editor, build, info, app>>, ~Shut',
         \/ app = Core!Null /\ editor /\ Left' = {Core!New("app"), Core!New("app_meta"), Core!New("app_init")}
         \/ app = Core!Null /\ editor /\ \A r \in Left' : \E s : r = Core!Free(s) /\ s \notin {"app_shutdown", "app_meta", "app"}
         \/ /\ app # Core!Null
            /\ \A r \in Left' : \E s : r = Core!Free(s)
            /\ Core!Free("app") \in Left' => Core!Free("app_meta") \in Left'
  PROVE  RegistryInv'
<1>1. Left = {} /\ ~Shut
  BY Idle
<1>2. Core!AppLib' = Core!AppLib
  BY DEF Core!AppLib
<1>3. app # Core!Null => "app_t" \in DOMAIN info
  BY <1>1 DEF RegistryInv
<1>4. app = Core!Null => \A c \in DOMAIN info : c \in DOMAIN Core!CoreClasses /\ info[c] = 0
  BY DEF RegistryInv
<1>5. DOMAIN Core!CoreClasses \subseteq DOMAIN info
  BY <1>1 DEF RegistryInv
<1>6. ~editor => app # Core!Null
  BY <1>1 DEF RegistryInv
<1>7. CASE app = Core!Null /\ editor /\ Left' = {Core!New("app"), Core!New("app_meta"), Core!New("app_init")}
  <2>1. \A s : Core!Free(s) \notin Left'
    BY <1>7, StepNames
  <2>2. \A c \in DOMAIN info' : c \in DOMAIN Core!CoreClasses /\ info'[c] = 0
    BY <1>4, <1>7
  <2> QED  BY <1>5, <1>7, <2>1, <2>2 DEF RegistryInv
<1>8. CASE app = Core!Null /\ editor /\ \A r \in Left' : \E s : r = Core!Free(s) /\ s \notin {"app_shutdown", "app_meta", "app"}
  <2>1. Core!Free("app_shutdown") \notin Left' /\ \A s : Core!New(s) \notin Left'
    BY <1>8, StepNames
  <2>2. \A c \in DOMAIN info' : c \in DOMAIN Core!CoreClasses /\ info'[c] = 0
    BY <1>4, <1>8
  <2> QED  BY <1>5, <1>8, <2>1, <2>2 DEF RegistryInv
<1>9. CASE /\ app # Core!Null
           /\ \A r \in Left' : \E s : r = Core!Free(s)
           /\ Core!Free("app") \in Left' => Core!Free("app_meta") \in Left'
  <2>1. \A s : Core!New(s) \notin Left'
    BY <1>9, StepNames
  <2>2. \A c \in DOMAIN info' :
          \/ c \in DOMAIN Core!CoreClasses /\ info'[c] = 0
          \/ c \in DOMAIN Core!AppClasses /\ info'[c] = Core!AppLib' /\ app' # Core!Null
    BY <1>2 DEF RegistryInv
  <2> QED  BY <1>3, <1>5, <1>9, <2>1, <2>2 DEF RegistryInv
<1> QED
  BY <1>7, <1>8, <1>9

\* The editor begins to load the application.
LEMMA LibraryLoadKeeps == ASSUME HostInv, Core!LibraryLoad PROVE HostInv'
<1>1. /\ editor /\ todo = <<>> /\ app = Core!Null /\ "entities" \in up /\ todo' = Core!AppStart
      /\ UNCHANGED <<editor, up, build, info, components, systems, world, renderables, held, app, commands, shown, cvars, faults>>
  BY DEF Core!LibraryLoad, Core!meta, Core!scene, Core!console
<1>2. InOrder(todo') /\ Left' = Parts(Core!AppStart)
  BY <1>1, Scripts DEF Left, Parts
<1>3. ScriptInv' /\ UpInv' /\ ~Shut'
  BY <1>1, <1>2, BeginKeeps DEF HostInv
<1>4. Left = {}
  BY <1>1, Idle DEF HostInv
<1>5. Left' = {Core!New("app"), Core!New("app_meta"), Core!New("app_init")}
  BY <1>2, Scripts
<1>6. RegistryInv'
  BY <1>1, <1>3, <1>5, RegistryBegins DEF HostInv
<1>7. EcsInv' /\ ConsoleInv' /\ Core!NoFault'
  BY <1>1, <1>4, EcsRests, ConsoleRests, FaultRests DEF HostInv
<1>8. WorldInv'
  <2>1. Core!SceneMatchesWorld'
    BY <1>1 DEF HostInv, WorldInv, Core!SceneMatchesWorld, Core!Handles
  <2>2. Core!New("gfx") \notin Left' /\ Core!New("register") \notin Left'
    BY <1>5, StepNames
  <2> QED  BY <1>1, <2>1, <2>2 DEF HostInv, WorldInv
<1> QED
  BY <1>3, <1>6, <1>7, <1>8 DEF HostInv

\* The editor begins to unload it.
LEMMA LibraryUnloadKeeps == ASSUME HostInv, Core!LibraryUnload PROVE HostInv'
<1>1. /\ editor /\ todo = <<>> /\ app # Core!Null /\ "entities" \in up /\ todo' = Core!AppStop
      /\ UNCHANGED <<editor, up, build, info, components, systems, world, renderables, held, app, commands, shown, cvars, faults>>
  BY DEF Core!LibraryUnload, Core!Running, Core!meta, Core!scene, Core!console
<1>2. InOrder(todo') /\ Left' = Parts(Core!AppStop)
  BY <1>1, Scripts DEF Left, Parts
<1>3. ScriptInv' /\ UpInv' /\ ~Shut'
  BY <1>1, <1>2, BeginKeeps DEF HostInv
<1>4. Left = {}
  BY <1>1, Idle DEF HostInv
<1>5. Left' = {Core!Free("app_shutdown"), Core!Free("app_meta"), Core!Free("app")}
  BY <1>2, Scripts
<1>6. RegistryInv'
  BY <1>1, <1>3, <1>5, RegistryBegins DEF HostInv
<1>7. EcsInv' /\ ConsoleInv' /\ Core!NoFault'
  BY <1>1, <1>4, EcsRests, ConsoleRests, FaultRests DEF HostInv
<1>8. WorldInv'
  <2>1. Core!SceneMatchesWorld'
    BY <1>1 DEF HostInv, WorldInv, Core!SceneMatchesWorld, Core!Handles
  <2>2. Core!New("gfx") \notin Left' /\ Core!New("register") \notin Left'
    BY <1>5, StepNames
  <2> QED  BY <1>1, <2>1, <2>2 DEF HostInv, WorldInv
<1> QED
  BY <1>3, <1>6, <1>7, <1>8 DEF HostInv

\* The program begins to end.
LEMMA QuitKeeps == ASSUME HostInv, Core!Quit PROVE HostInv'
<1>1. /\ todo = <<>> /\ "entities" \in up
      /\ UNCHANGED <<editor, up, build, info, components, systems, world, renderables, held, app, commands, shown, cvars, faults>>
  BY DEF Core!Quit, Core!meta, Core!scene, Core!console
<1>2. /\ InOrder(todo')
      /\ \/ ~editor /\ Left' = Parts(SubSeq(Core!AppStop, 1, 2)) \cup Parts(Core!StopOrder)
         \/ editor /\ app # Core!Null /\ Left' = Parts(Core!AppStop) \cup Parts(Core!StopOrder)
         \/ editor /\ app = Core!Null /\ Left' = Parts(Core!StopOrder)
  BY Quitting DEF HostInv, ScriptInv
<1>3. ScriptInv' /\ UpInv' /\ ~Shut'
  BY <1>1, <1>2, BeginKeeps DEF HostInv
<1>4. Left = {} /\ ~Shut
  BY <1>1, Idle DEF HostInv
<1>5. ~editor => app # Core!Null
  BY <1>4 DEF HostInv, RegistryInv
<1>6. /\ Parts(Core!StopOrder) = {Core!Free(s) : s \in {"sched", "register", "network", "entities", "physics", "gfx", "assets"}}
      /\ Parts(Core!AppStop) = {Core!Free("app_shutdown"), Core!Free("app_meta"), Core!Free("app")}
      /\ Parts(SubSeq(Core!AppStop, 1, 2)) = {Core!Free("app_shutdown"), Core!Free("app_meta")}
  BY Scripts
<1>7. RegistryInv'
  <2>1. CASE app = Core!Null
    <3>1. editor /\ Left' = Parts(Core!StopOrder)
      BY <1>2, <1>5, <2>1
    <3>2. \A r \in Left' : \E s : r = Core!Free(s) /\ s \notin {"app_shutdown", "app_meta", "app"}
      BY <1>6, <3>1
    <3> QED  BY <1>1, <1>3, <2>1, <3>1, <3>2, RegistryBegins DEF HostInv
  <2>2. CASE app # Core!Null
    <3>1. \A r \in Left' : \E s : r = Core!Free(s)
      BY <1>2, <1>6
    <3>2. Core!Free("app") \in Left' => Core!Free("app_meta") \in Left'
      BY <1>2, <1>6, StepNames
    <3> QED  BY <1>1, <1>3, <2>2, <3>1, <3>2, RegistryBegins DEF HostInv
  <2> QED  BY <2>1, <2>2
<1>8. EcsInv' /\ ConsoleInv' /\ Core!NoFault'
  BY <1>1, <1>4, EcsRests, ConsoleRests, FaultRests DEF HostInv
<1>9. WorldInv'
  <2>1. Core!SceneMatchesWorld'
    BY <1>1 DEF HostInv, WorldInv, Core!SceneMatchesWorld, Core!Handles
  <2>2. Core!New("gfx") \notin Left' /\ Core!New("register") \notin Left'
    BY <1>2, <1>6, StepNames
  <2> QED  BY <1>1, <2>1, <2>2 DEF HostInv, WorldInv
<1> QED
  BY <1>3, <1>7, <1>8, <1>9 DEF HostInv

\* A frame finds the application's vtable, the systems' callbacks and the renderables.
LEMMA AppUpdateKeeps == ASSUME HostInv, Core!AppUpdate PROVE HostInv'
<1> DEFINE ok == /\ app = "PLAYING" => Core!AppCallable
                 /\ \A s \in systems : Core!Ticks(s)
                 /\ app = "PLAYING" => Core!CallbackFinds
<1>1. /\ Core!Running /\ Core!Fault(ok, "update")
      /\ UNCHANGED <<todo, editor, up, build, info, components, systems, world, renderables, held, app, commands, shown, cvars>>
  BY DEF Core!AppUpdate, Core!meta, Core!scene, Core!console
<1>2. ScriptInv' /\ UpInv' /\ RegistryInv' /\ Left' = Left
  BY <1>1, ScriptsRest DEF HostInv
<1>3. EcsInv' /\ ConsoleInv' /\ WorldInv'
  BY <1>1, <1>2, EcsRests, ConsoleRests, WorldRests DEF HostInv
<1>4. /\ "gfx" \in up /\ "app_t" \in DOMAIN info /\ Core!Renderable \in DOMAIN info
  BY <1>1, AllThere, ClassFacts DEF Core!Structs
<1>5. Core!AppCallable
  BY <1>4, Loaded DEF HostInv
<1>6. \A s \in systems : Core!Ticks(s)
  <2> SUFFICES ASSUME NEW s \in systems PROVE Core!Ticks(s)
    OBVIOUS
  <2>1. PICK c \in DOMAIN info : s = <<c, info[c]>>
    BY DEF HostInv, EcsInv
  <2>2. info[c] \in Core!Libs
    BY Loaded DEF HostInv
  <2> QED  BY <1>1, <2>1, <2>2 DEF Core!Ticks, Core!Running
<1>7. Core!CallbackFinds
  <2> SUFFICES ASSUME NEW e \in DOMAIN world, Core!Renderable \in DOMAIN world[e]
               PROVE  world[e][Core!Renderable] \in renderables
    BY DEF Core!CallbackFinds
  <2>1. world[e][Core!Renderable] \in Core!Handles(DOMAIN world)
    BY DEF Core!Handles
  <2> QED  BY <1>4, <2>1 DEF HostInv, WorldInv, Core!SceneMatchesWorld
<1>8. Core!NoFault'
  <2>1. ok
    BY <1>5, <1>6, <1>7
  <2> HIDE DEF ok
  <2> QED  BY <1>1, <2>1, NoNewFault DEF HostInv
<1> QED
  BY <1>2, <1>3, <1>8 DEF HostInv

\* The application is paused, played or stopped.
LEMMA SetStateKeeps == ASSUME HostInv, Core!SetState PROVE HostInv'
<1>1. /\ Core!Running /\ app' \in {"STOPPED", "PLAYING", "PAUSED"}
      /\ UNCHANGED <<todo, editor, up, build, info, components, systems, world, renderables, held, commands, shown, cvars, faults>>
  BY DEF Core!SetState, Core!meta, Core!scene, Core!console
<1>2. app' # Core!Null /\ app # Core!Null
  BY <1>1 DEF Core!Null, Core!Running
<1>3. Left' = Left /\ (Shut' <=> Shut)
  BY <1>1 DEF Left, Shut
<1>4. ScriptInv' /\ UpInv'
  BY <1>1, <1>3 DEF HostInv, ScriptInv, UpInv
<1>5. Core!AppLib' = Core!AppLib
  BY <1>1 DEF Core!AppLib
<1>6. RegistryInv'
  BY <1>1, <1>2, <1>3, <1>5 DEF HostInv, RegistryInv
<1>7. EcsInv' /\ ConsoleInv' /\ WorldInv' /\ Core!NoFault'
  BY <1>1, <1>3, EcsRests, ConsoleRests, WorldRests, FaultRests DEF HostInv
<1> QED
  BY <1>4, <1>6, <1>7 DEF HostInv

\* The variable of a command is in the registry, and its value in a loaded library.
LEMMA CvarCmdKeeps == ASSUME HostInv, Core!CvarCmd PROVE HostInv'
<1> DEFINE ok(h) == /\ commands[h][2] \in Core!Libs
                    /\ commands[h][1] \in DOMAIN cvars => cvars[commands[h][1]][2] \in Core!Libs
<1>1. PICK h \in DOMAIN commands : commands[h][1] \in Core!AppCvars /\ Core!Fault(ok(h), "console")
  BY DEF Core!CvarCmd
<1>2. UNCHANGED <<todo, editor, up, build, info, components, systems, world, renderables, held, app, commands, shown, cvars>>
  BY DEF Core!CvarCmd, Core!meta, Core!scene, Core!console
<1>3. ScriptInv' /\ UpInv' /\ RegistryInv' /\ Left' = Left
  BY <1>2, ScriptsRest DEF HostInv
<1>4. EcsInv' /\ ConsoleInv' /\ WorldInv'
  BY <1>2, <1>3, EcsRests, ConsoleRests, WorldRests DEF HostInv
<1>5. PICK n : n = commands[h][1]
  OBVIOUS
<1>6. n \in DOMAIN cvars /\ cvars[n][1] = h /\ commands[h] = <<n, cvars[n][2]>>
  BY <1>1, <1>5 DEF HostInv, ConsoleInv, Listed
<1>7. cvars[n][2] \in Core!Libs
  BY <1>6, Loaded DEF HostInv, ConsoleInv
<1>8. Core!NoFault'
  <2>1. ok(h)
    BY <1>5, <1>6, <1>7
  <2> HIDE DEF ok
  <2> QED  BY <1>1, <1>2, <2>1, NoNewFault DEF HostInv
<1> QED
  BY <1>3, <1>4, <1>8 DEF HostInv

\* The world changes and its renderables do not.
LEMMA WorldGrows ==
  ASSUME WorldInv, UNCHANGED <<up, info, components, renderables, held>>,
         DOMAIN world \subseteq DOMAIN world',
         \A e \in DOMAIN world' :
           DOMAIN world'[e] \subseteq {Core!Transform, Core!Renderable, "app_component_t"} \cap DOMAIN components,
         \A e \in DOMAIN world' : Core!Renderable \in DOMAIN world'[e] =>
           e \in DOMAIN world /\ Core!Renderable \in DOMAIN world[e] /\ world'[e][Core!Renderable] = world[e][Core!Renderable],
         \A e \in DOMAIN world : Core!Renderable \in DOMAIN world[e] => Core!Renderable \in DOMAIN world'[e],
         Core!New("gfx") \notin Left', Core!New("register") \notin Left'
  PROVE  WorldInv'
<1>1. Core!Handles(DOMAIN world)' = Core!Handles(DOMAIN world)
  BY DEF Core!Handles
<1>2. Core!SceneMatchesWorld'
  <2> SUFFICES ASSUME Core!Renderable \in DOMAIN info /\ "gfx" \in up
               PROVE  \A e, f \in {x \in DOMAIN world' : Core!Renderable \in DOMAIN world'[x]} :
                        e # f => world'[e][Core!Renderable] # world'[f][Core!Renderable]
    BY <1>1 DEF WorldInv, Core!SceneMatchesWorld
  <2>1. \A e, f \in {x \in DOMAIN world : Core!Renderable \in DOMAIN world[x]} :
          e # f => world[e][Core!Renderable] # world[f][Core!Renderable]
    BY DEF WorldInv, Core!SceneMatchesWorld
  <2> QED  BY <2>1
<1> QED
  BY <1>2 DEF WorldInv

\* A new entity has its tag and nothing of the scene.
LEMMA AllocateKeeps == ASSUME HostInv, Core!Allocate PROVE HostInv'
<1>1. PICK e \in Entities \ DOMAIN world : world' = Core!Put(world, e, <<>>)
  BY DEF Core!Allocate
<1>2. /\ Core!Running /\ Core!Fault("gs_core_component_tag_t" \in DOMAIN components, "component")
      /\ UNCHANGED <<todo, editor, up, build, info, components, systems, renderables, held, app, commands, shown, cvars>>
  BY DEF Core!Allocate, Core!meta, Core!scene, Core!console
<1>3. ScriptInv' /\ UpInv' /\ RegistryInv' /\ Left' = Left
  BY <1>2, ScriptsRest DEF HostInv
<1>4. EcsInv' /\ ConsoleInv'
  BY <1>2, <1>3, EcsRests, ConsoleRests DEF HostInv
<1>5. Left = {} /\ "gs_core_component_tag_t" \in DOMAIN components
  BY <1>2, AllThere
<1>6. DOMAIN world' = DOMAIN world \cup {e} /\ world'[e] = <<>> /\ \A x \in DOMAIN world : world'[x] = world[x]
  BY <1>1 DEF Core!Put
<1>7. \A x \in DOMAIN world' :
        DOMAIN world'[x] \subseteq {Core!Transform, Core!Renderable, "app_component_t"} \cap DOMAIN components
  BY <1>6 DEF HostInv, WorldInv
<1>8. \A x \in DOMAIN world' : Core!Renderable \in DOMAIN world'[x] =>
        x \in DOMAIN world /\ Core!Renderable \in DOMAIN world[x] /\ world'[x][Core!Renderable] = world[x][Core!Renderable]
  BY <1>6
<1>9. WorldInv'
  BY <1>2, <1>3, <1>5, <1>6, <1>7, <1>8, WorldGrows DEF HostInv
<1>10. Core!NoFault'
  BY <1>2, <1>5, NoNewFault DEF HostInv
<1> QED
  BY <1>3, <1>4, <1>9, <1>10 DEF HostInv

\* A component that owns nothing is added or replaced.
LEMMA ComponentAddKeeps == ASSUME HostInv, Core!ComponentAdd PROVE HostInv'
<1>1. PICK e \in DOMAIN world, c \in {Core!Transform, "app_component_t"} : Core!Add(e, c, 0)
  BY DEF Core!ComponentAdd
<1>2. /\ Core!Running
      /\ UNCHANGED <<todo, editor, up, build, info, components, systems, renderables, held, app, commands, shown, cvars>>
  BY DEF Core!ComponentAdd, Core!meta, Core!scene, Core!console
<1>3. ScriptInv' /\ UpInv' /\ RegistryInv' /\ Left' = Left
  BY <1>2, ScriptsRest DEF HostInv
<1>4. EcsInv' /\ ConsoleInv'
  BY <1>2, <1>3, EcsRests, ConsoleRests DEF HostInv
<1>5. Left = {} /\ c \in DOMAIN components /\ c # Core!Renderable
  BY <1>2, AllThere, ClassFacts
<1>6. /\ DOMAIN world' = DOMAIN world /\ \A x \in DOMAIN world \ {e} : world'[x] = world[x]
      /\ world'[e] = Core!Put(world[e], c, 0) /\ Core!Fault(c \in DOMAIN components, "component")
  BY <1>1 DEF Core!Add
<1>7. DOMAIN world'[e] = DOMAIN world[e] \cup {c} /\ \A k \in DOMAIN world[e] \ {c} : world'[e][k] = world[e][k]
  BY <1>6 DEF Core!Put
<1>8. \A x \in DOMAIN world' :
        DOMAIN world'[x] \subseteq {Core!Transform, Core!Renderable, "app_component_t"} \cap DOMAIN components
  BY <1>5, <1>6, <1>7 DEF HostInv, WorldInv
<1>9. \A x \in DOMAIN world' :
        /\ Core!Renderable \in DOMAIN world'[x] <=> Core!Renderable \in DOMAIN world[x]
        /\ Core!Renderable \in DOMAIN world'[x] => world'[x][Core!Renderable] = world[x][Core!Renderable]
  BY <1>5, <1>6, <1>7
<1>10. WorldInv'
  BY <1>2, <1>3, <1>5, <1>6, <1>8, <1>9, WorldGrows DEF HostInv
<1>11. Core!NoFault'
  BY <1>2, <1>5, <1>6, NoNewFault DEF HostInv
<1> QED
  BY <1>3, <1>4, <1>10, <1>11 DEF HostInv

\* A new renderable is the application's.
LEMMA RenderableCreateKeeps == ASSUME HostInv, Core!RenderableCreate PROVE HostInv'
<1>1. PICK h : h = Core!FreeHandle(renderables)
  OBVIOUS
<1>2. /\ Core!Running /\ renderables' = renderables \cup {h} /\ held' = held \cup {h}
      /\ UNCHANGED <<todo, editor, up, build, info, components, systems, world, app, commands, shown, cvars, faults>>
  BY <1>1 DEF Core!RenderableCreate, Core!meta, Core!console
<1>3. ScriptInv' /\ UpInv' /\ RegistryInv' /\ Left' = Left
  BY <1>2, ScriptsRest DEF HostInv
<1>4. EcsInv' /\ ConsoleInv' /\ Core!NoFault'
  BY <1>2, <1>3, EcsRests, ConsoleRests, FaultRests DEF HostInv
<1>5. h \in Nat \ renderables
  BY <1>1, FreeIsFree DEF HostInv, WorldInv
<1>6. Left = {}
  BY <1>2, AllThere
<1>7. Core!Handles(DOMAIN world)' = Core!Handles(DOMAIN world)
  BY <1>2 DEF Core!Handles
<1>8. Core!SceneMatchesWorld'
  BY <1>2, <1>5, <1>7 DEF HostInv, WorldInv, Core!SceneMatchesWorld
<1>9. IsFiniteSet(renderables') /\ renderables' \subseteq Nat
  BY <1>2, <1>5, FS_AddElement DEF HostInv, WorldInv
<1>10. WorldInv'
  BY <1>2, <1>3, <1>6, <1>8, <1>9 DEF HostInv, WorldInv
<1> QED
  BY <1>3, <1>4, <1>10 DEF HostInv

\* The application destroys what no component holds.
LEMMA RenderableDestroyKeeps == ASSUME HostInv, Core!RenderableDestroy PROVE HostInv'
<1>1. PICK h \in held : renderables' = renderables \ {h} /\ held' = held \ {h}
  BY DEF Core!RenderableDestroy
<1>2. /\ Core!Running
      /\ UNCHANGED <<todo, editor, up, build, info, components, systems, world, app, commands, shown, cvars, faults>>
  BY DEF Core!RenderableDestroy, Core!meta, Core!console
<1>3. ScriptInv' /\ UpInv' /\ RegistryInv' /\ Left' = Left
  BY <1>2, ScriptsRest DEF HostInv
<1>4. EcsInv' /\ ConsoleInv' /\ Core!NoFault'
  BY <1>2, <1>3, EcsRests, ConsoleRests, FaultRests DEF HostInv
<1>5. Left = {}
  BY <1>2, AllThere
<1>6. Core!Handles(DOMAIN world)' = Core!Handles(DOMAIN world)
  BY <1>2 DEF Core!Handles
<1>7. Core!SceneMatchesWorld'
  BY <1>1, <1>2, <1>6 DEF HostInv, WorldInv, Core!SceneMatchesWorld
<1>8. IsFiniteSet(renderables') /\ renderables' \subseteq Nat
  BY <1>1, FS_Subset DEF HostInv, WorldInv
<1>9. WorldInv'
  BY <1>2, <1>3, <1>5, <1>7, <1>8 DEF HostInv, WorldInv
<1> QED
  BY <1>3, <1>4, <1>9 DEF HostInv

\* A component takes a renderable, and gives back the one it held.
LEMMA RenderableAddKeeps == ASSUME HostInv, Core!RenderableAdd PROVE HostInv'
<1>1. PICK e \in DOMAIN world, h \in held :
        Core!Add(e, Core!Renderable, h) /\ held' = (held \ {h}) \cup Core!Handles({e})
  BY DEF Core!RenderableAdd
<1>2. /\ Core!Running
      /\ UNCHANGED <<todo, editor, up, build, info, components, systems, renderables, app, commands, shown, cvars>>
  BY DEF Core!RenderableAdd, Core!meta, Core!console
<1>3. ScriptInv' /\ UpInv' /\ RegistryInv' /\ Left' = Left
  BY <1>2, ScriptsRest DEF HostInv
<1>4. EcsInv' /\ ConsoleInv'
  BY <1>2, <1>3, EcsRests, ConsoleRests DEF HostInv
<1>5. Left = {} /\ Core!Renderable \in DOMAIN components /\ Core!Renderable \in DOMAIN info /\ "gfx" \in up
  BY <1>2, AllThere, ClassFacts DEF Core!Structs
<1>6. /\ DOMAIN world' = DOMAIN world /\ \A x \in DOMAIN world \ {e} : world'[x] = world[x]
      /\ world'[e] = Core!Put(world[e], Core!Renderable, h) /\ Core!Fault(Core!Renderable \in DOMAIN components, "component")
  BY <1>1 DEF Core!Add
<1>7. DOMAIN world'[e] = DOMAIN world[e] \cup {Core!Renderable} /\ world'[e][Core!Renderable] = h
  BY <1>6 DEF Core!Put
<1>8. \A x \in DOMAIN world' :
        DOMAIN world'[x] \subseteq {Core!Transform, Core!Renderable, "app_component_t"} \cap DOMAIN components
  BY <1>5, <1>6, <1>7 DEF HostInv, WorldInv
<1>9. Core!SceneMatchesWorld'
  <2> DEFINE owners == {x \in DOMAIN world : Core!Renderable \in DOMAIN world[x]}
             others == {world[x][Core!Renderable] : x \in owners \ {e}}
  <2>1. /\ renderables = held \cup Core!Handles(DOMAIN world)
        /\ held \cap Core!Handles(DOMAIN world) = {}
        /\ \A x, y \in owners : x # y => world[x][Core!Renderable] # world[y][Core!Renderable]
    BY <1>5 DEF HostInv, WorldInv, Core!SceneMatchesWorld
  <2>2. owners' = owners \cup {e} /\ \A x \in owners \ {e} : world'[x][Core!Renderable] = world[x][Core!Renderable]
    BY <1>6, <1>7
  <2>3. Core!Handles(DOMAIN world) = {world[x][Core!Renderable] : x \in owners}
    BY DEF Core!Handles
  <2>4. Core!Handles({e}) = {world[x][Core!Renderable] : x \in owners \cap {e}}
    BY DEF Core!Handles
  <2>5. Core!Handles(DOMAIN world)' = {world'[x][Core!Renderable] : x \in owners'}
    BY DEF Core!Handles
  <2>6. Core!Handles(DOMAIN world)' = others \cup {h}
    BY <1>7, <2>2, <2>5
  <2> HIDE DEF owners
  <2>7. Core!Handles(DOMAIN world) = others \cup Core!Handles({e})
    BY <2>3, <2>4
  <2>8. others \cap Core!Handles({e}) = {}
    <3>1. \A x \in owners \ {e}, y \in owners \cap {e} : world[x][Core!Renderable] # world[y][Core!Renderable]
      BY <2>1
    <3> QED  BY <2>4, <3>1
  <2>9. \A x, y \in owners' : x # y => world'[x][Core!Renderable] # world'[y][Core!Renderable]
    <3>1. \A x \in owners \ {e} : world[x][Core!Renderable] # h
      BY <1>1, <2>1, <2>3
    <3> QED  BY <1>7, <2>1, <2>2, <3>1
  <2> HIDE DEF others
  <2>10. h \in held /\ h \notin others
    BY <1>1, <2>1, <2>7
  <2>11. renderables' = held' \cup Core!Handles(DOMAIN world)'
    BY <1>1, <1>2, <2>1, <2>6, <2>7
  <2>12. held' \cap Core!Handles(DOMAIN world)' = {}
    BY <1>1, <2>1, <2>6, <2>7, <2>8, <2>10
  <2> QED  BY <2>9, <2>11, <2>12 DEF Core!SceneMatchesWorld, owners
<1>10. WorldInv'
  BY <1>2, <1>3, <1>5, <1>8, <1>9 DEF HostInv, WorldInv
<1>11. Core!NoFault'
  BY <1>2, <1>5, <1>6, NoNewFault DEF HostInv
<1> QED
  BY <1>3, <1>4, <1>10, <1>11 DEF HostInv

\* Nothing happens.
LEMMA HostRests == ASSUME HostInv, UNCHANGED Core!vars PROVE HostInv'
<1>1. UNCHANGED <<todo, editor, up, build, info, components, systems, world, renderables, held, app, commands, shown, cvars, faults>>
  BY DEF Core!vars, Core!meta, Core!scene, Core!console
<1>2. ScriptInv' /\ UpInv' /\ RegistryInv' /\ Left' = Left
  BY <1>1, ScriptsRest DEF HostInv
<1>3. EcsInv' /\ ConsoleInv' /\ WorldInv' /\ Core!NoFault'
  BY <1>1, <1>2, EcsRests, ConsoleRests, WorldRests, FaultRests DEF HostInv
<1> QED
  BY <1>2, <1>3 DEF HostInv

\* At the start there is nothing, and all is left to do.
LEMMA HostStarts == Core!Init => HostInv
<1> SUFFICES ASSUME Core!Init PROVE HostInv
  OBVIOUS
<1>1. /\ ScriptInv /\ UpInv /\ ~Shut
      /\ Parts(Core!StartOrder) \subseteq Left /\ \A s : Core!Free(s) \notin Left
      /\ Core!New("app") \in Left <=> ~editor
      /\ Core!New("app_meta") \in Left <=> ~editor
      /\ Core!New("app_init") \in Left <=> ~editor
  BY ScriptsStart
<1>2. Core!New("register") \in Left /\ Core!New("ecs") \in Left /\ Core!New("gfx") \in Left
  BY <1>1, Scripts DEF Core!Structs
<1>3. /\ up = {} /\ build = 0 /\ DOMAIN info = {} /\ DOMAIN components = {} /\ systems = {}
      /\ world = <<>> /\ DOMAIN world = {} /\ renderables = {} /\ held = {} /\ app = Core!Null
      /\ DOMAIN commands = {} /\ shown = {} /\ DOMAIN cvars = {} /\ faults = {}
  BY DEF Core!Init
<1>4. RegistryInv
  BY <1>1, <1>2, <1>3 DEF RegistryInv
<1>5. EcsInv
  BY <1>2, <1>3 DEF EcsInv
<1>6. ConsoleInv
  BY <1>3, FS_EmptySet DEF ConsoleInv, Listed
<1>7. Core!SceneMatchesWorld
  BY <1>3 DEF Core!SceneMatchesWorld
<1>8. WorldInv
  BY <1>3, <1>7, FS_EmptySet DEF WorldInv
<1> QED
  BY <1>1, <1>3, <1>4, <1>5, <1>6, <1>8 DEF HostInv, Core!NoFault

\* The invariant of the host, for any entities, indices and builds: what is left of
\* a script says which systems run and what is registered, and everything that is
\* registered lies in the program or in the library that is loaded.
THEOREM HostInvHolds == Core!Spec => []HostInv
<1>1. HostInv /\ [Core!Next]_(Core!vars) => HostInv'
  <2> SUFFICES ASSUME HostInv, [Core!Next]_(Core!vars) PROVE HostInv'
    OBVIOUS
  <2>1. CASE UNCHANGED Core!vars
    BY <2>1, HostRests
  <2>2. CASE Core!NewStruct \/ Core!MetaRegister \/ Core!EcsRegister \/ Core!DefaultEntity \/ Core!AddCommands
    BY <2>2, NewStructKeeps, MetaRegisterKeeps, EcsRegisterKeeps, DefaultEntityKeeps, AddCommandsKeeps
  <2>3. CASE Core!AppNew \/ Core!AppMetaRegister \/ Core!AppInit \/ Core!AppUpdate \/ Core!SetState \/ Core!CvarCmd
    BY <2>3, AppNewKeeps, AppMetaRegisterKeeps, AppInitKeeps, AppUpdateKeeps, SetStateKeeps, CvarCmdKeeps
  <2>4. CASE Core!Allocate \/ Core!ComponentAdd \/ Core!Deallocate
    BY <2>4, AllocateKeeps, ComponentAddKeeps, DeallocateKeeps
  <2>5. CASE Core!RenderableCreate \/ Core!RenderableAdd \/ Core!RenderableDestroy
    BY <2>5, RenderableCreateKeeps, RenderableAddKeeps, RenderableDestroyKeeps
  <2>6. CASE Core!LibraryLoad \/ Core!LibraryUnload \/ Core!Quit
    BY <2>6, LibraryLoadKeeps, LibraryUnloadKeeps, QuitKeeps
  <2>7. CASE Core!AppShutdown \/ Core!AppMetaUnregister \/ Core!AppUnload
    BY <2>7, AppShutdownKeeps, AppMetaUnregisterKeeps, AppUnloadKeeps
  <2>8. CASE Core!MetaUnregister \/ Core!EntitiesShutdown \/ Core!FreeStruct \/ Core!GfxShutdown
    BY <2>8, MetaUnregisterKeeps, EntitiesShutdownKeeps, FreeStructKeeps, GfxShutdownKeeps
  <2>9. CASE Core!Ended
    BY <2>9, HostRests DEF Core!Ended
  <2> QED  BY <2>1, <2>2, <2>3, <2>4, <2>5, <2>6, <2>7, <2>8, <2>9 DEF Core!Next
<1> QED
  BY <1>1, HostStarts, PTL DEF Core!Spec

\* While the meta data is registered, the scene holds the renderables of the
\* components and those the application kept, each with one owner, whatever
\* entities and components come and go (gs_core_graphics_scene_renderable_create
\* and _destroy, called by the dtor of the component).
THEOREM SceneMatchesWorldHolds == Core!Spec => []SceneMatchesWorld
<1>1. HostInv => SceneMatchesWorld
  BY DEF HostInv, WorldInv, SceneMatchesWorld
<1> QED
  BY <1>1, HostInvHolds, PTL

\* The console lists the commands that are registered, and a variable and its
\* command are registered and unregistered together, over every reload of the
\* application (gs_core_cvar_register, gs_core_cvar_unregister).
THEOREM ConsoleAgreesHolds == Core!Spec => []ConsoleAgrees
<1>1. HostInv => ConsoleAgrees
  BY DEF HostInv, ConsoleInv, Listed, ConsoleAgrees, Core!ConsoleAgrees
<1> QED
  BY <1>1, HostInvHolds, PTL

\* From gs_core_new to gs_core_free, over every reload of the application and
\* whatever it does in between, no vtable, callback, value, component, system or
\* handle is used that is not there, but for the actions of components flecs keeps;
\* and no host of the network is used after it was destroyed.
THEOREM NoFaultHolds == Core!Spec /\ Connection!Spec => []NoFault
<1>1. HostInv /\ Connection!DeadHostUnused => NoFault
  BY DEF HostInv, NoFault
<1> QED
  BY <1>1, HostInvHolds, ConnectionHolds, PTL
=============================================================================
