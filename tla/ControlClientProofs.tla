------------------------- MODULE ControlClientProofs -------------------------
(* Proofs about ControlClient: any number of calls and connections, callers *)
(* that give up anywhere, and a daemon that dies any number of times.       *)
EXTENDS ControlClient, SequenceTheorems, TLAPS

-----------------------------------------------------------------------------
(* The mutex                                                                *)

Queued1 == \A i, j \in DOMAIN queue : queue[i] = queue[j] => i = j
InQueue(q) == {q[i] : i \in DOMAIN q}

(* A sequence in which nothing occurs twice, without one of its elements.   *)
LEMMA RemoveProperties ==
  ASSUME NEW S, NEW q \in Seq(S), NEW p \in DOMAIN q,
         \A i, j \in DOMAIN q : q[i] = q[j] => i = j
  PROVE  /\ RemoveAt(q, p) \in Seq(S)
         /\ InQueue(RemoveAt(q, p)) = InQueue(q) \ {q[p]}
         /\ \A i, j \in DOMAIN RemoveAt(q, p) : RemoveAt(q, p)[i] = RemoveAt(q, p)[j] => i = j
         /\ p # 1 => RemoveAt(q, p) # <<>> /\ Head(RemoveAt(q, p)) = Head(q)
<1> DEFINE a == SubSeq(q, 1, p - 1)  b == SubSeq(q, p + 1, Len(q))  r == a \o b
           n == Len(q)
<1>1. n \in Nat /\ DOMAIN q = 1 .. n /\ p \in 1 .. n /\ \A i \in 1 .. n : q[i] \in S
  BY LenProperties, ElementOfSeq
<1>2. /\ a \in Seq(S) /\ Len(a) = p - 1
      /\ \A i \in 1 .. p - 1 : a[i] = q[i]
  <2>1. 1 \in Int /\ p - 1 \in Int /\ \A i \in 1 .. (p - 1) : q[i] \in S
    BY <1>1
  <2>2. /\ a \in Seq(S) /\ Len(a) = IF 1 <= p - 1 THEN p - 1 - 1 + 1 ELSE 0
        /\ \A i \in 1 .. p - 1 - 1 + 1 : a[i] = q[1 + i - 1]
    BY <2>1, SubSeqProperties
  <2>3. QED
    BY <1>1, <2>2
<1>3. /\ b \in Seq(S) /\ Len(b) = n - p
      /\ \A i \in 1 .. n - p : b[i] = q[p + i]
  <2>1. p + 1 \in Int /\ n \in Int /\ \A i \in (p + 1) .. n : q[i] \in S
    BY <1>1
  <2>2. /\ b \in Seq(S) /\ Len(b) = IF p + 1 <= n THEN n - (p + 1) + 1 ELSE 0
        /\ \A i \in 1 .. n - (p + 1) + 1 : b[i] = q[p + 1 + i - 1]
    BY <2>1, SubSeqProperties
  <2>3. QED
    BY <1>1, <2>2
<1> HIDE DEF a, b
<1>4. /\ r \in Seq(S) /\ Len(r) = n - 1
      /\ \A i \in 1 .. n - 1 : r[i] = IF i <= p - 1 THEN a[i] ELSE b[i - (p - 1)]
  <2>1. /\ r \in Seq(S) /\ Len(r) = Len(a) + Len(b)
        /\ \A i \in 1 .. Len(a) + Len(b) : r[i] = IF i <= Len(a) THEN a[i] ELSE b[i - Len(a)]
    BY <1>2, <1>3, ConcatProperties
  <2>2. Len(a) + Len(b) = n - 1
    BY <1>1, <1>2, <1>3
  <2>3. QED
    BY <1>2, <2>1, <2>2
<1> HIDE DEF r
<1>5. DOMAIN r = 1 .. n - 1 /\ \A i \in 1 .. n - 1 : r[i] = IF i < p THEN q[i] ELSE q[i + 1]
  <2>1. DOMAIN r = 1 .. n - 1
    BY <1>4, LenProperties
  <2>2. ASSUME NEW i \in 1 .. n - 1, i < p
        PROVE  r[i] = q[i]
    BY <1>1, <1>2, <1>4, <2>2
  <2>3. ASSUME NEW i \in 1 .. n - 1, ~(i < p)
        PROVE  r[i] = q[i + 1]
    <3>1. i - (p - 1) \in 1 .. n - p /\ p + (i - (p - 1)) = i + 1 /\ ~(i <= p - 1)
      BY <1>1, <2>3
    <3>2. QED
      BY <1>3, <1>4, <3>1
  <2>4. QED
    BY <2>1, <2>2, <2>3
<1>6. InQueue(r) = InQueue(q) \ {q[p]}
  <2>1. ASSUME NEW i \in 1 .. n - 1
        PROVE  \E j \in 1 .. n : j # p /\ r[i] = q[j]
    <3>1. CASE i < p
      BY <1>1, <1>5, <3>1
    <3>2. CASE ~(i < p)
      <4>1. i + 1 \in 1 .. n /\ i + 1 # p
        BY <1>1, <3>2
      <4>2. QED
        BY <1>5, <3>2, <4>1
    <3>3. QED
      BY <3>1, <3>2
  <2>2. ASSUME NEW j \in 1 .. n, j # p
        PROVE  \E i \in 1 .. n - 1 : r[i] = q[j]
    <3>1. CASE j < p
      <4>1. j \in 1 .. n - 1
        BY <1>1, <3>1
      <4>2. QED
        BY <1>5, <3>1, <4>1
    <3>2. CASE ~(j < p)
      <4>1. j - 1 \in 1 .. n - 1 /\ ~(j - 1 < p) /\ j - 1 + 1 = j
        BY <1>1, <2>2, <3>2
      <4>2. QED
        BY <1>5, <4>1
    <3>3. QED
      BY <3>1, <3>2
  <2>3. InQueue(q) = {q[j] : j \in 1 .. n} /\ InQueue(r) = {r[i] : i \in 1 .. n - 1}
    BY <1>1, <1>5 DEF InQueue
  <2>4. \A j \in 1 .. n : j # p => q[j] # q[p]
    BY <1>1
  <2>5. InQueue(r) \subseteq InQueue(q) \ {q[p]}
    BY <2>1, <2>3, <2>4
  <2>6. InQueue(q) \ {q[p]} \subseteq InQueue(r)
    BY <2>2, <2>3
  <2>7. QED
    BY <2>5, <2>6
<1>7. ASSUME NEW i \in 1 .. n - 1, NEW j \in 1 .. n - 1, r[i] = r[j]
      PROVE  i = j
  <2> DEFINE at(m) == IF m < p THEN m ELSE m + 1
  <2>1. at(i) \in 1 .. n /\ at(j) \in 1 .. n
    BY <1>1
  <2>2. r[i] = q[at(i)] /\ r[j] = q[at(j)]
    BY <1>5
  <2>3. at(i) = at(j)
    BY <1>1, <1>7, <2>1, <2>2
  <2>4. QED
    BY <1>1, <2>3
<1>8. p # 1 => r # <<>> /\ Head(r) = Head(q)
  <2> SUFFICES ASSUME p # 1 PROVE r # <<>> /\ Head(r) = Head(q)
    OBVIOUS
  <2>1. 1 \in 1 .. n - 1 /\ 1 < p
    BY <1>1
  <2>2. r[1] = q[1] /\ Len(r) # 0
    BY <1>4, <1>5, <2>1
  <2>3. q # <<>> /\ r # <<>>
    BY <1>1, <1>4, <2>1, <2>2
  <2>4. QED
    BY <1>4, <2>2, <2>3
<1>9. RemoveAt(q, p) = r
  BY DEF RemoveAt, r, a, b
<1>10. QED
  BY <1>4, <1>5, <1>6, <1>7, <1>8, <1>9


Inside == {"send", "receive", "reconnect", "resend", "receive again"}
Places == {"new", "waiting", "returned", "cancelled"} \cup Inside

(* Nobody is in the queue twice, and only its head is inside.               *)
OneInside == \A c \in Call : pc[c] \in Inside => Holds(c)
MutexInv == Queued1 /\ OneInside

LEMMA WithoutProperties ==
  ASSUME TypeOK, Queued1, NEW c \in Call, UnderWay(c)
  PROVE  /\ Without(c) \in Seq(Call)
         /\ InQueue(Without(c)) = InQueue(queue) \ {c}
         /\ \A i, j \in DOMAIN Without(c) : Without(c)[i] = Without(c)[j] => i = j
         /\ \A d \in Call : d # c /\ Holds(d) => Without(c) # <<>> /\ Head(Without(c)) = d
<1>1. queue \in Seq(Call) /\ c \in InQueue(queue)
  BY DEF TypeOK, InQueue
<1>2. PICK p \in DOMAIN queue : p = (CHOOSE i \in DOMAIN queue : queue[i] = c) /\ queue[p] = c
  BY <1>1 DEF InQueue
<1>3. Without(c) = RemoveAt(queue, p)
  BY <1>2 DEF Without
<1>4. ASSUME NEW d \in Call, d # c, Holds(d)
      PROVE  p # 1
  BY <1>1, <1>2, <1>4 DEF Holds
<1>5. QED
  BY <1>1, <1>2, <1>3, <1>4, RemoveProperties DEF Queued1, Holds

LEMMA AppendQueue ==
  ASSUME TypeOK, Queued1, NEW c \in Call, ~UnderWay(c)
  PROVE  /\ Append(queue, c) \in Seq(Call)
         /\ InQueue(Append(queue, c)) = InQueue(queue) \cup {c}
         /\ \A i, j \in DOMAIN Append(queue, c) :
              Append(queue, c)[i] = Append(queue, c)[j] => i = j
         /\ \A d \in Call : Holds(d) => Append(queue, c) # <<>> /\ Head(Append(queue, c)) = d
<1> DEFINE q == queue  r == Append(queue, c)  n == Len(queue)
<1>1. q \in Seq(Call) /\ n \in Nat /\ DOMAIN q = 1 .. n
  BY LenProperties DEF TypeOK
<1>2. /\ r \in Seq(Call) /\ Len(r) = n + 1 /\ r[n + 1] = c
      /\ \A i \in 1 .. n : r[i] = q[i]
  BY <1>1
<1>3. DOMAIN r = 1 .. n + 1
  BY <1>2, LenProperties
<1>4. \A i \in 1 .. n : q[i] # c
  BY <1>1 DEF TypeOK
<1>5. \A i \in 1 .. n + 1 : i \in 1 .. n \/ i = n + 1
  BY <1>1
<1> HIDE DEF r
<1>6. \A i, j \in DOMAIN r : r[i] = r[j] => i = j
  BY <1>1, <1>2, <1>3, <1>4, <1>5 DEF Queued1
<1>7. InQueue(r) = InQueue(q) \cup {c}
  <2>1. n + 1 \in 1 .. n + 1 /\ \A i \in 1 .. n : i \in 1 .. n + 1
    BY <1>1
  <2>2. QED
    BY <1>1, <1>2, <1>3, <1>5, <2>1 DEF InQueue
<1>8. ASSUME NEW d \in Call, Holds(d)
      PROVE  r # <<>> /\ Head(r) = d
  <2>1. 1 \in 1 .. n /\ q[1] = d
    BY <1>1, <1>8 DEF Holds
  <2>2. r[1] = d /\ Len(r) # 0
    BY <1>1, <1>2, <2>1
  <2>3. QED
    BY <1>2, <2>2
<1>9. QED
  BY <1>2, <1>6, <1>7, <1>8 DEF r

-----------------------------------------------------------------------------
(* Types                                                                    *)

(* Connections are told apart, and those in use are open at the client.     *)
KeptWhen == \A c \in Call : pc[c] \in {"send", "receive"} => kept # None
NoneKeptWhen == \A c \in Call : pc[c] \in {"reconnect", "resend", "receive again"} => kept = None
RetryWhen ==
  /\ \A c \in Call : pc[c] \in {"resend", "receive again"} => retry # None
  /\ retry # None => \E c \in Call : pc[c] \in {"resend", "receive again"}
InUseOpen ==
  /\ kept # None => conn[kept].open
  /\ retry # None => conn[retry].open
DeadIsEmpty ==
  \A k \in Conn : ~conn[k].alive => conn[k].requests = <<>> /\ conn[k].serving = None

UseInv == KeptWhen /\ NoneKeptWhen /\ RetryWhen /\ InUseOpen /\ DeadIsEmpty

LEMMA FreeIsConnection == Free \in Connection
<1>1. <<>> \in Seq(Request) /\ <<>> \in Seq(Answer)
  OBVIOUS
<1>2. QED
  BY <1>1 DEF Free, Connection

LEMMA InitBase == Init => TypeOK /\ MutexInv /\ UseInv
<1> SUFFICES ASSUME Init PROVE TypeOK /\ MutexInv /\ UseInv
  OBVIOUS
<1>1. <<>> \in Seq(0 .. MaxCrash) /\ <<>> \in Seq(Call) /\ DOMAIN <<>> = {}
  OBVIOUS
<1>2. TypeOK
  BY <1>1, FreeIsConnection, CrashAssumption DEF Init, TypeOK, UnderWay
<1>3. MutexInv
  BY <1>1 DEF Init, MutexInv, Queued1, OneInside, Inside
<1>4. UseInv
  BY DEF Init, UseInv, KeptWhen, NoneKeptWhen, RetryWhen, InUseOpen, DeadIsEmpty, Free
<1>5. QED
  BY <1>2, <1>3, <1>4

(* What the client does to a connection.                                    *)
LEMMA OpenedProperties ==
  ASSUME TypeOK, NEW k \in Conn
  PROVE  /\ Opened(k) \in [Conn -> Connection]
         /\ Opened(k)[k].alive /\ Opened(k)[k].open /\ ~Opened(k)[k].half
         /\ Opened(k)[k].requests = <<>> /\ Opened(k)[k].serving = None
         /\ Opened(k)[k].answers = <<>>
         /\ \A l \in Conn : l # k => Opened(k)[l] = conn[l]
<1> DEFINE x == [Free EXCEPT !.alive = TRUE, !.open = TRUE]
<1>1. Opened(k) = [conn EXCEPT ![k] = x]
  BY DEF Opened
<1>2. /\ x \in Connection
      /\ x.alive /\ x.open /\ ~x.half /\ x.requests = <<>> /\ x.serving = None /\ x.answers = <<>>
  <2>1. /\ Free \in Connection /\ Free.half = FALSE /\ Free.requests = <<>>
        /\ Free.serving = None /\ Free.answers = <<>>
    BY FreeIsConnection DEF Free
  <2>2. QED
    BY <2>1 DEF Connection
<1> HIDE DEF x
<1>3. QED
  BY <1>1, <1>2 DEF TypeOK

LEMMA WrittenProperties ==
  ASSUME TypeOK, NEW k \in Conn, NEW c \in Call
  PROVE  /\ Written(k, c) \in [Conn -> Connection]
         /\ Written(k, c)[k].requests =
              Append(conn[k].requests, IF conn[k].half THEN Malformed ELSE c)
         /\ Written(k, c)[k].alive = conn[k].alive /\ Written(k, c)[k].open = conn[k].open
         /\ ~Written(k, c)[k].half /\ Written(k, c)[k].serving = conn[k].serving
         /\ Written(k, c)[k].answers = conn[k].answers
         /\ \A l \in Conn : l # k => Written(k, c)[l] = conn[l]
<1> DEFINE line == IF conn[k].half THEN Malformed ELSE c
           x == [conn[k] EXCEPT !.requests = Append(@, line), !.half = FALSE]
<1>1. Written(k, c) = [conn EXCEPT ![k] = x]
  BY DEF Written, TypeOK
<1>2. conn[k] \in Connection /\ line \in Request
  BY DEF TypeOK, Request
<1>3. Append(conn[k].requests, line) \in Seq(Request)
  BY <1>2 DEF Connection
<1>4. /\ x \in Connection
      /\ x.requests = Append(conn[k].requests, line) /\ ~x.half
      /\ x.alive = conn[k].alive /\ x.open = conn[k].open /\ x.serving = conn[k].serving
      /\ x.answers = conn[k].answers
  BY <1>2, <1>3 DEF Connection
<1> HIDE DEF x
<1>5. QED
  BY <1>1, <1>4 DEF TypeOK

LEMMA ReadProperties ==
  ASSUME TypeOK, NEW k \in Conn, conn[k].answers # <<>>,
         conn' = [conn EXCEPT ![k].answers = Rest(@)]
  PROVE  /\ Head(conn[k].answers) \in Answer
         /\ conn' \in [Conn -> Connection]
         /\ conn'[k].answers = Tail(conn[k].answers)
         /\ conn'[k].alive = conn[k].alive /\ conn'[k].open = conn[k].open
         /\ conn'[k].half = conn[k].half /\ conn'[k].serving = conn[k].serving
         /\ conn'[k].requests = conn[k].requests
         /\ \A l \in Conn : l # k => conn'[l] = conn[l]
<1> DEFINE x == [conn[k] EXCEPT !.answers = Tail(@)]
<1>1. conn' = [conn EXCEPT ![k] = x]
  BY DEF Rest, TypeOK
<1>2. conn[k] \in Connection /\ conn[k].answers \in Seq(Answer)
  BY DEF TypeOK, Connection
<1>3. Head(conn[k].answers) \in Answer /\ Tail(conn[k].answers) \in Seq(Answer)
  BY <1>2, HeadTailProperties
<1>4. /\ x \in Connection /\ x.answers = Tail(conn[k].answers) /\ x.half = conn[k].half
      /\ x.alive = conn[k].alive /\ x.open = conn[k].open /\ x.serving = conn[k].serving
      /\ x.requests = conn[k].requests
  BY <1>2, <1>3 DEF Connection
<1> HIDE DEF x
<1>5. QED
  BY <1>1, <1>3, <1>4 DEF TypeOK

LEMMA DroppedProperties ==
  ASSUME TypeOK, NEW k \in Conn
  PROVE  /\ Dropped(k) \in [Conn -> Connection]
         /\ ~Dropped(k)[k].open /\ Dropped(k)[k].answers = <<>>
         /\ conn[k].alive =>
              /\ Dropped(k)[k].alive /\ Dropped(k)[k].half = conn[k].half
              /\ Dropped(k)[k].requests = conn[k].requests
              /\ Dropped(k)[k].serving = conn[k].serving
         /\ ~conn[k].alive => Dropped(k)[k] = Free
         /\ \A l \in Conn : l # k => Dropped(k)[l] = conn[l]
<1> DEFINE x == [conn[k] EXCEPT !.open = FALSE, !.answers = <<>>]
<1>1. conn[k] \in Connection /\ <<>> \in Seq(Answer)
  <2>1. <<>> \in Seq(Answer)
    OBVIOUS
  <2>2. QED
    BY <2>1 DEF TypeOK
<1>2. /\ x \in Connection /\ ~x.open /\ x.answers = <<>>
      /\ x.alive = conn[k].alive /\ x.half = conn[k].half
      /\ x.requests = conn[k].requests /\ x.serving = conn[k].serving
  BY <1>1 DEF Connection
<1>3. Dropped(k) = IF conn[k].alive THEN [conn EXCEPT ![k] = x] ELSE [conn EXCEPT ![k] = Free]
  BY DEF Dropped, TypeOK
<1>4. ~Free.open /\ Free.answers = <<>>
  BY DEF Free
<1> HIDE DEF x
<1>5. QED
  BY <1>2, <1>3, <1>4, FreeIsConnection DEF TypeOK

LEMMA TornProperties ==
  ASSUME NEW lines \in Seq(Answer), NEW n \in 1 .. Len(lines)
  PROVE  /\ Torn(lines, n) \in Seq(Answer)
         /\ Len(Torn(lines, n)) = Len(lines)
         /\ Torn(lines, n)[n].says = "torn"
         /\ \A i \in 1 .. Len(lines) : Torn(lines, n)[i].to = lines[i].to
         /\ \A i \in 1 .. Len(lines) : i # n => Torn(lines, n)[i] = lines[i]
<1>1. /\ Len(lines) \in Nat /\ DOMAIN lines = 1 .. Len(lines)
      /\ \A i \in 1 .. Len(lines) : lines[i] \in Answer
  BY LenProperties, ElementOfSeq
<1> DEFINE a == [lines[n] EXCEPT !.says = "torn"]
           r == [lines EXCEPT ![n] = a]
<1>2. a \in Answer /\ a.to = lines[n].to /\ a.says = "torn"
  BY <1>1 DEF Answer
<1>3. Torn(lines, n) = r
  BY DEF Torn
<1> HIDE DEF a
<1>4. r \in Seq(Answer) /\ Len(r) = Len(lines) /\ \A i \in 1 .. Len(lines) : r[i] = IF i = n THEN a ELSE lines[i]
  BY <1>1, <1>2, ExceptSeq
<1> HIDE DEF r
<1>5. QED
  BY <1>2, <1>3, <1>4

(* Half an answer has been read.                                            *)
LEMMA HalfReadProperties ==
  ASSUME TypeOK, NEW k \in Conn, conn[k].answers # <<>>,
         conn' = [conn EXCEPT ![k].answers = Torn(@, 1)]
  PROVE  /\ conn' \in [Conn -> Connection]
         /\ conn'[k].alive = conn[k].alive /\ conn'[k].open = conn[k].open
         /\ conn'[k].half = conn[k].half
         /\ conn'[k].requests = conn[k].requests /\ conn'[k].serving = conn[k].serving
         /\ \A l \in Conn : l # k => conn'[l] = conn[l]
<1>1. conn[k] \in Connection /\ conn[k].answers \in Seq(Answer)
  BY DEF TypeOK, Connection
<1>2. 1 \in 1 .. Len(conn[k].answers)
  <2>1. PICK q \in Seq(Answer) : q = conn[k].answers
    BY <1>1
  <2>2. Len(q) \in Nat /\ Len(q) # 0
    BY <2>1, LenProperties, EmptySeq
  <2>3. QED
    BY <2>1, <2>2
<1>3. Torn(conn[k].answers, 1) \in Seq(Answer)
  BY <1>1, <1>2, TornProperties
<1> DEFINE x == [conn[k] EXCEPT !.answers = Torn(@, 1)]
<1>4. /\ x \in Connection /\ x.alive = conn[k].alive /\ x.open = conn[k].open
      /\ x.half = conn[k].half /\ x.requests = conn[k].requests /\ x.serving = conn[k].serving
  BY <1>1, <1>3 DEF Connection
<1>5. conn' = [conn EXCEPT ![k] = x]
  BY DEF TypeOK
<1> HIDE DEF x
<1>6. QED
  BY <1>4, <1>5 DEF TypeOK

LEMMA HalfProperties ==
  ASSUME TypeOK, NEW k \in Conn, conn' = [conn EXCEPT ![k].half = TRUE]
  PROVE  /\ conn' \in [Conn -> Connection]
         /\ conn'[k].alive = conn[k].alive /\ conn'[k].open = conn[k].open
         /\ conn'[k].requests = conn[k].requests /\ conn'[k].serving = conn[k].serving
         /\ conn'[k].answers = conn[k].answers
         /\ \A l \in Conn : l # k => conn'[l] = conn[l]
<1> DEFINE x == [conn[k] EXCEPT !.half = TRUE]
<1>1. conn' = [conn EXCEPT ![k] = x] /\ conn[k] \in Connection
  BY DEF TypeOK
<1>2. /\ x \in Connection /\ x.alive = conn[k].alive /\ x.open = conn[k].open
      /\ x.requests = conn[k].requests /\ x.serving = conn[k].serving
      /\ x.answers = conn[k].answers
  BY <1>1 DEF Connection
<1> HIDE DEF x
<1>3. QED
  BY <1>1, <1>2 DEF TypeOK

(* What the daemon does to a connection.                                    *)
LEMMA ServeProperties ==
  ASSUME TypeOK, NEW k \in Conn, Serve(k)
  PROVE  /\ Head(conn[k].requests) \in Call
         /\ executed' = [executed EXCEPT ![Head(conn[k].requests)] = Append(@, run)]
         /\ conn' \in [Conn -> Connection]
         /\ conn'[k].requests = Tail(conn[k].requests)
         /\ conn'[k].serving = Head(conn[k].requests)
         /\ conn'[k].alive = conn[k].alive /\ conn'[k].open = conn[k].open
         /\ conn'[k].half = conn[k].half /\ conn'[k].answers = conn[k].answers
         /\ \A l \in Conn : l # k => conn'[l] = conn[l]
<1> DEFINE c == Head(conn[k].requests)
           x == [conn[k] EXCEPT !.requests = Tail(@), !.serving = c]
<1>1. conn[k] \in Connection /\ conn[k].requests \in Seq(Request) /\ conn[k].requests # <<>>
  BY DEF Serve, TypeOK, Connection
<1>2. c \in Call /\ Tail(conn[k].requests) \in Seq(Request)
  BY <1>1, HeadTailProperties DEF Serve, Request
<1>3. conn' = [conn EXCEPT ![k] = x]
  BY DEF Serve, TypeOK
<1>4. /\ x \in Connection
      /\ x.requests = Tail(conn[k].requests) /\ x.serving = c
      /\ x.alive = conn[k].alive /\ x.open = conn[k].open
      /\ x.half = conn[k].half /\ x.answers = conn[k].answers
  BY <1>1, <1>2 DEF Connection
<1> HIDE DEF x
<1>5. QED
  BY <1>2, <1>3, <1>4 DEF TypeOK, Serve

LEMMA QueuedProperties ==
  ASSUME TypeOK, NEW k \in Conn, NEW a \in Answer
  PROVE  /\ Queued(k, a) \in Seq(Answer)
         /\ conn[k].answers = <<>> =>
              \A i \in DOMAIN Queued(k, a) : Queued(k, a)[i] = a
         /\ conn[k].answers = <<>> => Len(Queued(k, a)) <= 1
<1>1. conn[k].answers \in Seq(Answer)
  BY DEF TypeOK, Connection
<1>2. CASE conn[k].open
  <2>1. Queued(k, a) = Append(conn[k].answers, a)
    BY <1>2 DEF Queued
  <2>2. conn[k].answers = <<>> => Append(conn[k].answers, a) = <<a>>
    OBVIOUS
  <2>3. QED
    BY <1>1, <2>1, <2>2
<1>3. CASE ~conn[k].open
  <2>1. Queued(k, a) = <<>>
    BY <1>3 DEF Queued
  <2>2. QED
    BY <2>1
<1>4. QED
  BY <1>2, <1>3

LEMMA RespondProperties ==
  ASSUME TypeOK, NEW k \in Conn, Respond(k)
  PROVE  /\ conn[k].serving \in Call
         /\ [to |-> conn[k].serving, says |-> "ok"] \in Answer
         /\ conn' \in [Conn -> Connection]
         /\ conn'[k].serving = None
         /\ conn'[k].answers = Queued(k, [to |-> conn[k].serving, says |-> "ok"])
         /\ conn'[k].alive = conn[k].alive /\ conn'[k].open = conn[k].open
         /\ conn'[k].half = conn[k].half /\ conn'[k].requests = conn[k].requests
         /\ \A l \in Conn : l # k => conn'[l] = conn[l]
<1> DEFINE a == [to |-> conn[k].serving, says |-> "ok"]
           x == [conn[k] EXCEPT !.serving = None, !.answers = Queued(k, a)]
<1>1. conn[k] \in Connection /\ conn[k].serving \in Call
  BY DEF Respond, TypeOK, Connection
<1>2. a \in Answer
  BY <1>1 DEF Answer, Request
<1>3. Queued(k, a) \in Seq(Answer)
  BY <1>2, QueuedProperties
<1>4. conn' = [conn EXCEPT ![k] = x]
  BY DEF Respond, TypeOK
<1>5. /\ x \in Connection
      /\ x.serving = None /\ x.answers = Queued(k, a)
      /\ x.alive = conn[k].alive /\ x.open = conn[k].open
      /\ x.half = conn[k].half /\ x.requests = conn[k].requests
  <2> HIDE DEF a
  <2>1. QED
    BY <1>1, <1>3 DEF Connection
<1> HIDE DEF x
<1>6. QED
  BY <1>1, <1>2, <1>4, <1>5 DEF TypeOK

LEMMA RefuseProperties ==
  ASSUME TypeOK, NEW k \in Conn, Refuse(k)
  PROVE  /\ Head(conn[k].requests) \in Request
         /\ [to |-> Head(conn[k].requests), says |-> "refused"] \in Answer
         /\ conn' \in [Conn -> Connection]
         /\ conn'[k].requests = Tail(conn[k].requests)
         /\ conn'[k].answers = Queued(k, [to |-> Head(conn[k].requests), says |-> "refused"])
         /\ conn'[k].alive = conn[k].alive /\ conn'[k].open = conn[k].open
         /\ conn'[k].half = conn[k].half /\ conn'[k].serving = conn[k].serving
         /\ \A l \in Conn : l # k => conn'[l] = conn[l]
<1> DEFINE a == [to |-> Head(conn[k].requests), says |-> "refused"]
           x == [conn[k] EXCEPT !.requests = Tail(@), !.answers = Queued(k, a)]
<1>1. conn[k] \in Connection /\ conn[k].requests \in Seq(Request) /\ conn[k].requests # <<>>
  BY DEF Refuse, TypeOK, Connection
<1>2. Head(conn[k].requests) \in Request /\ Tail(conn[k].requests) \in Seq(Request)
  BY <1>1, HeadTailProperties
<1>3. a \in Answer
  BY <1>2 DEF Answer
<1>4. Queued(k, a) \in Seq(Answer)
  BY <1>3, QueuedProperties
<1>5. conn' = [conn EXCEPT ![k] = x]
  BY DEF Refuse, Complaint, TypeOK
<1>6. /\ x \in Connection
      /\ x.requests = Tail(conn[k].requests) /\ x.answers = Queued(k, a)
      /\ x.alive = conn[k].alive /\ x.open = conn[k].open
      /\ x.half = conn[k].half /\ x.serving = conn[k].serving
  <2> HIDE DEF a
  <2>1. QED
    BY <1>1, <1>2, <1>4 DEF Connection
<1> HIDE DEF x
<1>7. QED
  BY <1>2, <1>3, <1>5, <1>6 DEF TypeOK

(* What is left of some lines are the first of them, or the first ones but  *)
(* for the end of the last.                                                 *)
LEMMA RemainsProperties ==
  ASSUME NEW lines \in Seq(Answer), NEW left \in Remains(lines)
  PROVE  /\ left \in Seq(Answer)
         /\ Len(left) <= Len(lines)
         /\ \A i \in 1 .. Len(left) : left[i].to = lines[i].to
<1>1. /\ Len(lines) \in Nat /\ DOMAIN lines = 1 .. Len(lines)
      /\ \A i \in 1 .. Len(lines) : lines[i] \in Answer
  BY LenProperties, ElementOfSeq
<1>2. ASSUME NEW n \in 0 .. Len(lines)
      PROVE  /\ SubSeq(lines, 1, n) \in Seq(Answer) /\ Len(SubSeq(lines, 1, n)) = n
             /\ \A i \in 1 .. n : SubSeq(lines, 1, n)[i] = lines[i]
  BY <1>1
<1>3. CASE \E n \in 0 .. Len(lines) : left = SubSeq(lines, 1, n)
  <2>1. PICK n \in 0 .. Len(lines) : left = SubSeq(lines, 1, n)
    BY <1>3
  <2>2. n <= Len(lines) /\ \A i \in 1 .. n : left[i] = lines[i]
    BY <1>1, <1>2, <2>1
  <2>3. QED
    BY <1>2, <2>1, <2>2
<1>4. CASE \E n \in 1 .. Len(lines) : left = Torn(SubSeq(lines, 1, n), n)
  <2>1. PICK n \in 1 .. Len(lines) : left = Torn(SubSeq(lines, 1, n), n)
    BY <1>4
  <2> DEFINE q == SubSeq(lines, 1, n)
  <2>2. n \in 0 .. Len(lines) /\ n <= Len(lines) /\ n \in 1 .. n
    BY <1>1
  <2>3. q \in Seq(Answer) /\ Len(q) = n /\ \A i \in 1 .. n : q[i] = lines[i]
    BY <1>2, <2>2
  <2>4. left = Torn(q, n)
    BY <2>1
  <2> HIDE DEF q
  <2>5. left \in Seq(Answer) /\ Len(left) = n /\ \A i \in 1 .. n : left[i].to = q[i].to
    BY <2>2, <2>3, <2>4, TornProperties
  <2>6. QED
    BY <2>2, <2>3, <2>5
<1>5. QED
  BY <1>3, <1>4 DEF Remains

LEMMA ClosedProperties ==
  ASSUME TypeOK, NEW k \in Conn
  PROVE  /\ Closed(k) \in Connection
         /\ Closed(k).alive = FALSE /\ Closed(k).half = FALSE
         /\ Closed(k).requests = <<>> /\ Closed(k).serving = None
         /\ Closed(k).open = conn[k].open
         /\ Closed(k).answers = IF conn[k].open THEN conn[k].answers ELSE <<>>
<1> DEFINE x == Closed(k)
<1>1. conn[k].answers \in Seq(Answer) /\ conn[k].open \in BOOLEAN
  BY DEF TypeOK, Connection
<1>2. <<>> \in Seq(Request) /\ <<>> \in Seq(Answer)
  OBVIOUS
<1>3. CASE conn[k].open
  <2>1. x = [alive |-> FALSE, open |-> TRUE, half |-> FALSE, requests |-> <<>>,
             serving |-> None, answers |-> conn[k].answers]
    BY <1>3 DEF Closed, Free
  <2> HIDE DEF x
  <2>2. /\ x.alive = FALSE /\ x.half = FALSE /\ x.open = TRUE
        /\ x.requests = <<>> /\ x.serving = None /\ x.answers = conn[k].answers
    BY <2>1
  <2>3. x \in Connection
    BY <1>1, <1>2, <2>1 DEF Connection
  <2>4. QED
    BY <1>1, <1>3, <2>2, <2>3 DEF x
<1>4. CASE ~conn[k].open
  <2>1. x = [alive |-> FALSE, open |-> FALSE, half |-> FALSE, requests |-> <<>>,
             serving |-> None, answers |-> <<>>]
    BY <1>4 DEF Closed, Free
  <2> HIDE DEF x
  <2>2. /\ x.alive = FALSE /\ x.half = FALSE /\ x.open = FALSE
        /\ x.requests = <<>> /\ x.serving = None /\ x.answers = <<>>
    BY <2>1
  <2>3. x \in Connection
    BY <1>2, <2>1 DEF Connection
  <2>4. QED
    BY <1>1, <1>4, <2>2, <2>3 DEF x
<1>5. QED
  BY <1>3, <1>4

LEMMA NotTextProperties ==
  ASSUME TypeOK, NEW k \in Conn, NotText(k)
  PROVE  /\ Malformed = Head(conn[k].requests) /\ conn[k].requests # <<>>
         /\ conn' \in [Conn -> Connection]
         /\ ~conn'[k].alive /\ ~conn'[k].half
         /\ conn'[k].requests = <<>> /\ conn'[k].serving = None
         /\ conn'[k].open = conn[k].open
         /\ conn'[k].answers = IF conn[k].open THEN conn[k].answers ELSE <<>>
         /\ \A l \in Conn : l # k => conn'[l] = conn[l]
<1>1. conn' = [conn EXCEPT ![k] = Closed(k)] /\ conn \in [Conn -> Connection]
  BY DEF NotText, TypeOK
<1>2. Closed(k) \in Connection
  BY ClosedProperties
<1>3. conn' \in [Conn -> Connection] /\ conn'[k] = Closed(k)
      /\ \A l \in Conn : l # k => conn'[l] = conn[l]
  BY <1>1, <1>2
<1>4. QED
  BY <1>3, ClosedProperties DEF NotText

LEMMA CrashProperties ==
  ASSUME TypeOK, DeadIsEmpty, Crash
  PROVE  /\ conn' \in [Conn -> Connection]
         /\ \A k \in Conn :
              /\ ~conn'[k].alive
              /\ conn'[k].half => conn[k].half
              /\ conn'[k].requests = <<>> /\ conn'[k].serving = None
              /\ conn'[k].open = conn[k].open
              /\ \/ conn'[k].answers = conn[k].answers
                 \/ conn'[k].answers \in Remains(conn[k].answers) \/ conn'[k].answers = <<>>
<1>1. PICK orphans \in [Conn -> UNION {Orphans(k) : k \in Conn}] :
        (\A k \in Conn : orphans[k] \in Orphans(k)) /\ conn' = orphans
  BY DEF Crash
<1>2. DOMAIN conn' = Conn /\ conn' = [k \in Conn |-> conn'[k]]
  BY <1>1
<1>3. ASSUME NEW k \in Conn
      PROVE  /\ conn'[k] \in Connection /\ ~conn'[k].alive
             /\ conn'[k].half => conn[k].half
             /\ conn'[k].requests = <<>> /\ conn'[k].serving = None
             /\ conn'[k].open = conn[k].open
             /\ \/ conn'[k].answers = conn[k].answers
                \/ conn'[k].answers \in Remains(conn[k].answers) \/ conn'[k].answers = <<>>
  <2>1. conn'[k] \in Orphans(k) /\ conn[k] \in Connection
    BY <1>1 DEF TypeOK
  <2>2. CASE ~conn[k].alive
    BY <2>1, <2>2 DEF Orphans, DeadIsEmpty
  <2>3. CASE conn[k].alive
    <3>1. PICK left \in Remains(Closed(k).answers) : conn'[k] = [Closed(k) EXCEPT !.answers = left]
      BY <2>1, <2>3 DEF Orphans
    <3> DEFINE x == Closed(k)
    <3>2. /\ x \in Connection /\ x.alive = FALSE /\ x.half = FALSE
          /\ x.requests = <<>> /\ x.serving = None /\ x.open = conn[k].open
          /\ x.answers = IF conn[k].open THEN conn[k].answers ELSE <<>>
      BY ClosedProperties
    <3>3. left \in Remains(x.answers) /\ conn'[k] = [x EXCEPT !.answers = left]
      BY <3>1
    <3> HIDE DEF x
    <3>4. x.answers \in Seq(Answer)
      BY <3>2 DEF Connection
    <3>5. left \in Seq(Answer) /\ Len(left) <= Len(x.answers)
      BY <3>3, <3>4, RemainsProperties
    <3>6. /\ conn'[k] \in Connection /\ conn'[k].alive = FALSE /\ conn'[k].half = FALSE
          /\ conn'[k].requests = <<>> /\ conn'[k].serving = None /\ conn'[k].open = conn[k].open
          /\ conn'[k].answers = left
      BY <3>2, <3>3, <3>5 DEF Connection
    <3>7. CASE conn[k].open
      BY <3>2, <3>3, <3>6, <3>7
    <3>8. CASE ~conn[k].open
      <4>1. Len(x.answers) = 0 /\ Len(left) \in Nat
        BY <3>2, <3>5, <3>8, LenProperties
      <4>2. left = <<>>
        BY <3>5, <4>1, EmptySeq
      <4>3. QED
        BY <3>6, <4>2
    <3>9. QED
      BY <3>7, <3>8
  <2>4. QED
    BY <2>2, <2>3
<1>4. QED
  BY <1>2, <1>3

-----------------------------------------------------------------------------
(* Types, the mutex and the connections in use, step by step                *)

QueueOK ==
  /\ pc \in [Call -> Places] /\ queue \in Seq(Call)
  /\ InQueue(queue) = {c \in Call : UnderWay(c)}
  /\ MutexInv

LEMMA TypedQueue == TypeOK /\ MutexInv => QueueOK
BY DEF TypeOK, QueueOK, Places, Inside, InQueue

LEMMA QueueTyped ==
  ASSUME QueueOK', up' \in BOOLEAN, run' \in 0 .. MaxCrash,
         executed' \in [Call -> Seq(0 .. MaxCrash)],
         outcome' \in [Call -> Answer \cup {Failed, None}], outage' \in [Call -> BOOLEAN],
         kept' \in Conn \cup {None}, retry' \in Conn \cup {None}, conn' \in [Conn -> Connection]
  PROVE  TypeOK' /\ MutexInv'
BY DEF TypeOK, QueueOK, Places, Inside, InQueue

LEMMA Stays ==
  ASSUME TypeOK, MutexInv, NEW c \in Call, UnderWay(c),
         NEW where \in {"waiting"} \cup Inside, where \in Inside => Holds(c),
         pc' = [pc EXCEPT ![c] = where], queue' = queue
  PROVE  QueueOK'
<1>1. /\ pc' \in [Call -> Places]
      /\ \A d \in Call : pc'[d] = IF d = c THEN where ELSE pc[d]
  BY TypedQueue DEF QueueOK, Places
<1>2. \A d \in Call : UnderWay(d)' <=> UnderWay(d)
  BY <1>1 DEF UnderWay, Inside
<1>3. OneInside'
  BY <1>1 DEF MutexInv, OneInside, Holds
<1>4. QED
  BY <1>1, <1>2, <1>3, TypedQueue DEF QueueOK, MutexInv, Queued1

LEMMA Leaves ==
  ASSUME TypeOK, MutexInv, NEW c \in Call, UnderWay(c), NEW where \in {"returned", "cancelled"},
         pc' = [pc EXCEPT ![c] = where], queue' = Without(c)
  PROVE  QueueOK'
<1>1. /\ pc' \in [Call -> Places]
      /\ \A d \in Call : pc'[d] = IF d = c THEN where ELSE pc[d]
  BY TypedQueue DEF QueueOK, Places
<1>2. \A d \in Call : UnderWay(d)' <=> (UnderWay(d) /\ d # c)
  BY <1>1 DEF UnderWay
<1>3. /\ queue' \in Seq(Call) /\ InQueue(queue') = InQueue(queue) \ {c}
      /\ Queued1'
      /\ \A d \in Call : d # c /\ Holds(d) => Holds(d)'
  BY WithoutProperties DEF MutexInv, Queued1, Holds
<1>4. OneInside'
  BY <1>1, <1>3 DEF MutexInv, OneInside, Inside
<1>5. QED
  BY <1>1, <1>2, <1>3, <1>4, TypedQueue DEF QueueOK, MutexInv

LEMMA Joins ==
  ASSUME TypeOK, MutexInv, NEW c \in Call, pc[c] = "new",
         pc' = [pc EXCEPT ![c] = "waiting"], queue' = Append(queue, c)
  PROVE  QueueOK'
<1>1. /\ pc' \in [Call -> Places]
      /\ \A d \in Call : pc'[d] = IF d = c THEN "waiting" ELSE pc[d]
  BY TypedQueue DEF QueueOK, Places
<1>2. \A d \in Call : UnderWay(d)' <=> (UnderWay(d) \/ d = c)
  BY <1>1 DEF UnderWay
<1>3. /\ queue' \in Seq(Call) /\ InQueue(queue') = InQueue(queue) \cup {c}
      /\ Queued1'
      /\ \A d \in Call : Holds(d) => Holds(d)'
  BY AppendQueue DEF MutexInv, Queued1, Holds, UnderWay
<1>4. OneInside'
  BY <1>1, <1>3 DEF MutexInv, OneInside, Inside
<1>5. QED
  BY <1>1, <1>2, <1>3, <1>4, TypedQueue DEF QueueOK, MutexInv

LEMMA Rests ==
  ASSUME TypeOK, MutexInv, UNCHANGED <<pc, queue>>
  PROVE  QueueOK'
BY TypedQueue DEF QueueOK, UnderWay, MutexInv, Queued1, OneInside, Holds

(* Who has the mutex is alone inside.                                       *)
LEMMA Alone ==
  ASSUME MutexInv, NEW c \in Call, Holds(c), NEW d \in Call, d # c
  PROVE  pc[d] \notin Inside
BY DEF MutexInv, OneInside, Holds

BaseInv == TypeOK /\ MutexInv /\ UseInv

LEMMA IssueBase ==
  ASSUME BaseInv, NEW c \in Call, Issue(c)
  PROVE  BaseInv'
<1> USE DEF BaseInv
<1>1. QueueOK'
  BY Joins DEF Issue, Go
<1>2. TypeOK' /\ MutexInv'
  <2>1. /\ UNCHANGED <<up, run, executed, outcome, kept, retry, conn>>
        /\ outage' \in [Call -> BOOLEAN]
    BY DEF Issue, daemonVars, TypeOK
  <2>2. QED
    BY <1>1, <2>1, QueueTyped DEF TypeOK
<1>3. UseInv'
  <2>1. UNCHANGED <<kept, retry, conn>> /\ pc[c] = "new"
    BY DEF Issue
  <2>2. \A d \in Call : pc'[d] = IF d = c THEN "waiting" ELSE pc[d]
    BY DEF Issue, Go, TypeOK
  <2>3. QED
    BY <2>1, <2>2 DEF UseInv, KeptWhen, NoneKeptWhen, RetryWhen, InUseOpen, DeadIsEmpty
<1>4. QED
  BY <1>2, <1>3

(* The steps of the holder of the mutex, by what happens to it and to its   *)
(* connection.                                                              *)
LEMMA HolderTyped ==
  ASSUME BaseInv, QueueOK', NEW c \in Call,
         UNCHANGED <<up, run, executed, outage>>,
         NEW result \in Answer \cup {Failed, None},
         outcome' = [outcome EXCEPT ![c] = result] \/ UNCHANGED outcome,
         kept' \in Conn \cup {None}, retry' \in Conn \cup {None}, conn' \in [Conn -> Connection]
  PROVE  TypeOK' /\ MutexInv'
<1>1. outcome' \in [Call -> Answer \cup {Failed, None}]
  BY DEF BaseInv, TypeOK
<1>2. QED
  BY <1>1, QueueTyped DEF BaseInv, TypeOK

LEMMA AcquireBase ==
  ASSUME BaseInv, NEW c \in Call, Acquire(c)
  PROVE  BaseInv'
<1> USE DEF BaseInv
<1>1. /\ pc[c] = "waiting" /\ Holds(c) /\ UnderWay(c)
      /\ UNCHANGED <<up, run, executed, outage, retry>>
  BY DEF Acquire, daemonVars, UnderWay
<1>2. \A d \in Call : pc[d] \notin Inside
  BY <1>1, Alone DEF Inside
<1>3. retry = None
  BY <1>2 DEF UseInv, RetryWhen, Inside
<1>4. CASE kept # None /\ Go(c, "send") /\ UNCHANGED <<outcome, queue, kept, conn>>
  <2>1. QueueOK'
    BY <1>1, <1>4, Stays DEF Go, Inside
  <2>2. TypeOK' /\ MutexInv'
    BY <1>1, <1>4, <2>1, HolderTyped DEF TypeOK
  <2>3. \A d \in Call : pc'[d] = IF d = c THEN "send" ELSE pc[d]
    BY <1>4 DEF Go, TypeOK
  <2>4. UseInv'
    BY <1>1, <1>2, <1>3, <1>4, <2>3
       DEF UseInv, KeptWhen, NoneKeptWhen, RetryWhen, InUseOpen, DeadIsEmpty, Inside
  <2>5. QED
    BY <2>2, <2>4
<1>5. CASE /\ Unused # {} /\ kept' = (CHOOSE k \in Unused : TRUE)
           /\ conn' = Opened(kept') /\ Go(c, "send") /\ UNCHANGED <<outcome, queue>>
  <2>1. PICK k \in Conn : k = kept' /\ conn[k] = Free
    BY <1>5 DEF Unused
  <2>2. conn' = Opened(k)
    BY <1>5, <2>1
  <2>3. /\ conn' \in [Conn -> Connection] /\ conn'[k].alive /\ conn'[k].open
        /\ \A l \in Conn : l # k => conn'[l] = conn[l]
    BY <2>2, OpenedProperties
  <2>4. QueueOK'
    BY <1>1, <1>5, Stays DEF Go, Inside
  <2>5. TypeOK' /\ MutexInv'
    BY <1>1, <1>5, <2>1, <2>3, <2>4, HolderTyped DEF TypeOK
  <2>6. \A d \in Call : pc'[d] = IF d = c THEN "send" ELSE pc[d]
    BY <1>5 DEF Go, TypeOK
  <2>7. kept' # None
    BY <2>1, NoneAssumption
  <2>8. KeptWhen' /\ NoneKeptWhen' /\ RetryWhen'
    BY <1>1, <1>2, <1>3, <2>6, <2>7
       DEF UseInv, KeptWhen, NoneKeptWhen, RetryWhen, Inside
  <2>9. InUseOpen' /\ DeadIsEmpty'
    BY <1>1, <1>3, <2>1, <2>3 DEF UseInv, InUseOpen, DeadIsEmpty
  <2>10. QED
    BY <2>5, <2>8, <2>9 DEF UseInv
<1>6. CASE Return(c, Failed) /\ UNCHANGED <<kept, conn>>
  <2>1. QueueOK'
    BY <1>1, <1>6, Leaves DEF Return, Go
  <2>2. TypeOK' /\ MutexInv'
    BY <1>1, <1>6, <2>1, HolderTyped DEF TypeOK, Return
  <2>3. \A d \in Call : pc'[d] = IF d = c THEN "returned" ELSE pc[d]
    BY <1>6 DEF Return, Go, TypeOK
  <2>4. UseInv'
    BY <1>1, <1>2, <1>3, <1>6, <2>3
       DEF UseInv, KeptWhen, NoneKeptWhen, RetryWhen, InUseOpen, DeadIsEmpty, Inside
  <2>5. QED
    BY <2>2, <2>4
<1>7. QED
  BY <1>4, <1>5, <1>6 DEF Acquire

(* The holder uses the kept connection.                                     *)
LEMMA KeptBase ==
  ASSUME BaseInv, NEW c \in Call, Send(c) \/ Receive(c) \/ Lose(c)
  PROVE  BaseInv'
<1> USE DEF BaseInv
<1>1. /\ pc[c] \in {"send", "receive"} /\ Holds(c) /\ UnderWay(c)
      /\ UNCHANGED <<up, run, executed, outage, retry>>
  BY DEF Send, Receive, Lose, daemonVars, UnderWay
<1>2. \A d \in Call : d # c => pc[d] \notin Inside
  BY <1>1, Alone
<1>3. retry = None /\ kept \in Conn
  <2>1. \A d \in Call : pc[d] \notin {"resend", "receive again"}
    BY <1>1, <1>2 DEF Inside
  <2>2. QED
    BY <1>1, <2>1 DEF UseInv, RetryWhen, KeptWhen, TypeOK
<1>4. CASE Send(c)
  <2>1. conn' = Written(kept, c) /\ Go(c, "receive") /\ UNCHANGED <<outcome, queue, kept>>
        /\ conn[kept].alive
    BY <1>4 DEF Send, Broken
  <2>2. /\ conn' \in [Conn -> Connection] /\ conn'[kept].alive /\ conn'[kept].open = conn[kept].open
        /\ \A l \in Conn : l # kept => conn'[l] = conn[l]
    BY <1>3, <2>1, WrittenProperties
  <2>3. QueueOK'
    BY <1>1, <2>1, Stays DEF Go, Inside
  <2>4. TypeOK' /\ MutexInv'
    BY <1>1, <2>1, <2>2, <2>3, HolderTyped DEF TypeOK
  <2>5. \A d \in Call : pc'[d] = IF d = c THEN "receive" ELSE pc[d]
    BY <2>1 DEF Go, TypeOK
  <2>6. KeptWhen' /\ NoneKeptWhen' /\ RetryWhen'
    BY <1>1, <1>2, <1>3, <2>1, <2>5, NoneAssumption
       DEF UseInv, KeptWhen, NoneKeptWhen, RetryWhen, Inside
  <2>7. InUseOpen' /\ DeadIsEmpty'
    BY <1>1, <1>3, <2>1, <2>2 DEF UseInv, InUseOpen, DeadIsEmpty
  <2>8. QED
    BY <2>4, <2>6, <2>7 DEF UseInv
<1>5. CASE Receive(c)
  <2>1. /\ conn[kept].answers # <<>> /\ Return(c, Head(conn[kept].answers)) /\ UNCHANGED kept
        /\ conn' = [conn EXCEPT ![kept].answers = Rest(@)]
    BY <1>5 DEF Receive
  <2>2. /\ Head(conn[kept].answers) \in Answer
        /\ conn' \in [Conn -> Connection]
        /\ conn'[kept].alive = conn[kept].alive /\ conn'[kept].open = conn[kept].open
        /\ conn'[kept].requests = conn[kept].requests /\ conn'[kept].serving = conn[kept].serving
        /\ \A l \in Conn : l # kept => conn'[l] = conn[l]
    BY <1>3, <2>1, ReadProperties
  <2>3. QueueOK'
    BY <1>1, <2>1, Leaves DEF Return, Go
  <2>4. TypeOK' /\ MutexInv'
    BY <1>1, <2>1, <2>2, <2>3, HolderTyped DEF TypeOK, Return
  <2>5. \A d \in Call : pc'[d] = IF d = c THEN "returned" ELSE pc[d]
    BY <2>1 DEF Return, Go, TypeOK
  <2>6. KeptWhen' /\ NoneKeptWhen' /\ RetryWhen'
    BY <1>1, <1>2, <1>3, <2>1, <2>5, NoneAssumption
       DEF UseInv, KeptWhen, NoneKeptWhen, RetryWhen, Inside
  <2>7. InUseOpen' /\ DeadIsEmpty'
    BY <1>1, <1>3, <2>1, <2>2 DEF UseInv, InUseOpen, DeadIsEmpty
  <2>8. QED
    BY <2>4, <2>6, <2>7 DEF UseInv
<1>6. CASE Lose(c)
  <2>1. /\ conn' = Dropped(kept) /\ kept' = None /\ ~conn[kept].alive
        /\ Go(c, "reconnect") /\ UNCHANGED <<outcome, queue>>
    BY <1>1, <1>6 DEF Lose, Retried, Broken
  <2>2. /\ conn' \in [Conn -> Connection] /\ conn'[kept] = Free
        /\ \A l \in Conn : l # kept => conn'[l] = conn[l]
    BY <1>3, <2>1, DroppedProperties
  <2>3. QueueOK'
    BY <1>1, <2>1, Stays DEF Go, Inside
  <2>4. TypeOK' /\ MutexInv'
    BY <1>1, <2>1, <2>2, <2>3, HolderTyped DEF TypeOK
  <2>5. \A d \in Call : pc'[d] = IF d = c THEN "reconnect" ELSE pc[d]
    BY <2>1 DEF Go, TypeOK
  <2>6. KeptWhen' /\ NoneKeptWhen' /\ RetryWhen'
    BY <1>1, <1>2, <1>3, <2>1, <2>5
       DEF UseInv, KeptWhen, NoneKeptWhen, RetryWhen, Inside
  <2>7. InUseOpen' /\ DeadIsEmpty'
    BY <1>1, <1>3, <2>1, <2>2 DEF UseInv, InUseOpen, DeadIsEmpty, Free
  <2>8. QED
    BY <2>4, <2>6, <2>7 DEF UseInv
<1>7. QED
  BY <1>4, <1>5, <1>6

(* The holder opens another connection and uses that.                       *)
LEMMA RetryBase ==
  ASSUME BaseInv, NEW c \in Call, Reconnect(c) \/ Resend(c) \/ ReceiveAgain(c) \/ LoseAgain(c)
  PROVE  BaseInv'
<1> USE DEF BaseInv
<1>1. /\ pc[c] \in {"reconnect", "resend", "receive again"} /\ Holds(c) /\ UnderWay(c)
      /\ UNCHANGED <<up, run, executed, outage>>
  BY DEF Reconnect, Resend, ReceiveAgain, LoseAgain, daemonVars, UnderWay
<1>2. \A d \in Call : d # c => pc[d] \notin Inside
  BY <1>1, Alone
<1>3. kept = None
  BY <1>1 DEF UseInv, NoneKeptWhen
<1>4. CASE Reconnect(c)
  <2>1. retry = None
    BY <1>2, <1>4 DEF Reconnect, UseInv, RetryWhen, Inside
  <2>2. CASE Unused # {} /\ retry' = (CHOOSE k \in Unused : TRUE)
             /\ conn' = Opened(retry') /\ Go(c, "resend") /\ UNCHANGED <<outcome, queue>>
    <3>1. PICK k \in Conn : k = retry' /\ conn[k] = Free
      BY <2>2 DEF Unused
    <3>2. conn' = Opened(k)
      BY <2>2, <3>1
    <3>3. /\ conn' \in [Conn -> Connection] /\ conn'[k].alive /\ conn'[k].open
          /\ \A l \in Conn : l # k => conn'[l] = conn[l]
      BY <3>2, OpenedProperties
    <3>4. QueueOK'
      BY <1>1, <2>2, Stays DEF Go, Inside
    <3>5. UNCHANGED kept
      BY <1>4 DEF Reconnect
    <3>6. TypeOK' /\ MutexInv'
      BY <1>1, <2>2, <3>1, <3>3, <3>4, <3>5, HolderTyped DEF TypeOK
    <3>7. \A d \in Call : pc'[d] = IF d = c THEN "resend" ELSE pc[d]
      BY <2>2 DEF Go, TypeOK
    <3>8. KeptWhen' /\ NoneKeptWhen' /\ RetryWhen'
      BY <1>2, <1>3, <3>1, <3>5, <3>7, NoneAssumption
         DEF UseInv, KeptWhen, NoneKeptWhen, RetryWhen, Inside
    <3>9. InUseOpen' /\ DeadIsEmpty'
      BY <1>3, <3>1, <3>3, <3>5 DEF UseInv, InUseOpen, DeadIsEmpty
    <3>10. QED
      BY <3>6, <3>8, <3>9 DEF UseInv
  <2>3. CASE Return(c, Failed) /\ UNCHANGED <<retry, conn>>
    <3>1. QueueOK' /\ UNCHANGED kept
      BY <1>1, <1>4, <2>3, Leaves DEF Return, Go, Reconnect
    <3>2. TypeOK' /\ MutexInv'
      BY <1>1, <2>3, <3>1, HolderTyped DEF TypeOK, Return
    <3>3. \A d \in Call : pc'[d] = IF d = c THEN "returned" ELSE pc[d]
      BY <2>3 DEF Return, Go, TypeOK
    <3>4. UseInv'
      BY <1>2, <1>3, <2>1, <2>3, <3>1, <3>3
         DEF UseInv, KeptWhen, NoneKeptWhen, RetryWhen, InUseOpen, DeadIsEmpty, Inside
    <3>5. QED
      BY <3>2, <3>4
  <2>4. QED
    BY <1>4, <2>2, <2>3 DEF Reconnect
<1>5. CASE Resend(c)
  <2>1. /\ conn' = Written(retry, c) /\ Go(c, "receive again")
        /\ UNCHANGED <<outcome, queue, kept, retry>> /\ conn[retry].alive /\ pc[c] = "resend"
    BY <1>5 DEF Resend, Broken
  <2>2. retry \in Conn
    BY <2>1 DEF UseInv, RetryWhen, TypeOK
  <2>3. /\ conn' \in [Conn -> Connection] /\ conn'[retry].alive /\ conn'[retry].open = conn[retry].open
        /\ \A l \in Conn : l # retry => conn'[l] = conn[l]
    BY <2>1, <2>2, WrittenProperties
  <2>4. QueueOK'
    BY <1>1, <2>1, Stays DEF Go, Inside
  <2>5. TypeOK' /\ MutexInv'
    BY <1>1, <2>1, <2>3, <2>4, HolderTyped DEF TypeOK
  <2>6. \A d \in Call : pc'[d] = IF d = c THEN "receive again" ELSE pc[d]
    BY <2>1 DEF Go, TypeOK
  <2>7. KeptWhen' /\ NoneKeptWhen' /\ RetryWhen'
    BY <1>2, <1>3, <2>1, <2>2, <2>6, NoneAssumption
       DEF UseInv, KeptWhen, NoneKeptWhen, RetryWhen, Inside
  <2>8. InUseOpen' /\ DeadIsEmpty'
    BY <1>3, <2>1, <2>2, <2>3 DEF UseInv, InUseOpen, DeadIsEmpty
  <2>9. QED
    BY <2>5, <2>7, <2>8 DEF UseInv
<1>6. CASE ReceiveAgain(c) \/ LoseAgain(c)
  <2>1. /\ pc[c] \in {"resend", "receive again"} /\ retry' = None
    BY <1>6 DEF ReceiveAgain, LoseAgain
  <2>2. retry \in Conn /\ conn[retry].open /\ retry # None
    BY <2>1 DEF UseInv, RetryWhen, InUseOpen, TypeOK
  <2>3. /\ \/ /\ kept' = retry
              /\ conn[retry].answers # <<>>
              /\ conn' = [conn EXCEPT ![retry].answers = Rest(@)]
           \/ /\ UNCHANGED kept
              /\ conn' = Dropped(retry)
        /\ \E result \in Answer \cup {Failed} : Return(c, result)
    <3>1. CASE LoseAgain(c)
      BY <3>1 DEF LoseAgain
    <3>2. CASE ReceiveAgain(c)
      <4>1. conn[retry].answers \in Seq(Answer) /\ conn[retry].answers # <<>>
        BY <2>2, <3>2 DEF ReceiveAgain, TypeOK, Connection
      <4>2. Head(conn[retry].answers) \in Answer
        BY <4>1, HeadTailProperties
      <4>3. QED
        BY <3>2, <4>1, <4>2 DEF ReceiveAgain
    <3>3. QED
      BY <1>6, <3>1, <3>2
  <2>4. PICK result \in Answer \cup {Failed} : Return(c, result)
    BY <2>3
  <2>5. QueueOK'
    BY <1>1, <2>4, Leaves DEF Return, Go
  <2>6. \A d \in Call : pc'[d] = IF d = c THEN "returned" ELSE pc[d]
    BY <2>4 DEF Return, Go, TypeOK
  <2>7. /\ conn' \in [Conn -> Connection]
        /\ \A l \in Conn : l # retry => conn'[l] = conn[l]
        /\ kept' = None \/ (kept' = retry /\ conn'[retry].open)
        /\ ~conn'[retry].alive => conn'[retry].requests = <<>> /\ conn'[retry].serving = None
    <3>1. CASE kept' = retry /\ conn[retry].answers # <<>>
               /\ conn' = [conn EXCEPT ![retry].answers = Rest(@)]
      <4>1. /\ conn' \in [Conn -> Connection]
            /\ conn'[retry].alive = conn[retry].alive /\ conn'[retry].open = conn[retry].open
            /\ conn'[retry].requests = conn[retry].requests
            /\ conn'[retry].serving = conn[retry].serving
            /\ \A l \in Conn : l # retry => conn'[l] = conn[l]
        BY <2>2, <3>1, ReadProperties
      <4>2. QED
        BY <2>2, <3>1, <4>1 DEF UseInv, DeadIsEmpty
    <3>2. CASE UNCHANGED kept /\ conn' = Dropped(retry)
      <4>1. Free.requests = <<>> /\ Free.serving = None
        BY DEF Free
      <4>2. PICK k \in Conn : k = retry
        BY <2>2
      <4>3. /\ Dropped(k) \in [Conn -> Connection]
            /\ conn[k].alive => Dropped(k)[k].alive
            /\ ~conn[k].alive => Dropped(k)[k] = Free
            /\ \A l \in Conn : l # k => Dropped(k)[l] = conn[l]
        BY DroppedProperties
      <4>4. conn' = Dropped(k) /\ kept' = None
        BY <1>3, <3>2, <4>2
      <4>5. ~Dropped(k)[k].alive => Dropped(k)[k].requests = <<>> /\ Dropped(k)[k].serving = None
        BY <4>1, <4>3
      <4>6. /\ conn' \in [Conn -> Connection] /\ \A l \in Conn : l # k => conn'[l] = conn[l]
            /\ ~conn'[k].alive => conn'[k].requests = <<>> /\ conn'[k].serving = None
        BY <4>3, <4>4, <4>5
      <4>7. QED
        BY <4>2, <4>4, <4>6
    <3>3. QED
      BY <2>3, <3>1, <3>2
  <2>8. kept' \in Conn \cup {None} /\ retry' \in Conn \cup {None}
    BY <2>1, <2>2, <2>7
  <2>9. TypeOK' /\ MutexInv'
    BY <1>1, <2>4, <2>5, <2>7, <2>8, HolderTyped DEF Return
  <2>10. KeptWhen' /\ NoneKeptWhen' /\ RetryWhen'
    BY <1>2, <2>1, <2>6 DEF UseInv, KeptWhen, NoneKeptWhen, RetryWhen, Inside
  <2>11. InUseOpen'
    BY <2>1, <2>2, <2>7 DEF InUseOpen
  <2>12. DeadIsEmpty'
    BY <2>7 DEF UseInv, DeadIsEmpty
  <2>13. QED
    BY <2>9, <2>10, <2>11, <2>12 DEF UseInv
<1>7. QED
  BY <1>4, <1>5, <1>6

LEMMA CancelBase ==
  ASSUME BaseInv, NEW c \in Call, Cancel(c)
  PROVE  BaseInv'
<1> USE DEF BaseInv
<1>1. /\ UnderWay(c) /\ Go(c, "cancelled") /\ queue' = Without(c)
      /\ UNCHANGED <<up, run, executed, outcome, outage, kept>>
  BY DEF Cancel, daemonVars
<1>2. QueueOK'
  BY <1>1, Leaves DEF Go
<1>3. \A d \in Call : pc'[d] = IF d = c THEN "cancelled" ELSE pc[d]
  BY <1>1 DEF Go, TypeOK
<1>4. KeptWhen' /\ NoneKeptWhen'
  BY <1>1, <1>3 DEF UseInv, KeptWhen, NoneKeptWhen
<1>5. CASE /\ pc[c] = "send" /\ conn' = [conn EXCEPT ![kept].half = TRUE]
           /\ UNCHANGED retry
  <2>1. kept \in Conn
    BY <1>5 DEF UseInv, KeptWhen, TypeOK
  <2>2. /\ conn' \in [Conn -> Connection]
        /\ conn'[kept].alive = conn[kept].alive /\ conn'[kept].open = conn[kept].open
        /\ conn'[kept].requests = conn[kept].requests /\ conn'[kept].serving = conn[kept].serving
        /\ \A l \in Conn : l # kept => conn'[l] = conn[l]
    BY <1>5, <2>1, HalfProperties
  <2>3. TypeOK' /\ MutexInv'
    BY <1>1, <1>2, <1>5, <2>2, HolderTyped DEF TypeOK
  <2>4. InUseOpen' /\ DeadIsEmpty'
    BY <1>1, <1>5, <2>1, <2>2 DEF UseInv, InUseOpen, DeadIsEmpty
  <2>5. RetryWhen'
    BY <1>3, <1>5 DEF UseInv, RetryWhen
  <2>6. QED
    BY <1>4, <2>3, <2>4, <2>5 DEF UseInv
<1>6. CASE /\ pc[c] \in {"resend", "receive again"} /\ conn' = Dropped(retry) /\ retry' = None
  <2>1. retry \in Conn /\ Holds(c) /\ kept = None
    BY <1>6 DEF UseInv, RetryWhen, NoneKeptWhen, TypeOK, MutexInv, OneInside, Inside
  <2>2. /\ conn' \in [Conn -> Connection]
        /\ \A l \in Conn : l # retry => conn'[l] = conn[l]
        /\ ~conn'[retry].alive => conn'[retry].requests = <<>> /\ conn'[retry].serving = None
    <3>1. Free.requests = <<>> /\ Free.serving = None
      BY DEF Free
    <3>2. QED
      BY <1>6, <2>1, <3>1, DroppedProperties
  <2>3. TypeOK' /\ MutexInv'
    BY <1>1, <1>2, <1>6, <2>2, HolderTyped DEF TypeOK
  <2>4. InUseOpen' /\ DeadIsEmpty'
    BY <1>1, <1>6, <2>1, <2>2 DEF UseInv, InUseOpen, DeadIsEmpty
  <2>5. RetryWhen'
    <3>1. \A d \in Call : d # c => pc[d] \notin Inside
      BY <2>1, Alone
    <3>2. QED
      BY <1>3, <1>6, <3>1 DEF RetryWhen, Inside
  <2>6. QED
    BY <1>4, <2>3, <2>4, <2>5 DEF UseInv
<1>7. CASE pc[c] \notin {"resend", "receive again"} /\ UNCHANGED <<retry, conn>>
  <2>1. TypeOK' /\ MutexInv'
    BY <1>1, <1>2, <1>7, HolderTyped DEF TypeOK
  <2>2. InUseOpen' /\ DeadIsEmpty'
    BY <1>1, <1>7 DEF UseInv, InUseOpen, DeadIsEmpty
  <2>3. RetryWhen'
    BY <1>3, <1>7 DEF UseInv, RetryWhen
  <2>4. QED
    BY <1>4, <2>1, <2>2, <2>3 DEF UseInv
<1>8. CASE /\ pc[c] = "receive" /\ conn[kept].answers # <<>>
           /\ conn' = [conn EXCEPT ![kept].answers = Torn(@, 1)]
           /\ UNCHANGED retry
  <2>1. kept \in Conn
    BY <1>8 DEF UseInv, KeptWhen, TypeOK
  <2>2. /\ conn' \in [Conn -> Connection]
        /\ conn'[kept].alive = conn[kept].alive /\ conn'[kept].open = conn[kept].open
        /\ conn'[kept].requests = conn[kept].requests /\ conn'[kept].serving = conn[kept].serving
        /\ \A l \in Conn : l # kept => conn'[l] = conn[l]
    BY <1>8, <2>1, HalfReadProperties
  <2>3. TypeOK' /\ MutexInv'
    BY <1>1, <1>2, <1>8, <2>2, HolderTyped DEF TypeOK
  <2>4. InUseOpen' /\ DeadIsEmpty'
    BY <1>1, <1>8, <2>1, <2>2 DEF UseInv, InUseOpen, DeadIsEmpty
  <2>5. RetryWhen'
    BY <1>3, <1>8 DEF UseInv, RetryWhen
  <2>6. QED
    BY <1>4, <2>3, <2>4, <2>5 DEF UseInv
<1>9. QED
  BY <1>5, <1>6, <1>7, <1>8 DEF Cancel

(* Steps of the daemon on a connection leave the client as it is.           *)
LEMMA DaemonTyped ==
  ASSUME BaseInv, UNCHANGED <<pc, outcome, queue, kept, retry>>,
         up' \in BOOLEAN, run' \in 0 .. MaxCrash, executed' \in [Call -> Seq(0 .. MaxCrash)],
         outage' \in [Call -> BOOLEAN], conn' \in [Conn -> Connection],
         \A k \in Conn : conn[k].open => conn'[k].open,
         DeadIsEmpty'
  PROVE  BaseInv'
<1>1. TypeOK' /\ MutexInv'
  <2>1. QueueOK'
    BY Rests DEF BaseInv
  <2>2. QED
    BY <2>1, QueueTyped DEF BaseInv, TypeOK
<1>2. UseInv'
  BY DEF BaseInv, TypeOK, UseInv, KeptWhen, NoneKeptWhen, RetryWhen, InUseOpen
<1>3. QED
  BY <1>1, <1>2 DEF BaseInv

LEMMA DaemonBase ==
  ASSUME BaseInv, NEW k \in Conn, Daemon(k)
  PROVE  BaseInv'
<1> USE DEF BaseInv
<1>1. UNCHANGED <<up, run, pc, outcome, outage, queue, kept, retry>>
  BY DEF Daemon, Serve, Respond, Refuse, NotText, EndOfFile, daemonVars, clientVars
<1>2. \A l \in Conn : ~conn[l].alive => conn[l].requests = <<>> /\ conn[l].serving = None
  BY DEF UseInv, DeadIsEmpty
<1>3. CASE Serve(k)
  <2>1. conn[k].alive
    BY <1>2, <1>3 DEF Serve
  <2>2. executed' \in [Call -> Seq(0 .. MaxCrash)]
    <3>1. /\ Head(conn[k].requests) \in Call
          /\ executed' = [executed EXCEPT ![Head(conn[k].requests)] = Append(@, run)]
      BY <1>3, ServeProperties
    <3>2. ASSUME NEW c \in Call
          PROVE  Append(executed[c], run) \in Seq(0 .. MaxCrash)
      <4>1. executed[c] \in Seq(0 .. MaxCrash) /\ run \in 0 .. MaxCrash
        BY DEF TypeOK
      <4>2. QED
        BY <4>1
    <3>3. QED
      BY <3>1, <3>2 DEF TypeOK
  <2>3. /\ conn' \in [Conn -> Connection]
        /\ conn'[k].alive = conn[k].alive /\ conn'[k].open = conn[k].open
        /\ \A l \in Conn : l # k => conn'[l] = conn[l]
    BY <1>3, ServeProperties
  <2>4. DeadIsEmpty'
    BY <1>2, <2>1, <2>3 DEF DeadIsEmpty
  <2>5. QED
    BY <1>1, <2>2, <2>3, <2>4, DaemonTyped DEF TypeOK
<1>4. CASE Respond(k)
  <2>1. conn[k].alive /\ UNCHANGED executed
    BY <1>2, <1>4 DEF Respond, daemonVars
  <2>2. /\ conn' \in [Conn -> Connection]
        /\ conn'[k].alive = conn[k].alive /\ conn'[k].open = conn[k].open
        /\ \A l \in Conn : l # k => conn'[l] = conn[l]
    BY <1>4, RespondProperties
  <2>3. DeadIsEmpty'
    BY <1>2, <2>1, <2>2 DEF DeadIsEmpty
  <2>4. QED
    BY <1>1, <2>1, <2>2, <2>3, DaemonTyped DEF TypeOK
<1>5. CASE Refuse(k)
  <2>1. conn[k].alive /\ UNCHANGED executed
    BY <1>2, <1>5 DEF Refuse, daemonVars
  <2>2. /\ conn' \in [Conn -> Connection]
        /\ conn'[k].alive = conn[k].alive /\ conn'[k].open = conn[k].open
        /\ \A l \in Conn : l # k => conn'[l] = conn[l]
    BY <1>5, RefuseProperties
  <2>3. DeadIsEmpty'
    BY <1>2, <2>1, <2>2 DEF DeadIsEmpty
  <2>4. QED
    BY <1>1, <2>1, <2>2, <2>3, DaemonTyped DEF TypeOK
<1>6. CASE EndOfFile(k)
  <2>1. /\ ~conn[k].open /\ UNCHANGED executed
        /\ \A l \in Conn : conn'[l] = IF l = k THEN Free ELSE conn[l]
        /\ conn' \in [Conn -> Connection]
    BY <1>6, FreeIsConnection DEF EndOfFile, daemonVars, TypeOK
  <2>2. Free.requests = <<>> /\ Free.serving = None
    BY DEF Free
  <2>3. DeadIsEmpty'
    BY <1>2, <2>1, <2>2 DEF DeadIsEmpty
  <2>4. QED
    BY <1>1, <2>1, <2>3, DaemonTyped DEF TypeOK
<1>7. CASE NotText(k)
  <2>1. UNCHANGED executed
    BY <1>7 DEF NotText, daemonVars
  <2>2. /\ conn' \in [Conn -> Connection] /\ conn'[k].open = conn[k].open
        /\ conn'[k].requests = <<>> /\ conn'[k].serving = None
        /\ \A l \in Conn : l # k => conn'[l] = conn[l]
    BY <1>7, NotTextProperties
  <2>3. DeadIsEmpty'
    BY <1>2, <2>2 DEF DeadIsEmpty
  <2>4. QED
    BY <1>1, <2>1, <2>2, <2>3, DaemonTyped DEF TypeOK
<1>8. QED
  BY <1>3, <1>4, <1>5, <1>6, <1>7 DEF Daemon

LEMMA CrashBase == BaseInv /\ (Crash \/ Start) => BaseInv'
<1> SUFFICES ASSUME BaseInv, Crash \/ Start PROVE BaseInv'
  OBVIOUS
<1> USE DEF BaseInv
<1>1. CASE Crash
  <2>1. /\ conn' \in [Conn -> Connection]
        /\ \A k \in Conn : /\ ~conn'[k].alive /\ conn'[k].requests = <<>>
                           /\ conn'[k].serving = None /\ conn'[k].open = conn[k].open
    BY <1>1, CrashProperties DEF UseInv
  <2>2. DeadIsEmpty'
    BY <2>1 DEF DeadIsEmpty
  <2>3. /\ up' = FALSE /\ run' = run + 1 /\ run < MaxCrash
        /\ outage' = [c \in Call |-> outage[c] \/ UnderWay(c)]
        /\ UNCHANGED <<executed, pc, outcome, queue, kept, retry>>
    BY <1>1 DEF Crash
  <2>4. run' \in 0 .. MaxCrash
    <3>1. run \in 0 .. MaxCrash
      BY DEF TypeOK
    <3>2. QED
      BY <2>3, <3>1, CrashAssumption
  <2>5. outage' \in [Call -> BOOLEAN]
    BY <2>3 DEF TypeOK
  <2>6. QED
    BY <2>1, <2>2, <2>3, <2>4, <2>5, DaemonTyped DEF TypeOK
<1>2. CASE Start
  <2>1. up' = TRUE /\ UNCHANGED <<run, executed, pc, outcome, outage, queue, kept, retry, conn>>
    BY <1>2 DEF Start, clientVars
  <2>2. DeadIsEmpty'
    BY <2>1 DEF UseInv, DeadIsEmpty
  <2>3. QED
    BY <2>1, <2>2, DaemonTyped DEF TypeOK
<1>3. QED
  BY <1>1, <1>2

LEMMA NextBase == BaseInv /\ [Next]_vars => BaseInv'
<1> SUFFICES ASSUME BaseInv, [Next]_vars PROVE BaseInv'
  OBVIOUS
<1>1. CASE UNCHANGED vars
  <2>1. /\ UNCHANGED <<up, run, executed, pc, outcome, outage, queue, kept, retry, conn>>
        /\ DeadIsEmpty'
    BY <1>1 DEF vars, BaseInv, UseInv, DeadIsEmpty
  <2>2. QED
    BY <2>1, DaemonTyped DEF BaseInv, TypeOK
<1>2. QED
  BY <1>1, IssueBase, AcquireBase, KeptBase, RetryBase, CancelBase, DaemonBase, CrashBase
     DEF Next, Step

-----------------------------------------------------------------------------
(* The connection of a second try                                           *)

(* It is new and serves one call, which gives it up with the call: no half  *)
(* line is ever written to it.                                              *)
Clean(k) ==
  /\ ~conn[k].half
  /\ \A i \in DOMAIN conn[k].requests : conn[k].requests[i] # Malformed
RetryClean == \A k \in Conn : k = retry => Clean(k)

LEMMA EmptyDomain == DOMAIN <<>> = {}
OBVIOUS

LEMMA TailElements ==
  ASSUME NEW S, NEW s \in Seq(S), s # <<>>
  PROVE  \A i \in DOMAIN Tail(s) : i + 1 \in DOMAIN s /\ Tail(s)[i] = s[i + 1]
<1>1. /\ Tail(s) \in Seq(S) /\ Len(Tail(s)) = Len(s) - 1
      /\ \A i \in 1 .. Len(Tail(s)) : Tail(s)[i] = s[i + 1]
  BY HeadTailProperties
<1>2. /\ DOMAIN Tail(s) = 1 .. Len(Tail(s)) /\ DOMAIN s = 1 .. Len(s) /\ Len(s) \in Nat
  BY <1>1, LenProperties
<1>3. QED
  BY <1>1, <1>2

LEMMA AppendElements ==
  ASSUME NEW S, NEW s \in Seq(S), NEW e \in S
  PROVE  \A i \in DOMAIN Append(s, e) :
           \/ i \in DOMAIN s /\ Append(s, e)[i] = s[i]
           \/ i = Len(s) + 1 /\ Append(s, e)[i] = e
<1>1. /\ Append(s, e) \in Seq(S) /\ Len(Append(s, e)) = Len(s) + 1
      /\ \A i \in 1 .. Len(s) : Append(s, e)[i] = s[i]
      /\ Append(s, e)[Len(s) + 1] = e
  BY AppendProperties
<1>2. /\ DOMAIN Append(s, e) = 1 .. Len(s) + 1 /\ DOMAIN s = 1 .. Len(s) /\ Len(s) \in Nat
  BY <1>1, LenProperties
<1>3. \A i \in 1 .. Len(s) + 1 : i \in 1 .. Len(s) \/ i = Len(s) + 1
  BY <1>2
<1>4. QED
  BY <1>1, <1>2, <1>3

(* What the daemon does with the lines of a connection.                     *)
LEMMA DaemonLines ==
  ASSUME BaseInv, (\E k \in Conn : Daemon(k)) \/ Crash \/ Start, NEW k \in Conn
  PROVE  /\ conn'[k].half => conn[k].half
         /\ \/ conn'[k].requests = conn[k].requests
            \/ conn'[k].requests = <<>>
            \/ conn[k].requests # <<>> /\ conn'[k].requests = Tail(conn[k].requests)
<1> USE DEF BaseInv
<1>1. CASE Crash
  BY <1>1, CrashProperties DEF UseInv
<1>2. CASE Start
  BY <1>2 DEF Start
<1>3. CASE \E l \in Conn : Daemon(l)
  <2>1. PICK l \in Conn : Daemon(l)
    BY <1>3
  <2>2. CASE Serve(l)
    BY <2>2, ServeProperties DEF Serve
  <2>3. CASE Respond(l)
    BY <2>3, RespondProperties
  <2>4. CASE Refuse(l)
    BY <2>4, RefuseProperties DEF Refuse
  <2>5. CASE NotText(l)
    BY <2>5, NotTextProperties
  <2>6. CASE EndOfFile(l)
    <3>1. \A m \in Conn : conn'[m] = IF m = l THEN Free ELSE conn[m]
      BY <2>6 DEF EndOfFile, TypeOK
    <3>2. Free.requests = <<>> /\ ~Free.half
      BY DEF Free
    <3>3. QED
      BY <3>1, <3>2
  <2>7. QED
    BY <2>1, <2>2, <2>3, <2>4, <2>5, <2>6 DEF Daemon
<1>4. QED
  BY <1>1, <1>2, <1>3

LEMMA DaemonClean ==
  ASSUME BaseInv, RetryClean, (\E k \in Conn : Daemon(k)) \/ Crash \/ Start
  PROVE  RetryClean'
<1>1. UNCHANGED retry
  BY DEF Daemon, Serve, Respond, Refuse, NotText, EndOfFile, Crash, Start, clientVars
<1>2. SUFFICES ASSUME NEW k \in Conn, k = retry
               PROVE  Clean(k)'
  BY <1>1 DEF RetryClean
<1>3. Clean(k) /\ conn[k].requests \in Seq(Request)
  BY <1>2 DEF RetryClean, BaseInv, TypeOK, Connection
<1>4. conn[k].requests # <<>> =>
        \A i \in DOMAIN Tail(conn[k].requests) :
          /\ i + 1 \in DOMAIN conn[k].requests
          /\ Tail(conn[k].requests)[i] = conn[k].requests[i + 1]
  BY <1>3, TailElements
<1>5. QED
  BY <1>3, <1>4, DaemonLines, EmptyDomain DEF Clean

LEMMA CallClean ==
  ASSUME BaseInv, RetryClean, NEW c \in Call, Issue(c) \/ Step(c) \/ Cancel(c)
  PROVE  RetryClean'
<1> USE DEF BaseInv
<1>1. CASE UNCHANGED <<retry, conn>>
  BY <1>1 DEF RetryClean, Clean
<1>2. CASE retry' = None
  BY <1>2, NoneAssumption DEF RetryClean
<1>3. ASSUME pc[c] \notin {"resend", "receive again"}, UNCHANGED retry, Holds(c)
      PROVE  RetryClean'
  <2>1. retry = None
    BY <1>3, Alone DEF UseInv, RetryWhen, Inside
  <2>2. QED
    BY <1>2, <1>3, <2>1
<1>4. CASE Reconnect(c) /\ retry' # None
  <2>1. CASE /\ Unused # {} /\ retry' = (CHOOSE k \in Unused : TRUE) /\ conn' = Opened(retry')
    <3>1. PICK k \in Conn : k = retry'
      BY <2>1 DEF Unused
    <3>2. conn'[k].requests = <<>> /\ ~conn'[k].half
      BY <2>1, <3>1, OpenedProperties
    <3>3. QED
      BY <3>1, <3>2, EmptyDomain DEF RetryClean, Clean
  <2>2. CASE UNCHANGED <<retry, conn>>
    BY <1>1, <2>2
  <2>3. QED
    BY <1>4, <2>1, <2>2 DEF Reconnect
<1>5. CASE Resend(c)
  <2>1. /\ conn' = Written(retry, c) /\ UNCHANGED retry /\ pc[c] = "resend"
    BY <1>5 DEF Resend
  <2>2. PICK k \in Conn : k = retry
    BY <2>1 DEF UseInv, RetryWhen, TypeOK
  <2>3. Clean(k) /\ conn[k].requests \in Seq(Request) /\ c \in Request
    BY <2>2 DEF RetryClean, TypeOK, Connection, Request
  <2>4. conn'[k].requests = Append(conn[k].requests, c) /\ ~conn'[k].half
    BY <2>1, <2>2, <2>3, WrittenProperties DEF Clean
  <2>5. c # Malformed
    BY NoneAssumption
  <2>6. \A i \in DOMAIN conn'[k].requests : conn'[k].requests[i] # Malformed
    BY <2>3, <2>4, <2>5, AppendElements DEF Clean
  <2>7. QED
    BY <2>1, <2>2, <2>4, <2>6 DEF RetryClean, Clean
<1>6. CASE Issue(c)
  BY <1>1, <1>6 DEF Issue
<1>7. CASE Acquire(c) \/ Send(c) \/ Receive(c) \/ Lose(c)
  BY <1>3, <1>7 DEF Acquire, Send, Receive, Lose
<1>8. CASE ReceiveAgain(c) \/ LoseAgain(c)
  BY <1>2, <1>8 DEF ReceiveAgain, LoseAgain
<1>9. CASE Cancel(c)
  <2>1. CASE pc[c] \in {"send", "receive"} /\ UNCHANGED retry
    BY <1>3, <2>1 DEF MutexInv, OneInside, Inside
  <2>2. QED
    BY <1>1, <1>2, <1>9, <2>1 DEF Cancel
<1>10. QED
  BY <1>2, <1>4, <1>5, <1>6, <1>7, <1>8, <1>9 DEF Step

LEMMA NextClean == BaseInv /\ RetryClean /\ [Next]_vars => RetryClean'
<1> SUFFICES ASSUME BaseInv, RetryClean, [Next]_vars PROVE RetryClean'
  OBVIOUS
<1>1. CASE UNCHANGED vars
  BY <1>1 DEF vars, RetryClean, Clean
<1>2. QED
  BY <1>1, CallClean, DaemonClean DEF Next

LEMMA InitClean == Init => RetryClean
BY NoneAssumption DEF Init, RetryClean

-----------------------------------------------------------------------------
(* A failure means an outage                                                *)

(* While the daemon is down every call under way has seen it down, and so   *)
(* has one whose second connection is broken.                               *)
NewHasNoOutcome == \A c \in Call : pc[c] = "new" => outcome[c] = None
DownIsSeen == ~up => \A c \in Call : UnderWay(c) => outage[c]
BrokenIsSeen ==
  \A c \in Call : pc[c] \in {"resend", "receive again"} /\ ~conn[retry].alive => outage[c]
FailedIsSeen == \A c \in Call : outcome[c] = Failed => outage[c]
OutageInv == NewHasNoOutcome /\ DownIsSeen /\ BrokenIsSeen /\ FailedIsSeen

LEMMA IssueOutage ==
  ASSUME BaseInv, OutageInv, NEW c \in Call, Issue(c)
  PROVE  OutageInv'
<1>1. /\ pc[c] = "new" /\ outcome[c] = None /\ UNCHANGED <<up, outcome, retry, conn>>
      /\ \A d \in Call : pc'[d] = IF d = c THEN "waiting" ELSE pc[d]
      /\ \A d \in Call : outage'[d] = IF d = c THEN ~up ELSE outage[d]
  BY DEF BaseInv, TypeOK, OutageInv, NewHasNoOutcome, Issue, Go, daemonVars
<1>2. Failed # None
  BY OutcomeAssumption
<1>3. QED
  BY <1>1, <1>2
     DEF OutageInv, NewHasNoOutcome, DownIsSeen, BrokenIsSeen, FailedIsSeen, UnderWay

(* A step of a call under way that keeps what was seen, ends with a failure *)
(* only after an outage, and leaves a second connection only unbroken.      *)
LEMMA CallOutage ==
  ASSUME BaseInv, OutageInv, NEW c \in Call, UnderWay(c), UNCHANGED <<up, outage>>,
         NEW where \in Places \ {"new"}, pc' = [pc EXCEPT ![c] = where],
         \/ UNCHANGED outcome
         \/ \E result \in Answer \cup {Failed} :
              outcome' = [outcome EXCEPT ![c] = result] /\ (result = Failed => outage[c]),
         \A d \in Call : pc'[d] \in {"resend", "receive again"} /\ ~conn'[retry'].alive => outage[d]
  PROVE  OutageInv'
<1>1. \A d \in Call : pc'[d] = IF d = c THEN where ELSE pc[d]
  BY DEF BaseInv, TypeOK
<1>2. NewHasNoOutcome' /\ FailedIsSeen'
  BY <1>1 DEF BaseInv, TypeOK, OutageInv, NewHasNoOutcome, FailedIsSeen
<1>3. DownIsSeen' /\ BrokenIsSeen'
  BY <1>1 DEF OutageInv, DownIsSeen, BrokenIsSeen, UnderWay
<1>4. QED
  BY <1>2, <1>3 DEF OutageInv

LEMMA StepOutage ==
  ASSUME BaseInv, OutageInv, NEW c \in Call, Step(c)
  PROVE  OutageInv'
<1>1. /\ UnderWay(c) /\ Holds(c) /\ UNCHANGED <<up, outage>>
      /\ ~up => outage[c]
  BY DEF Step, Acquire, Send, Receive, Lose, Reconnect, Resend, ReceiveAgain, LoseAgain,
         daemonVars, UnderWay, OutageInv, DownIsSeen
<1>2. \A d \in Call : d # c => pc[d] \notin Inside
  BY <1>1, Alone DEF BaseInv
<1>3. ASSUME NEW where \in Places \ {"new", "resend", "receive again"},
             pc' = [pc EXCEPT ![c] = where],
             \/ UNCHANGED outcome
             \/ \E result \in Answer \cup {Failed} :
                  outcome' = [outcome EXCEPT ![c] = result] /\ (result = Failed => outage[c])
      PROVE  OutageInv'
  <2>1. \A d \in Call : pc'[d] \notin {"resend", "receive again"}
    BY <1>2, <1>3 DEF BaseInv, TypeOK, Inside
  <2>2. QED
    BY <1>1, <1>3, <2>1, CallOutage
<1>4. CASE Acquire(c)
  <2>1. CASE Go(c, "send") /\ UNCHANGED outcome
    BY <1>3, <2>1 DEF Go, Places, Inside
  <2>2. CASE ~up /\ Return(c, Failed)
    BY <1>1, <1>3, <2>2 DEF Return, Go, Places
  <2>3. QED
    BY <1>4, <2>1, <2>2 DEF Acquire
<1>5. CASE Send(c)
  BY <1>3, <1>5 DEF Send, Go, Places, Inside
<1>6. CASE Receive(c)
  <2>1. conn[kept].answers \in Seq(Answer) /\ conn[kept].answers # <<>>
    BY <1>6 DEF Receive, BaseInv, UseInv, KeptWhen, TypeOK, Connection
  <2>2. Head(conn[kept].answers) \in Answer
    BY <2>1, HeadTailProperties
  <2>3. QED
    BY <1>3, <1>6, <2>2, OutcomeAssumption DEF Receive, Return, Go, Places
<1>7. CASE Lose(c)
  BY <1>3, <1>7 DEF Lose, Retried, Go, Places, Inside
<1>8. CASE Reconnect(c)
  <2>1. CASE /\ Unused # {} /\ retry' = (CHOOSE k \in Unused : TRUE)
             /\ conn' = Opened(retry') /\ Go(c, "resend") /\ UNCHANGED outcome
    <3>1. PICK k \in Conn : k = retry'
      BY <2>1 DEF Unused
    <3>2. conn'[k].alive
      BY <2>1, <3>1, OpenedProperties DEF BaseInv
    <3>3. pc' = [pc EXCEPT ![c] = "resend"]
      BY <2>1 DEF Go
    <3>4. QED
      BY <1>1, <2>1, <3>1, <3>2, <3>3, CallOutage DEF Places, Inside
  <2>2. CASE ~up /\ Return(c, Failed)
    BY <1>1, <1>3, <2>2 DEF Return, Go, Places
  <2>3. QED
    BY <1>8, <2>1, <2>2 DEF Reconnect
<1>9. CASE Resend(c)
  <2>1. /\ pc' = [pc EXCEPT ![c] = "receive again"] /\ conn[retry].alive /\ pc[c] = "resend"
        /\ conn' = Written(retry, c) /\ UNCHANGED <<outcome, retry>>
    BY <1>9 DEF Resend, Go, Broken
  <2>2. retry \in Conn
    BY <2>1 DEF BaseInv, UseInv, RetryWhen, TypeOK
  <2>3. conn'[retry].alive
    BY <2>1, <2>2, WrittenProperties DEF BaseInv
  <2>4. QED
    BY <1>1, <2>1, <2>3, CallOutage DEF Places, Inside
<1>10. CASE ReceiveAgain(c)
  <2>1. conn[retry].answers \in Seq(Answer) /\ conn[retry].answers # <<>>
    BY <1>10 DEF ReceiveAgain, BaseInv, UseInv, RetryWhen, TypeOK, Connection
  <2>2. Head(conn[retry].answers) \in Answer
    BY <2>1, HeadTailProperties
  <2>3. PICK result \in Answer : result = Head(conn[retry].answers)
    BY <2>2
  <2>4. pc' = [pc EXCEPT ![c] = "returned"] /\ outcome' = [outcome EXCEPT ![c] = result]
    BY <1>10, <2>3 DEF ReceiveAgain, Return, Go
  <2>5. result # Failed
    BY OutcomeAssumption
  <2>6. \E r \in Answer \cup {Failed} :
          outcome' = [outcome EXCEPT ![c] = r] /\ (r = Failed => outage[c])
    BY <2>4, <2>5
  <2>7. "returned" \in Places \ {"new", "resend", "receive again"}
    BY DEF Places
  <2>8. QED
    BY <1>3, <2>4, <2>6, <2>7
<1>11. CASE LoseAgain(c)
  <2>1. outage[c]
    BY <1>11 DEF LoseAgain, OutageInv, BrokenIsSeen
  <2>2. QED
    BY <1>3, <1>11, <2>1 DEF LoseAgain, Return, Go, Places
<1>12. QED
  BY <1>4, <1>5, <1>6, <1>7, <1>8, <1>9, <1>10, <1>11 DEF Step

LEMMA CancelOutage ==
  ASSUME BaseInv, OutageInv, NEW c \in Call, Cancel(c)
  PROVE  OutageInv'
<1>1. /\ UnderWay(c) /\ UNCHANGED <<up, outage, outcome>> /\ pc' = [pc EXCEPT ![c] = "cancelled"]
  BY DEF Cancel, Go, daemonVars
<1>2. \A d \in Call : pc'[d] = IF d = c THEN "cancelled" ELSE pc[d]
  BY <1>1 DEF BaseInv, TypeOK
<1>3. ASSUME NEW d \in Call, pc'[d] \in {"resend", "receive again"}, ~conn'[retry'].alive
      PROVE  outage[d]
  <2>1. d # c /\ pc[d] \in {"resend", "receive again"}
    BY <1>2, <1>3
  <2>2. pc[c] \notin {"send", "receive", "resend", "receive again"}
    BY <2>1 DEF BaseInv, MutexInv, OneInside, Holds, Inside
  <2>3. UNCHANGED <<retry, conn>>
    BY <2>2 DEF Cancel
  <2>4. QED
    BY <1>3, <2>1, <2>3 DEF OutageInv, BrokenIsSeen
<1>4. QED
  BY <1>1, <1>3, CallOutage DEF Places

LEMMA DaemonOutage ==
  ASSUME BaseInv, RetryClean, OutageInv, (\E k \in Conn : Daemon(k)) \/ Crash \/ Start
  PROVE  OutageInv'
<1>1. UNCHANGED <<pc, outcome, retry>>
  BY DEF Daemon, Serve, Respond, Refuse, NotText, EndOfFile, Crash, Start, clientVars
<1>2. CASE Crash
  <2>1. \A c \in Call : outage'[c] = (outage[c] \/ UnderWay(c))
    BY <1>2 DEF Crash
  <2>2. NewHasNoOutcome' /\ FailedIsSeen'
    BY <1>1, <2>1 DEF OutageInv, NewHasNoOutcome, FailedIsSeen
  <2>3. DownIsSeen' /\ BrokenIsSeen'
    BY <1>1, <2>1 DEF DownIsSeen, BrokenIsSeen, UnderWay
  <2>4. QED
    BY <2>2, <2>3 DEF OutageInv
<1>3. CASE Start
  <2>1. up' = TRUE /\ UNCHANGED <<outage, conn>>
    BY <1>3 DEF Start, clientVars
  <2>2. QED
    BY <1>1, <2>1
       DEF OutageInv, NewHasNoOutcome, DownIsSeen, BrokenIsSeen, FailedIsSeen, UnderWay
<1>4. CASE \E k \in Conn : Daemon(k)
  <2>1. PICK k \in Conn : Daemon(k)
    BY <1>4
  <2>2. UNCHANGED <<up, outage>>
    BY <2>1 DEF Daemon, Serve, Respond, Refuse, NotText, EndOfFile, daemonVars, clientVars
  <2>3. \A l \in Conn : conn[l].open /\ l = retry => conn'[l].alive = conn[l].alive
    <3>1. CASE EndOfFile(k)
      BY <3>1 DEF EndOfFile, BaseInv, TypeOK
    <3>2. CASE Serve(k) \/ Respond(k) \/ Refuse(k)
      BY <3>2, ServeProperties, RespondProperties, RefuseProperties DEF BaseInv
    <3>3. CASE NotText(k)
      <4>1. Malformed = Head(conn[k].requests) /\ conn[k].requests # <<>>
        BY <3>3 DEF NotText
      <4>2. conn[k].requests \in Seq(Request)
        BY DEF BaseInv, TypeOK, Connection
      <4>3. 1 \in DOMAIN conn[k].requests /\ conn[k].requests[1] = Malformed
        BY <4>1, <4>2, HeadTailProperties, LenProperties, EmptySeq
      <4>4. k # retry
        BY <4>3 DEF RetryClean, Clean
      <4>5. QED
        BY <3>3, <4>4, NotTextProperties DEF BaseInv
    <3>4. QED
      BY <2>1, <3>1, <3>2, <3>3 DEF Daemon
  <2>4. ASSUME NEW c \in Call, pc[c] \in {"resend", "receive again"}, ~conn'[retry].alive
        PROVE  outage[c]
    <3>1. retry \in Conn /\ conn[retry].open
      BY <2>4 DEF BaseInv, UseInv, RetryWhen, InUseOpen, TypeOK
    <3>2. QED
      BY <2>3, <2>4, <3>1 DEF OutageInv, BrokenIsSeen
  <2>5. QED
    BY <1>1, <2>2, <2>4
       DEF OutageInv, NewHasNoOutcome, DownIsSeen, BrokenIsSeen, FailedIsSeen, UnderWay
<1>5. QED
  BY <1>2, <1>3, <1>4

LEMMA NextOutage == BaseInv /\ RetryClean /\ OutageInv /\ [Next]_vars => OutageInv'
<1> SUFFICES ASSUME BaseInv, RetryClean, OutageInv, [Next]_vars PROVE OutageInv'
  OBVIOUS
<1>1. CASE UNCHANGED vars
  BY <1>1
     DEF vars, OutageInv, NewHasNoOutcome, DownIsSeen, BrokenIsSeen, FailedIsSeen, UnderWay
<1>2. QED
  BY <1>1, IssueOutage, StepOutage, CancelOutage, DaemonOutage DEF Next

-----------------------------------------------------------------------------
(* A command is carried out at most once in a run of the daemon             *)

(* The line of a call waits somewhere in the daemon; its command has been   *)
(* carried out in the present run; the daemon of this run has not been told *)
(* of it.                                                                   *)
Asked(c) == \E k \in Conn : \E i \in DOMAIN conn[k].requests : conn[k].requests[i] = c
Ran(c) == \E i \in DOMAIN executed[c] : executed[c][i] = run
Unsent(c) ==
  \/ pc[c] \in {"new", "waiting", "send", "reconnect", "resend"}
  \/ pc[c] = "receive" /\ ~conn[kept].alive

RunsArePast == \A c \in Call : \A i \in DOMAIN executed[c] : executed[c][i] <= run
AskedOnce ==
  \A c \in Call, k, l \in Conn : \A i \in DOMAIN conn[k].requests, j \in DOMAIN conn[l].requests :
    conn[k].requests[i] = c /\ conn[l].requests[j] = c => k = l /\ i = j
AskedNotRun == \A c \in Call : Asked(c) => ~Ran(c)
UnsentIsNew == \A c \in Call : Unsent(c) => ~Asked(c) /\ ~Ran(c)
OnceInv == RunsArePast /\ AskedOnce /\ AskedNotRun /\ UnsentIsNew /\ AtMostOncePerRun

(* The line of a call that waits for its first answer is the last on the    *)
(* kept connection, and has not been carried out as long as one before it   *)
(* is spoilt.                                                               *)
LastLine ==
  \A c \in Call : pc[c] = "receive" =>
    \A k \in Conn : \A i \in DOMAIN conn[k].requests :
      conn[k].requests[i] = c => k = kept /\ i = Len(conn[k].requests)
Spoilt(k) == \E i \in DOMAIN conn[k].requests : conn[k].requests[i] = Malformed
SpoiltNotRun == \A c \in Call : pc[c] = "receive" => \A k \in Conn : k = kept /\ Spoilt(k) => ~Ran(c)
TailInv == LastLine /\ SpoiltNotRun

(* A step that writes no line and carries nothing out.                      *)
LEMMA NoLineOnce ==
  ASSUME OnceInv, UNCHANGED <<run, executed>>,
         \A k \in Conn : conn'[k].requests = conn[k].requests \/ conn'[k].requests = <<>>,
         \A c \in Call : Unsent(c)' => ~Asked(c) /\ ~Ran(c)
  PROVE  OnceInv'
<1>1. DOMAIN <<>> = {}
  OBVIOUS
<1>2. \A c \in Call : (Ran(c)' <=> Ran(c)) /\ (Asked(c)' => Asked(c))
  BY <1>1 DEF Ran, Asked
<1>3. RunsArePast' /\ AtMostOncePerRun'
  BY DEF OnceInv, RunsArePast, AtMostOncePerRun
<1>4. AskedOnce'
  BY <1>1 DEF OnceInv, AskedOnce
<1>5. AskedNotRun' /\ UnsentIsNew'
  BY <1>2 DEF OnceInv, AskedNotRun, UnsentIsNew
<1>6. QED
  BY <1>3, <1>4, <1>5 DEF OnceInv

(* A call writes its line on a connection that is not broken.               *)
LEMMA LineOnce ==
  ASSUME BaseInv, OnceInv, NEW c \in Call, UnderWay(c), NEW k \in Conn,
         pc[c] \in {"send", "resend"}, conn' = Written(k, c),
         UNCHANGED <<run, executed>>,
         \A d \in Call : Unsent(d)' => d # c /\ Unsent(d)
  PROVE  OnceInv'
<1> DEFINE r == conn[k].requests  line == IF conn[k].half THEN Malformed ELSE c
<1>1. /\ conn'[k].requests = Append(r, line)
      /\ \A l \in Conn : l # k => conn'[l].requests = conn[l].requests
  BY WrittenProperties DEF BaseInv
<1>2. r \in Seq(Request) /\ line \in Request
  BY DEF BaseInv, TypeOK, Connection, Request
<1>3. /\ Len(r) \in Nat /\ DOMAIN r = 1 .. Len(r)
      /\ DOMAIN Append(r, line) = 1 .. Len(r) + 1
      /\ Append(r, line)[Len(r) + 1] = line
      /\ \A i \in 1 .. Len(r) : Append(r, line)[i] = r[i]
  <2> HIDE DEF r, line
  <2>1. QED
    BY <1>2, LenProperties
<1>4. \A i \in 1 .. Len(r) + 1 : i \in 1 .. Len(r) \/ i = Len(r) + 1
  BY <1>3
<1>5. ~Asked(c) /\ ~Ran(c)
  BY DEF OnceInv, UnsentIsNew, Unsent
<1>6. \A d \in Call : line = d => d = c
  BY NoneAssumption
<1> HIDE DEF r, line
<1>7. \A d \in Call : Ran(d)' <=> Ran(d)
  BY DEF Ran
<1>8. ASSUME NEW d \in Call, d # c, Asked(d)'
      PROVE  Asked(d)
  <2>1. PICK l \in Conn : \E i \in DOMAIN conn'[l].requests : conn'[l].requests[i] = d
    BY <1>8 DEF Asked
  <2>2. PICK i \in DOMAIN conn'[l].requests : conn'[l].requests[i] = d
    BY <2>1
  <2>3. CASE l = k
    <3>1. i \in 1 .. Len(r) + 1 /\ Append(r, line)[i] = d
      BY <1>1, <1>3, <2>2, <2>3
    <3>2. i \in 1 .. Len(r) /\ r[i] = d
      BY <1>3, <1>4, <1>6, <1>8, <3>1
    <3>3. QED
      BY <1>3, <3>2 DEF Asked, r
  <2>4. CASE l # k
    BY <1>1, <2>2, <2>4 DEF Asked
  <2>5. QED
    BY <2>3, <2>4
<1>9. ASSUME NEW d \in Call, NEW l \in Conn, NEW m \in Conn,
             NEW i \in DOMAIN conn'[l].requests, NEW j \in DOMAIN conn'[m].requests,
             conn'[l].requests[i] = d, conn'[m].requests[j] = d
      PROVE  l = m /\ i = j
  <2>1. ASSUME NEW x \in Conn, NEW y \in DOMAIN conn'[x].requests, conn'[x].requests[y] = d
        PROVE  \/ d # c /\ y \in DOMAIN conn[x].requests /\ conn[x].requests[y] = d
               \/ d = c /\ x = k /\ y = Len(r) + 1
    <3>1. CASE x # k
      BY <1>1, <1>5, <2>1, <3>1 DEF Asked
    <3>2. CASE x = k
      <4>1. y \in 1 .. Len(r) + 1 /\ Append(r, line)[y] = d
        BY <1>1, <1>3, <2>1, <3>2
      <4>2. CASE y \in 1 .. Len(r)
        <5>1. y \in DOMAIN conn[k].requests /\ conn[k].requests[y] = d
          BY <1>3, <4>1, <4>2 DEF r
        <5>2. QED
          BY <1>5, <3>2, <5>1 DEF Asked
      <4>3. CASE y = Len(r) + 1
        BY <1>3, <1>6, <3>2, <4>1, <4>3
      <4>4. QED
        BY <1>4, <4>1, <4>2, <4>3
    <3>3. QED
      BY <3>1, <3>2
  <2>2. CASE d = c
    BY <1>9, <2>1, <2>2
  <2>3. CASE d # c
    <3>1. /\ i \in DOMAIN conn[l].requests /\ conn[l].requests[i] = d
          /\ j \in DOMAIN conn[m].requests /\ conn[m].requests[j] = d
      BY <1>9, <2>1, <2>3
    <3>2. QED
      BY <3>1 DEF OnceInv, AskedOnce
  <2>4. QED
    BY <2>2, <2>3
<1>10. AskedOnce'
  BY <1>9 DEF AskedOnce
<1>11. RunsArePast' /\ AtMostOncePerRun'
  BY DEF OnceInv, RunsArePast, AtMostOncePerRun
<1>12. AskedNotRun'
  BY <1>5, <1>7, <1>8 DEF OnceInv, AskedNotRun
<1>13. UnsentIsNew'
  BY <1>7, <1>8 DEF OnceInv, UnsentIsNew
<1>14. QED
  BY <1>10, <1>11, <1>12, <1>13 DEF OnceInv

(* The daemon takes the first line of a connection.                         *)
LEMMA TakenProperties ==
  ASSUME BaseInv, OnceInv, NEW k \in Conn, conn[k].requests # <<>>,
         conn'[k].requests = Tail(conn[k].requests),
         \A l \in Conn : l # k => conn'[l].requests = conn[l].requests
  PROVE  /\ \A c \in Call : Asked(c)' => Asked(c)
         /\ \A c \in Call : c = Head(conn[k].requests) => Asked(c) /\ ~Asked(c)'
         /\ AskedOnce'
<1> DEFINE r == conn[k].requests
<1>1. r \in Seq(Request)
  BY DEF BaseInv, TypeOK, Connection
<1>2. /\ Len(r) \in Nat /\ DOMAIN r = 1 .. Len(r) /\ 1 \in 1 .. Len(r) /\ r[1] = Head(r)
      /\ DOMAIN Tail(r) = 1 .. Len(r) - 1
      /\ \A i \in 1 .. Len(r) - 1 : i + 1 \in 1 .. Len(r) /\ i + 1 # 1 /\ Tail(r)[i] = r[i + 1]
  <2> HIDE DEF r
  <2>1. r # <<>>
    BY DEF r
  <2>2. Len(r) \in Nat /\ DOMAIN r = 1 .. Len(r) /\ Len(r) # 0 /\ Head(r) = r[1]
    BY <1>1, <2>1, LenProperties
  <2>3. /\ Tail(r) \in Seq(Request) /\ Len(Tail(r)) = Len(r) - 1
        /\ \A i \in 1 .. Len(Tail(r)) : Tail(r)[i] = r[i + 1]
    BY <1>1, <2>1, HeadTailProperties
  <2>4. DOMAIN Tail(r) = 1 .. Len(r) - 1
    BY <2>3, LenProperties
  <2>5. 1 \in 1 .. Len(r)
    BY <2>2
  <2>6. \A i \in 1 .. Len(r) - 1 : i + 1 \in 1 .. Len(r) /\ i + 1 # 1 /\ i \in 1 .. Len(Tail(r))
    BY <2>2, <2>3
  <2>7. QED
    BY <2>2, <2>3, <2>4, <2>5, <2>6
<1>3. conn'[k].requests = Tail(r)
  OBVIOUS
<1> DEFINE old(l, i) == IF l = k THEN i + 1 ELSE i
<1>4. ASSUME NEW l \in Conn, NEW i \in DOMAIN conn'[l].requests
      PROVE  /\ old(l, i) \in DOMAIN conn[l].requests
             /\ conn'[l].requests[i] = conn[l].requests[old(l, i)]
             /\ l = k => old(l, i) # 1 /\ i \in Nat
  <2>1. CASE l = k
    <3>1. i \in 1 .. Len(r) - 1 /\ conn'[l].requests[i] = Tail(r)[i]
      BY <1>2, <1>3, <2>1
    <3>2. /\ i + 1 \in DOMAIN r /\ i + 1 # 1 /\ Tail(r)[i] = r[i + 1]
          /\ i \in Nat
      BY <1>2, <3>1
    <3>3. old(l, i) = i + 1
      BY <2>1
    <3>4. QED
      BY <2>1, <3>1, <3>2, <3>3
  <2>2. CASE l # k
    BY <2>2
  <2>3. QED
    BY <2>1, <2>2
<1>5. ASSUME NEW c \in Call, Asked(c)'
      PROVE  /\ Asked(c)
             /\ c # Head(r)
  <2>1. PICK l \in Conn : \E i \in DOMAIN conn'[l].requests : conn'[l].requests[i] = c
    BY <1>5 DEF Asked
  <2>2. PICK i \in DOMAIN conn'[l].requests : conn'[l].requests[i] = c
    BY <2>1
  <2>3. /\ old(l, i) \in DOMAIN conn[l].requests /\ conn[l].requests[old(l, i)] = c
        /\ l = k => old(l, i) # 1
    BY <1>4, <2>2
  <2>4. Asked(c)
    BY <2>3 DEF Asked
  <2>5. c # Head(r)
    <3>1. SUFFICES ASSUME c = Head(r) PROVE FALSE
      OBVIOUS
    <3>2. 1 \in DOMAIN conn[k].requests /\ conn[k].requests[1] = c
      BY <1>2, <3>1
    <3>3. l = k /\ old(l, i) = 1
      <4> HIDE DEF old
      <4>1. QED
        BY <2>3, <3>2 DEF OnceInv, AskedOnce
    <3>4. QED
      BY <2>3, <3>3
  <2>6. QED
    BY <2>4, <2>5
<1>6. ASSUME NEW c \in Call, c = Head(r)
      PROVE  Asked(c) /\ ~Asked(c)'
  <2>1. 1 \in DOMAIN conn[k].requests /\ conn[k].requests[1] = c
    BY <1>2, <1>6
  <2>2. Asked(c)
    BY <2>1 DEF Asked
  <2>3. QED
    BY <1>5, <1>6, <2>2
<1>7. AskedOnce'
  <2>1. ASSUME NEW c \in Call, NEW l \in Conn, NEW m \in Conn,
               NEW i \in DOMAIN conn'[l].requests, NEW j \in DOMAIN conn'[m].requests,
               conn'[l].requests[i] = c, conn'[m].requests[j] = c
        PROVE  l = m /\ i = j
    <3>1. /\ old(l, i) \in DOMAIN conn[l].requests /\ conn[l].requests[old(l, i)] = c
          /\ old(m, j) \in DOMAIN conn[m].requests /\ conn[m].requests[old(m, j)] = c
      BY <1>4, <2>1
    <3>2. l = m /\ old(l, i) = old(m, j)
      <4> HIDE DEF old
      <4>1. QED
        BY <3>1 DEF OnceInv, AskedOnce
    <3>3. l = k => i \in Nat /\ j \in Nat
      BY <1>4, <3>2
    <3>4. QED
      BY <3>2, <3>3
  <2>2. QED
    BY <2>1 DEF AskedOnce
<1>8. QED
  BY <1>5, <1>6, <1>7

(* A step after which every call that is still unsent was unsent before.    *)
LEMMA QuietOnce ==
  ASSUME OnceInv, UNCHANGED <<run, executed>>,
         \A k \in Conn : conn'[k].requests = conn[k].requests \/ conn'[k].requests = <<>>,
         \A c \in Call : Unsent(c)' => Unsent(c)
  PROVE  OnceInv'
<1>1. \A c \in Call : Unsent(c)' => ~Asked(c) /\ ~Ran(c)
  BY DEF OnceInv, UnsentIsNew
<1>2. QED
  BY <1>1, NoLineOnce

LEMMA DroppedRequests ==
  ASSUME TypeOK, NEW k \in Conn, conn' = Dropped(k)
  PROVE  \A l \in Conn : conn'[l].requests = conn[l].requests \/ conn'[l].requests = <<>>
<1>1. Free.requests = <<>>
  BY DEF Free
<1>2. QED
  BY <1>1, DroppedProperties

(* Who has returned has nothing left to send.                               *)
LEMMA Gone ==
  ASSUME BaseInv, NEW c \in Call, pc' = [pc EXCEPT ![c] = "returned"]
  PROVE  "returned" \in Places /\ ~Unsent(c)'
BY DEF Unsent, Places, BaseInv, TypeOK

LEMMA CallOnce ==
  ASSUME BaseInv, OnceInv, NEW c \in Call, Issue(c) \/ Step(c) \/ Cancel(c)
  PROVE  OnceInv'
<1>1. UNCHANGED <<run, executed>>
  BY DEF Issue, Step, Acquire, Send, Receive, Lose, Reconnect, Resend, ReceiveAgain, LoseAgain,
         Cancel, daemonVars
<1>2. ASSUME Holds(c), NEW where \in Places, pc' = [pc EXCEPT ![c] = where],
             \A d \in Call : Unsent(d)' /\ d = c => Unsent(c)
      PROVE  \A d \in Call : Unsent(d)' => Unsent(d)
  <2>1. \A d \in Call : pc'[d] = IF d = c THEN where ELSE pc[d]
    BY <1>2 DEF BaseInv, TypeOK
  <2>2. \A d \in Call : d # c => pc[d] \notin Inside
    BY <1>2, Alone DEF BaseInv
  <2>3. QED
    BY <1>2, <2>1, <2>2 DEF Unsent, Inside
<1>3. CASE Issue(c)
  <2>1. UNCHANGED <<kept, conn>> /\ pc[c] = "new" /\ pc' = [pc EXCEPT ![c] = "waiting"]
    BY <1>3 DEF Issue, Go
  <2>2. \A d \in Call : pc'[d] = IF d = c THEN "waiting" ELSE pc[d]
    BY <2>1 DEF BaseInv, TypeOK
  <2>3. \A d \in Call : Unsent(d)' => Unsent(d)
    BY <2>1, <2>2 DEF Unsent
  <2>4. QED
    BY <1>1, <2>1, <2>3, QuietOnce
<1>4. CASE Acquire(c)
  <2>1. pc[c] = "waiting" /\ Holds(c)
    BY <1>4 DEF Acquire
  <2>2. \E where \in {"send", "returned"} : pc' = [pc EXCEPT ![c] = where]
    BY <1>4 DEF Acquire, Return, Go
  <2>3. \A d \in Call : Unsent(d)' => Unsent(d)
    BY <1>2, <2>1, <2>2 DEF Unsent, Places, Inside
  <2>4. \A k \in Conn : conn'[k].requests = conn[k].requests \/ conn'[k].requests = <<>>
    <3>1. CASE UNCHANGED conn
      BY <3>1
    <3>2. CASE Unused # {} /\ kept' = (CHOOSE k \in Unused : TRUE) /\ conn' = Opened(kept')
      <4>1. PICK k \in Conn : k = kept'
        BY <3>2 DEF Unused
      <4>2. QED
        BY <3>2, <4>1, OpenedProperties DEF BaseInv
    <3>3. QED
      BY <1>4, <3>1, <3>2 DEF Acquire
  <2>5. QED
    BY <1>1, <2>3, <2>4, QuietOnce
<1>5. CASE Send(c)
  <2>1. /\ pc[c] = "send" /\ Holds(c) /\ conn[kept].alive /\ conn' = Written(kept, c)
        /\ UNCHANGED kept /\ pc' = [pc EXCEPT ![c] = "receive"]
    BY <1>5 DEF Send, Go, Broken
  <2>2. kept \in Conn
    BY <2>1 DEF BaseInv, UseInv, KeptWhen, TypeOK
  <2>3. conn'[kept].alive
    BY <2>1, <2>2, WrittenProperties DEF BaseInv
  <2>4. /\ \A d \in Call : pc'[d] = IF d = c THEN "receive" ELSE pc[d]
        /\ \A d \in Call : d # c => pc[d] \notin Inside
    BY <2>1, Alone DEF BaseInv, TypeOK
  <2>5. ASSUME NEW d \in Call, Unsent(d)'
        PROVE  d # c /\ Unsent(d)
    <3>1. kept' = kept
      BY <2>1
    <3>2. ~Unsent(c)'
      BY <2>3, <2>4, <3>1 DEF Unsent
    <3>3. d # c /\ pc'[d] = pc[d] /\ pc[d] # "receive"
      BY <2>4, <2>5, <3>2 DEF Inside
    <3>4. QED
      BY <2>5, <3>3 DEF Unsent
  <2>6. QED
    BY <1>1, <2>1, <2>2, <2>5, LineOnce DEF UnderWay
<1>6. CASE Resend(c)
  <2>1. /\ pc[c] = "resend" /\ Holds(c) /\ conn' = Written(retry, c)
        /\ UNCHANGED kept /\ pc' = [pc EXCEPT ![c] = "receive again"]
    BY <1>6 DEF Resend, Go
  <2>2. retry \in Conn
    BY <2>1 DEF BaseInv, UseInv, RetryWhen, TypeOK
  <2>3. /\ \A d \in Call : pc'[d] = IF d = c THEN "receive again" ELSE pc[d]
        /\ \A d \in Call : d # c => pc[d] \notin Inside
    BY <2>1, Alone DEF BaseInv, TypeOK
  <2>4. \A d \in Call : Unsent(d)' => d # c /\ Unsent(d)
    BY <2>3 DEF Unsent, Inside
  <2>5. QED
    BY <1>1, <2>1, <2>2, <2>4, LineOnce DEF UnderWay
<1>7. CASE Receive(c)
  <2>1. /\ Holds(c) /\ pc[c] = "receive" /\ pc' = [pc EXCEPT ![c] = "returned"]
        /\ conn[kept].answers # <<>> /\ conn' = [conn EXCEPT ![kept].answers = Rest(@)]
    BY <1>7 DEF Receive, Return, Go
  <2>2. kept \in Conn
    BY <2>1 DEF BaseInv, UseInv, KeptWhen, TypeOK
  <2>3. \A k \in Conn : conn'[k].requests = conn[k].requests
    BY <2>1, <2>2, ReadProperties DEF BaseInv
  <2>4. \A d \in Call : Unsent(d)' => Unsent(d)
    BY <1>2, <2>1, Gone
  <2>5. QED
    BY <1>1, <2>3, <2>4, QuietOnce
<1>8. CASE Lose(c)
  <2>1. /\ Holds(c) /\ pc[c] \in {"send", "receive"} /\ pc' = [pc EXCEPT ![c] = "reconnect"]
        /\ ~conn[kept].alive /\ conn' = Dropped(kept)
    BY <1>8 DEF Lose, Go, Retried, Broken
  <2>2. kept \in Conn
    BY <2>1 DEF BaseInv, UseInv, KeptWhen, TypeOK
  <2>3. \A k \in Conn : conn'[k].requests = conn[k].requests \/ conn'[k].requests = <<>>
    <3>1. Free.requests = <<>>
      BY DEF Free
    <3>2. QED
      BY <2>1, <2>2, <3>1, DroppedProperties DEF BaseInv
  <2>4. Unsent(c)
    BY <2>1 DEF Unsent
  <2>5. \A d \in Call : Unsent(d)' => Unsent(d)
    BY <1>2, <2>1, <2>4 DEF Places, Inside
  <2>6. QED
    BY <1>1, <2>3, <2>5, QuietOnce
<1>9. CASE Reconnect(c)
  <2>1. pc[c] = "reconnect" /\ Holds(c)
    BY <1>9 DEF Reconnect
  <2>2. \E where \in {"resend", "returned"} : pc' = [pc EXCEPT ![c] = where]
    BY <1>9 DEF Reconnect, Return, Go
  <2>3. \A d \in Call : Unsent(d)' => Unsent(d)
    BY <1>2, <2>1, <2>2 DEF Unsent, Places, Inside
  <2>4. \A k \in Conn : conn'[k].requests = conn[k].requests \/ conn'[k].requests = <<>>
    <3>1. CASE UNCHANGED conn
      BY <3>1
    <3>2. CASE Unused # {} /\ retry' = (CHOOSE k \in Unused : TRUE) /\ conn' = Opened(retry')
      <4>1. PICK k \in Conn : k = retry'
        BY <3>2 DEF Unused
      <4>2. QED
        BY <3>2, <4>1, OpenedProperties DEF BaseInv
    <3>3. QED
      BY <1>9, <3>1, <3>2 DEF Reconnect
  <2>5. QED
    BY <1>1, <2>3, <2>4, QuietOnce
<1>10. CASE ReceiveAgain(c) \/ LoseAgain(c)
  <2>1. /\ Holds(c) /\ pc[c] \in {"resend", "receive again"}
        /\ pc' = [pc EXCEPT ![c] = "returned"]
        /\ \/ conn[retry].answers # <<>> /\ conn' = [conn EXCEPT ![retry].answers = Rest(@)]
           \/ conn' = Dropped(retry)
    BY <1>10 DEF ReceiveAgain, LoseAgain, Return, Go
  <2>2. retry \in Conn
    BY <2>1 DEF BaseInv, UseInv, RetryWhen, TypeOK
  <2>3. \A k \in Conn : conn'[k].requests = conn[k].requests \/ conn'[k].requests = <<>>
    BY <2>1, <2>2, DroppedRequests, ReadProperties DEF BaseInv
  <2>4. \A d \in Call : Unsent(d)' => Unsent(d)
    BY <1>2, <2>1, Gone
  <2>5. QED
    BY <1>1, <2>3, <2>4, QuietOnce
<1>11. CASE Cancel(c)
  <2>1. pc' = [pc EXCEPT ![c] = "cancelled"] /\ UNCHANGED kept /\ UnderWay(c)
    BY <1>11 DEF Cancel, Go
  <2>2. \A d \in Call : pc'[d] = IF d = c THEN "cancelled" ELSE pc[d]
    BY <2>1 DEF BaseInv, TypeOK
  <2>3. \A k \in Conn : conn'[k].requests = conn[k].requests \/ conn'[k].requests = <<>>
    <3>1. CASE pc[c] = "send" /\ conn' = [conn EXCEPT ![kept].half = TRUE]
      <4>1. kept \in Conn
        BY <3>1 DEF BaseInv, UseInv, KeptWhen, TypeOK
      <4>2. QED
        BY <3>1, <4>1, HalfProperties DEF BaseInv
    <3>2. CASE pc[c] \in {"resend", "receive again"} /\ conn' = Dropped(retry)
      <4>1. retry \in Conn
        BY <3>2 DEF BaseInv, UseInv, RetryWhen, TypeOK
      <4>2. QED
        BY <3>2, <4>1, DroppedRequests DEF BaseInv
    <3>3. CASE UNCHANGED conn
      BY <3>3
    <3>4. CASE /\ pc[c] = "receive" /\ conn[kept].answers # <<>>
               /\ conn' = [conn EXCEPT ![kept].answers = Torn(@, 1)]
      <4>1. kept \in Conn
        BY <3>4 DEF BaseInv, UseInv, KeptWhen, TypeOK
      <4>2. QED
        BY <3>4, <4>1, HalfReadProperties DEF BaseInv
    <3>5. QED
      BY <1>11, <3>1, <3>2, <3>3, <3>4 DEF Cancel
  <2>4. ASSUME NEW d \in Call, Unsent(d)'
        PROVE  Unsent(d)
    <3>1. d # c /\ pc'[d] = pc[d]
      BY <2>2, <2>4 DEF Unsent
    <3>2. CASE pc[d] = "receive"
      <4>1. pc[c] \notin Inside
        BY <3>1, <3>2 DEF BaseInv, MutexInv, OneInside, Holds, Inside
      <4>2. UNCHANGED conn
        BY <1>11, <4>1 DEF Cancel, Inside
      <4>3. QED
        BY <2>1, <2>4, <3>1, <4>2 DEF Unsent
    <3>3. CASE pc[d] # "receive"
      BY <2>4, <3>1, <3>3 DEF Unsent
    <3>4. QED
      BY <3>2, <3>3
  <2>5. QED
    BY <1>1, <2>3, <2>4, QuietOnce
<1>12. QED
  BY <1>3, <1>4, <1>5, <1>6, <1>7, <1>8, <1>9, <1>10, <1>11 DEF Step

(* What becomes of a line and of what is before it.                         *)
LEMMA LinesShrink ==
  ASSUME NEW q \in Seq(Request), NEW r,
         r = q \/ r = <<>> \/ (q # <<>> /\ r = Tail(q))
  PROVE  \A i \in DOMAIN r :
           \E j \in DOMAIN q : q[j] = r[i] /\ (j = Len(q) => i = Len(r))
<1>1. CASE r = q
  BY <1>1
<1>2. CASE r = <<>>
  BY <1>2, EmptyDomain
<1>3. CASE q # <<>> /\ r = Tail(q)
  <2>1. \A i \in DOMAIN r : i + 1 \in DOMAIN q /\ r[i] = q[i + 1]
    BY <1>3, TailElements
  <2>2. Len(r) = Len(q) - 1 /\ Len(q) \in Nat /\ DOMAIN r = 1 .. Len(r)
    BY <1>3, HeadTailProperties, LenProperties
  <2>3. ASSUME NEW i \in DOMAIN r
        PROVE  \E j \in DOMAIN q : q[j] = r[i] /\ (j = Len(q) => i = Len(r))
    <3>1. i \in Nat /\ (i + 1 = Len(q) => i = Len(r))
      BY <2>2, <2>3
    <3>2. QED
      BY <2>1, <2>3, <3>1
  <2>4. QED
    BY <2>3
<1>4. QED
  BY <1>1, <1>2, <1>3

LEMMA ShrinkTail ==
  ASSUME BaseInv, TailInv,
         \A c \in Call : pc'[c] = "receive" => pc[c] = "receive" /\ kept' = kept,
         \A k \in Conn : \/ conn'[k].requests = conn[k].requests
                         \/ conn'[k].requests = <<>>
                         \/ conn[k].requests # <<>> /\ conn'[k].requests = Tail(conn[k].requests),
         \A c \in Call : pc[c] = "receive" =>
           \A k \in Conn : k = kept /\ Spoilt(k)' => (Ran(c)' => Ran(c))
  PROVE  TailInv'
<1>1. \A k \in Conn : conn[k].requests \in Seq(Request)
  BY DEF BaseInv, TypeOK, Connection
<1>2. \A k \in Conn : \A i \in DOMAIN conn'[k].requests :
        \E j \in DOMAIN conn[k].requests :
          /\ conn[k].requests[j] = conn'[k].requests[i]
          /\ j = Len(conn[k].requests) => i = Len(conn'[k].requests)
  <2> TAKE k \in Conn
  <2> DEFINE q == conn[k].requests  rest == conn'[k].requests
  <2>1. q \in Seq(Request) /\ (rest = q \/ rest = <<>> \/ (q # <<>> /\ rest = Tail(q)))
    BY <1>1
  <2> HIDE DEF q, rest
  <2>2. \A i \in DOMAIN rest : \E j \in DOMAIN q : q[j] = rest[i] /\ (j = Len(q) => i = Len(rest))
    BY <2>1, LinesShrink
  <2>3. QED
    BY <2>2 DEF q, rest
<1>3. LastLine'
  BY <1>2 DEF TailInv, LastLine
<1>4. \A k \in Conn : Spoilt(k)' => Spoilt(k)
  BY <1>2 DEF Spoilt
<1>5. SpoiltNotRun'
  BY <1>4 DEF TailInv, SpoiltNotRun
<1>6. QED
  BY <1>3, <1>5 DEF TailInv

LEMMA SendTail ==
  ASSUME BaseInv, OnceInv, TailInv, NEW c \in Call, Send(c)
  PROVE  TailInv'
<1>1. /\ pc[c] = "send" /\ Holds(c) /\ conn' = Written(kept, c)
      /\ UNCHANGED <<kept, run, executed>> /\ pc' = [pc EXCEPT ![c] = "receive"]
  BY DEF Send, Go, daemonVars
<1>2. PICK k \in Conn : k = kept
  BY <1>1 DEF BaseInv, UseInv, KeptWhen, TypeOK
<1>3. \A d \in Call : pc'[d] = "receive" <=> d = c
  BY <1>1, Alone DEF BaseInv, TypeOK, Inside
<1>4. ~Asked(c) /\ ~Ran(c) /\ ~Ran(c)'
  BY <1>1 DEF OnceInv, UnsentIsNew, Unsent, Ran
<1> DEFINE q == conn[k].requests  line == IF conn[k].half THEN Malformed ELSE c
<1>5. q \in Seq(Request) /\ line \in Request
  BY DEF BaseInv, TypeOK, Connection, Request
<1>6. /\ conn'[k].requests = Append(q, line)
      /\ \A l \in Conn : l # k => conn'[l].requests = conn[l].requests
  BY <1>1, <1>2, WrittenProperties DEF BaseInv
<1>7. \A l \in Conn : \A i \in DOMAIN conn[l].requests : conn[l].requests[i] # c
  BY <1>4 DEF Asked
<1>8. \A i \in DOMAIN q : q[i] # c
  BY <1>7
<1> HIDE DEF q, line
<1>9. Len(Append(q, line)) = Len(q) + 1
  BY <1>5, AppendProperties
<1>10. \A i \in DOMAIN Append(q, line) : Append(q, line)[i] = c => i = Len(Append(q, line))
  BY <1>5, <1>8, <1>9, AppendElements
<1>11. LastLine'
  BY <1>1, <1>2, <1>3, <1>6, <1>7, <1>10 DEF LastLine
<1>12. SpoiltNotRun'
  BY <1>3, <1>4 DEF SpoiltNotRun
<1>13. QED
  BY <1>11, <1>12 DEF TailInv

LEMMA CallTail ==
  ASSUME BaseInv, OnceInv, TailInv, NEW c \in Call, Issue(c) \/ Step(c) \/ Cancel(c)
  PROVE  TailInv'
<1> USE DEF BaseInv
<1>1. \A d \in Call : Ran(d)' <=> Ran(d)
  BY DEF Issue, Step, Acquire, Send, Receive, Lose, Reconnect, Resend, ReceiveAgain, LoseAgain,
         Cancel, daemonVars, Ran
<1>2. ASSUME UNCHANGED conn, UNCHANGED kept, NEW where \in Places \ {"receive"},
             pc' = [pc EXCEPT ![c] = where]
      PROVE  TailInv'
  <2>1. \A d \in Call : pc'[d] = "receive" => pc[d] = "receive"
    BY <1>2 DEF TypeOK
  <2>2. QED
    BY <1>1, <1>2, <2>1, ShrinkTail
(* The holder of the mutex is the only one that could wait for an answer.   *)
<1>3. ASSUME Holds(c), NEW where \in Places \ {"receive"}, pc' = [pc EXCEPT ![c] = where]
      PROVE  TailInv'
  <2>1. \A d \in Call : pc'[d] # "receive"
    BY <1>3, Alone DEF TypeOK, Inside
  <2>2. QED
    BY <2>1 DEF TailInv, LastLine, SpoiltNotRun
<1>4. CASE Issue(c)
  BY <1>2, <1>4 DEF Issue, Go, Places
<1>5. CASE Send(c)
  BY <1>5, SendTail
<1>6. CASE Acquire(c) \/ Receive(c) \/ Lose(c)
  BY <1>3, <1>6 DEF Acquire, Receive, Lose, Retried, Return, Go, Places, Inside
<1>7. CASE Reconnect(c) \/ Resend(c) \/ ReceiveAgain(c) \/ LoseAgain(c)
  BY <1>3, <1>7 DEF Reconnect, Resend, ReceiveAgain, LoseAgain, Return, Go, Places, Inside
<1>8. CASE Cancel(c)
  <2>1. pc' = [pc EXCEPT ![c] = "cancelled"] /\ UNCHANGED kept
    BY <1>8 DEF Cancel, Go
  <2>2. CASE pc[c] \in Inside
    BY <1>3, <2>1, <2>2 DEF MutexInv, OneInside, Places
  <2>3. CASE pc[c] \notin Inside
    BY <1>2, <1>8, <2>1, <2>3 DEF Cancel, Inside, Places
  <2>4. QED
    BY <2>2, <2>3
<1>9. QED
  BY <1>4, <1>5, <1>6, <1>7, <1>8 DEF Step

LEMMA DaemonTail ==
  ASSUME BaseInv, OnceInv, TailInv, (\E k \in Conn : Daemon(k)) \/ Crash \/ Start
  PROVE  TailInv'
<1>1. UNCHANGED <<pc, kept>>
  BY DEF Daemon, Serve, Respond, Refuse, NotText, EndOfFile, Crash, Start, clientVars
<1>2. ASSUME \A c \in Call : pc[c] = "receive" =>
               \A k \in Conn : k = kept /\ Spoilt(k)' => (Ran(c)' => Ran(c))
      PROVE  TailInv'
  BY <1>1, <1>2, DaemonLines, ShrinkTail
<1>3. CASE UNCHANGED <<run, executed>>
  BY <1>2, <1>3 DEF Ran
<1>4. CASE Crash
  <2>1. \A k \in Conn : conn'[k].requests = <<>>
    BY <1>4, CrashProperties DEF BaseInv, UseInv
  <2>2. \A k \in Conn : ~Spoilt(k)'
    BY <2>1, EmptyDomain DEF Spoilt
  <2>3. QED
    BY <1>2, <2>2
<1>5. ASSUME NEW l \in Conn, Serve(l)
      PROVE  TailInv'
  <2>1. /\ Head(conn[l].requests) \in Call /\ conn[l].requests # <<>> /\ UNCHANGED run
        /\ executed' = [executed EXCEPT ![Head(conn[l].requests)] = Append(@, run)]
        /\ conn'[l].requests = Tail(conn[l].requests)
    BY <1>5, ServeProperties DEF BaseInv, Serve
  <2> DEFINE q == conn[l].requests
  <2>2. q \in Seq(Request) /\ q # <<>>
    BY <2>1 DEF BaseInv, TypeOK, Connection
  <2>3. ASSUME NEW c \in Call, pc[c] = "receive", NEW k \in Conn, k = kept, Spoilt(k)'
        PROVE  Ran(c)' => Ran(c)
    <3>1. CASE c = Head(q)
      <4>1. 1 \in DOMAIN q /\ q[1] = c
        BY <2>2, <3>1, HeadTailProperties, LenProperties, EmptySeq
      <4>2. l = kept /\ 1 = Len(q)
        BY <2>3, <4>1 DEF TailInv, LastLine
      <4>3. Len(Tail(q)) = 0
        BY <2>2, <4>2, HeadTailProperties
      <4>4. DOMAIN Tail(q) = {}
        <5>1. PICK t \in Seq(Request) : t = Tail(q)
          BY <2>2, HeadTailProperties
        <5>2. Len(t) = 0 /\ DOMAIN t = 1 .. Len(t)
          BY <4>3, <5>1, LenProperties
        <5>3. QED
          BY <5>1, <5>2
      <4>5. QED
        BY <2>1, <2>3, <4>2, <4>4 DEF Spoilt
    <3>2. CASE c # Head(q)
      BY <2>1, <3>2 DEF Ran, BaseInv, TypeOK
    <3>3. QED
      BY <3>1, <3>2
  <2>4. QED
    BY <1>2, <2>3
<1>6. QED
  BY <1>3, <1>4, <1>5
     DEF Daemon, Respond, Refuse, NotText, EndOfFile, Start, daemonVars

LEMMA NextTail == BaseInv /\ OnceInv /\ TailInv /\ [Next]_vars => TailInv'
<1> SUFFICES ASSUME BaseInv, OnceInv, TailInv, [Next]_vars PROVE TailInv'
  OBVIOUS
<1>1. CASE UNCHANGED vars
  BY <1>1 DEF vars, TailInv, LastLine, SpoiltNotRun, Spoilt, Ran
<1>2. QED
  BY <1>1, CallTail, DaemonTail DEF Next

LEMMA InitTail == Init => TailInv
BY DEF Init, TailInv, LastLine, SpoiltNotRun

LEMMA DaemonOnce ==
  ASSUME BaseInv, OnceInv, TailInv, (\E k \in Conn : Daemon(k)) \/ Crash \/ Start
  PROVE  OnceInv'
<1>1. UNCHANGED <<pc, kept>>
  BY DEF Daemon, Serve, Respond, Refuse, NotText, EndOfFile, Crash, Start, clientVars
<1>2. ASSUME \A l \in Conn : conn[l].open => conn'[l].alive = conn[l].alive
      PROVE  \A c \in Call : Unsent(c)' => Unsent(c)
  <2>1. \A c \in Call : pc[c] = "receive" => kept \in Conn /\ conn[kept].open
    BY DEF BaseInv, UseInv, KeptWhen, InUseOpen, TypeOK
  <2>2. QED
    BY <1>1, <1>2, <2>1 DEF Unsent
<1>3. CASE Crash
  <2>1. /\ run' = run + 1 /\ UNCHANGED executed /\ run \in Nat
        /\ \A k \in Conn : conn'[k].requests = <<>>
    <3>1. run \in 0 .. MaxCrash
      BY DEF BaseInv, TypeOK
    <3>2. run \in Nat
      BY <3>1, CrashAssumption
    <3>3. run' = run + 1 /\ UNCHANGED executed
      BY <1>3 DEF Crash
    <3>4. TypeOK /\ DeadIsEmpty
      BY DEF BaseInv, UseInv
    <3>5. \A k \in Conn : conn'[k].requests = <<>>
      BY <1>3, <3>4, CrashProperties
    <3>6. QED
      BY <3>2, <3>3, <3>5
  <2>2. \A c \in Call : ~Asked(c)'
    <3>1. DOMAIN <<>> = {}
      OBVIOUS
    <3>2. QED
      BY <2>1, <3>1 DEF Asked
  <2>3. ASSUME NEW c \in Call, NEW i \in DOMAIN executed[c]
        PROVE  executed[c][i] <= run' /\ executed[c][i] # run'
    <3>1. executed[c][i] <= run
      BY DEF OnceInv, RunsArePast
    <3>2. executed[c][i] \in 0 .. MaxCrash
      <4>1. PICK q \in Seq(0 .. MaxCrash) : q = executed[c]
        BY DEF BaseInv, TypeOK
      <4>2. i \in 1 .. Len(q)
        BY <4>1, LenProperties
      <4>3. q[i] \in 0 .. MaxCrash
        BY <4>2, ElementOfSeq
      <4>4. QED
        BY <4>1, <4>3
    <3>3. executed[c][i] \in Int /\ run' = run + 1 /\ run \in Nat
      BY <2>1, <3>2, CrashAssumption
    <3>4. QED
      BY <3>1, <3>3
  <2>4. RunsArePast' /\ \A c \in Call : ~Ran(c)'
    BY <2>1, <2>3 DEF RunsArePast, Ran
  <2>5. AskedOnce'
    <3>1. DOMAIN <<>> = {}
      OBVIOUS
    <3>2. QED
      BY <2>1, <3>1 DEF AskedOnce
  <2>6. AtMostOncePerRun'
    BY <2>1 DEF OnceInv, AtMostOncePerRun
  <2>7. QED
    BY <2>2, <2>4, <2>5, <2>6 DEF OnceInv, AskedNotRun, UnsentIsNew
<1>4. CASE Start
  <2>1. UNCHANGED <<run, executed, conn>>
    BY <1>4 DEF Start, clientVars
  <2>2. QED
    BY <1>2, <2>1, QuietOnce
<1>5. ASSUME NEW k \in Conn, Respond(k) \/ EndOfFile(k)
      PROVE  OnceInv'
  <2>1. UNCHANGED <<run, executed>>
    BY <1>5 DEF Respond, EndOfFile, daemonVars
  <2>2. /\ \A l \in Conn : conn'[l].requests = conn[l].requests \/ conn'[l].requests = <<>>
        /\ \A l \in Conn : conn[l].open => conn'[l].alive = conn[l].alive
    <3>1. CASE Respond(k)
      BY <3>1, RespondProperties DEF BaseInv
    <3>2. CASE EndOfFile(k)
      <4>1. ~conn[k].open /\ \A l \in Conn : conn'[l] = IF l = k THEN Free ELSE conn[l]
        BY <3>2 DEF EndOfFile, BaseInv, TypeOK
      <4>2. Free.requests = <<>>
        BY DEF Free
      <4>3. QED
        BY <4>1, <4>2
    <3>3. QED
      BY <1>5, <3>1, <3>2
  <2>3. QED
    BY <1>2, <2>1, <2>2, QuietOnce
<1>6. ASSUME NEW k \in Conn, Refuse(k)
      PROVE  OnceInv'
  <2>1. UNCHANGED <<run, executed>> /\ conn[k].requests # <<>>
    BY <1>6 DEF Refuse, daemonVars
  <2>2. /\ conn'[k].requests = Tail(conn[k].requests) /\ conn'[k].alive = conn[k].alive
        /\ \A l \in Conn : l # k => conn'[l] = conn[l]
    BY <1>6, RefuseProperties DEF BaseInv
  <2>3. (\A c \in Call : Asked(c)' => Asked(c)) /\ AskedOnce'
    BY <2>1, <2>2, TakenProperties
  <2>4. /\ \A c \in Call : Unsent(c)' => Unsent(c)
        /\ \A c \in Call : Ran(c)' <=> Ran(c)
    BY <1>2, <2>1, <2>2 DEF Ran
  <2>5. RunsArePast' /\ AtMostOncePerRun'
    BY <2>1 DEF OnceInv, RunsArePast, AtMostOncePerRun
  <2>6. QED
    BY <2>3, <2>4, <2>5 DEF OnceInv, AskedNotRun, UnsentIsNew
<1>7. ASSUME NEW k \in Conn, Serve(k)
      PROVE  OnceInv'
  <2>1. UNCHANGED run /\ conn[k].requests # <<>>
    BY <1>7 DEF Serve
  <2>2. /\ Head(conn[k].requests) \in Call
        /\ executed' = [executed EXCEPT ![Head(conn[k].requests)] = Append(@, run)]
        /\ conn'[k].requests = Tail(conn[k].requests) /\ conn'[k].alive = conn[k].alive
        /\ \A l \in Conn : l # k => conn'[l] = conn[l]
    BY <1>7, ServeProperties DEF BaseInv
  <2>3. PICK c \in Call : c = Head(conn[k].requests)
    BY <2>2
  <2>4. /\ \A d \in Call : Asked(d)' => Asked(d)
        /\ Asked(c) /\ ~Asked(c)' /\ AskedOnce'
    BY <2>1, <2>2, <2>3, TakenProperties
  <2>5. ~Ran(c) /\ ~Unsent(c)
    BY <2>4 DEF OnceInv, AskedNotRun, UnsentIsNew
  <2>6. \A d \in Call : Unsent(d)' => Unsent(d)
    BY <1>2, <2>2
  <2>7. executed[c] \in Seq(0 .. MaxCrash) /\ run \in 0 .. MaxCrash
    BY DEF BaseInv, TypeOK
  <2>8. /\ executed'[c] = Append(executed[c], run)
        /\ \A d \in Call : d # c => executed'[d] = executed[d]
    BY <2>2, <2>3 DEF BaseInv, TypeOK
  <2>9. \A d \in Call : d # c => (Ran(d)' <=> Ran(d))
    BY <2>1, <2>8 DEF Ran
  <2>10. \A i \in DOMAIN executed'[c] :
           \/ i \in DOMAIN executed[c] /\ executed'[c][i] = executed[c][i]
           \/ i = Len(executed[c]) + 1 /\ executed'[c][i] = run
    <3>1. PICK q \in Seq(0 .. MaxCrash) : q = executed[c]
      BY <2>7
    <3>2. /\ Len(Append(q, run)) = Len(q) + 1 /\ Append(q, run)[Len(q) + 1] = run
          /\ \A i \in 1 .. Len(q) : Append(q, run)[i] = q[i]
          /\ Append(q, run) \in Seq(0 .. MaxCrash)
      BY <2>7
    <3>3. DOMAIN q = 1 .. Len(q) /\ DOMAIN Append(q, run) = 1 .. Len(q) + 1 /\ Len(q) \in Nat
      BY <3>2, LenProperties
    <3>4. \A i \in 1 .. Len(q) + 1 : i \in 1 .. Len(q) \/ i = Len(q) + 1
      BY <3>3
    <3>5. QED
      BY <2>8, <3>1, <3>2, <3>3, <3>4
  <2>11. RunsArePast'
    <3>1. run <= run
      BY <2>7, CrashAssumption
    <3>2. QED
      BY <2>1, <2>8, <2>10, <3>1 DEF OnceInv, RunsArePast
  <2>12. AtMostOncePerRun'
    <3>1. \A i \in DOMAIN executed[c] : executed[c][i] # run
      BY <2>5 DEF Ran
    <3>2. QED
      BY <2>8, <2>10, <3>1 DEF OnceInv, AtMostOncePerRun
  <2>13. AskedNotRun' /\ UnsentIsNew'
    BY <2>4, <2>5, <2>6, <2>9 DEF OnceInv, AskedNotRun, UnsentIsNew
  <2>14. QED
    BY <2>4, <2>11, <2>12, <2>13 DEF OnceInv
<1>8. ASSUME NEW k \in Conn, NotText(k)
      PROVE  OnceInv'
  <2>1. UNCHANGED <<run, executed>>
    BY <1>8 DEF NotText, daemonVars
  <2>2. /\ Malformed = Head(conn[k].requests) /\ conn[k].requests # <<>>
        /\ conn'[k].requests = <<>>
        /\ \A l \in Conn : l # k => conn'[l] = conn[l]
    BY <1>8, NotTextProperties DEF BaseInv
  <2>3. conn[k].requests \in Seq(Request)
    BY DEF BaseInv, TypeOK, Connection
  <2>4. Spoilt(k)
    BY <2>2, <2>3, HeadTailProperties, LenProperties, EmptySeq DEF Spoilt
  <2>5. \A c \in Call : (Ran(c)' <=> Ran(c)) /\ (Asked(c)' => Asked(c))
    BY <2>1, <2>2, EmptyDomain DEF Ran, Asked
  <2>6. RunsArePast' /\ AtMostOncePerRun'
    BY <2>1 DEF OnceInv, RunsArePast, AtMostOncePerRun
  <2>7. AskedOnce'
    BY <2>2, EmptyDomain DEF OnceInv, AskedOnce
  <2>8. AskedNotRun'
    BY <2>5 DEF OnceInv, AskedNotRun
  <2>9. ASSUME NEW c \in Call, Unsent(c)'
        PROVE  ~Asked(c)' /\ ~Ran(c)'
    <3>1. CASE Unsent(c)
      BY <2>5, <3>1 DEF OnceInv, UnsentIsNew
    <3>2. CASE ~Unsent(c)
      <4>1. pc[c] = "receive" /\ conn[kept].alive /\ ~conn'[kept].alive /\ kept \in Conn
        BY <1>1, <2>9, <3>2 DEF Unsent, BaseInv, UseInv, KeptWhen, TypeOK
      <4>2. k = kept
        BY <2>2, <4>1
      <4>3. ~Ran(c)
        BY <2>4, <4>1, <4>2 DEF TailInv, SpoiltNotRun
      <4>4. \A l \in Conn : \A i \in DOMAIN conn'[l].requests : conn'[l].requests[i] # c
        BY <2>2, <4>1, <4>2, EmptyDomain DEF TailInv, LastLine
      <4>5. QED
        BY <2>5, <4>3, <4>4 DEF Asked
    <3>3. QED
      BY <3>1, <3>2
  <2>10. QED
    BY <2>6, <2>7, <2>8, <2>9 DEF OnceInv, UnsentIsNew
<1>9. QED
  BY <1>3, <1>4, <1>5, <1>6, <1>7, <1>8 DEF Daemon

LEMMA NextOnce == BaseInv /\ OnceInv /\ TailInv /\ [Next]_vars => OnceInv'
<1> SUFFICES ASSUME BaseInv, OnceInv, TailInv, [Next]_vars PROVE OnceInv'
  OBVIOUS
<1>1. CASE \E c \in Call : Issue(c) \/ Step(c) \/ Cancel(c)
  BY <1>1, CallOnce
<1>2. CASE (\E k \in Conn : Daemon(k)) \/ Crash \/ Start
  BY <1>2, DaemonOnce
<1>3. CASE UNCHANGED vars
  <2>1. UNCHANGED <<run, executed, pc, kept, conn>>
    BY <1>3 DEF vars
  <2>2. \A c \in Call : Unsent(c)' => Unsent(c)
    BY <2>1 DEF Unsent
  <2>3. QED
    BY <2>1, <2>2, QuietOnce
<1>4. QED
  BY <1>1, <1>2, <1>3 DEF Next

LEMMA InitOnce == Init => OnceInv
<1> SUFFICES ASSUME Init PROVE OnceInv
  OBVIOUS
<1>1. DOMAIN <<>> = {}
  OBVIOUS
<1>2. /\ \A c \in Call : executed[c] = <<>>
      /\ \A k \in Conn : conn[k].requests = <<>>
  BY DEF Init, Free
<1>3. /\ \A c \in Call : DOMAIN executed[c] = {}
      /\ \A k \in Conn : DOMAIN conn[k].requests = {}
  BY <1>1, <1>2
<1>4. \A c \in Call : ~Asked(c) /\ ~Ran(c)
  BY <1>3 DEF Asked, Ran
<1>5. QED
  BY <1>3, <1>4 DEF OnceInv, RunsArePast, AskedOnce, AskedNotRun, UnsentIsNew, AtMostOncePerRun

LEMMA InitOutage == Init => OutageInv
<1> SUFFICES ASSUME Init PROVE OutageInv
  OBVIOUS
<1>1. up = TRUE /\ \A c \in Call : pc[c] = "new" /\ outcome[c] = None
  BY DEF Init
<1>2. None # Failed
  BY OutcomeAssumption
<1>3. QED
  BY <1>1, <1>2 DEF OutageInv, NewHasNoOutcome, DownIsSeen, BrokenIsSeen, FailedIsSeen,
                    UnderWay

-----------------------------------------------------------------------------
(* Every call gets its own answer                                           *)

(* While nobody has given up, all a connection in use carries is the        *)
(* request of the call that waits on it, or its answer, and nothing at all  *)
(* if nobody waits.                                                         *)
NoCancel == \A c \in Call : pc[c] # "cancelled"
Quiet(k) == conn[k].requests = <<>> /\ conn[k].serving = None /\ conn[k].answers = <<>>
Carries(k, c) ==
  \/ Quiet(k)
  \/ conn[k].requests = <<c>> /\ conn[k].serving = None /\ conn[k].answers = <<>>
  \/ conn[k].requests = <<>> /\ conn[k].serving = c /\ conn[k].answers = <<>>
  \/ /\ conn[k].requests = <<>> /\ conn[k].serving = None
     /\ \E a \in Answer : conn[k].answers = <<a>> /\ a.to = c

NoHalf == \A k \in Conn : ~conn[k].half
KeptCarries ==
  /\ \A c \in Call : pc[c] = "receive" => Carries(kept, c)
  /\ kept # None /\ (\A c \in Call : pc[c] # "receive") => Quiet(kept)
RetryCarries ==
  \A c \in Call : /\ pc[c] = "receive again" => Carries(retry, c)
                  /\ pc[c] = "resend" => Quiet(retry)
OwnAnswers == \A c \in Call : Answered(c) => outcome[c].to = c
AnswerInv == NoCancel => NoHalf /\ KeptCarries /\ RetryCarries /\ OwnAnswers

LEMMA StaysCancelled ==
  ASSUME TypeOK, [Next]_vars, NoCancel'
  PROVE  NoCancel
<1>1. ASSUME NEW c \in Call, pc[c] = "cancelled"
      PROVE  pc'[c] = "cancelled"
  <2>1. CASE UNCHANGED pc
    BY <1>1, <2>1
  <2>2. ASSUME NEW d \in Call, NEW where \in Places, pc[d] # "cancelled",
               pc' = [pc EXCEPT ![d] = where]
        PROVE  pc'[c] = "cancelled"
    BY <1>1, <2>2 DEF TypeOK
  <2>3. ASSUME NEW d \in Call, Issue(d) \/ Step(d) \/ Cancel(d)
        PROVE  pc[d] # "cancelled" /\ \E where \in Places : pc' = [pc EXCEPT ![d] = where]
    BY <2>3 DEF Issue, Step, Acquire, Send, Receive, Lose, Reconnect, Resend, ReceiveAgain,
                LoseAgain, Cancel, Return, Go, UnderWay, Places, Inside
  <2>4. CASE (\E k \in Conn : Daemon(k)) \/ Crash \/ Start \/ UNCHANGED vars
    BY <2>1, <2>4 DEF Daemon, Serve, Respond, Refuse, NotText, EndOfFile, Crash, Start, clientVars, vars
  <2>5. QED
    BY <2>2, <2>3, <2>4 DEF Next
<1>2. QED
  BY <1>1 DEF NoCancel

(* What the daemon does with a connection in use.                           *)
LEMMA ConnectionMoves ==
  ASSUME TypeOK, DeadIsEmpty, (\E l \in Conn : Daemon(l)) \/ Crash \/ Start, NEW k \in Conn
  PROVE  /\ ~conn[k].half => ~conn'[k].half
         /\ Quiet(k) => Quiet(k)'
         /\ \A c \in Call : Carries(k, c) => Carries(k, c)'
<1>1. CASE UNCHANGED conn
  BY <1>1 DEF Quiet, Carries
<1>2. CASE conn'[k] = conn[k]
  BY <1>2 DEF Quiet, Carries
<1>3. CASE conn'[k] = Free
  BY <1>3 DEF Quiet, Carries, Free
<1>4. CASE Crash
  <2>1. /\ conn'[k].half => conn[k].half
        /\ conn'[k].requests = <<>> /\ conn'[k].serving = None
        /\ \/ conn'[k].answers = conn[k].answers
           \/ conn'[k].answers \in Remains(conn[k].answers) \/ conn'[k].answers = <<>>
    BY <1>4, CrashProperties
  <2> DEFINE old == conn[k].answers  left == conn'[k].answers
  <2>2. old \in Seq(Answer)
    BY DEF TypeOK, Connection
  <2>3. CASE left = old \/ left = <<>>
    BY <2>1, <2>3 DEF Quiet, Carries
  <2>4. CASE left \in Remains(old)
    <3>1. /\ left \in Seq(Answer) /\ Len(left) <= Len(old)
          /\ \A i \in 1 .. Len(left) : left[i].to = old[i].to
      BY <2>2, <2>4, RemainsProperties
    <3>2. ASSUME NEW a \in Answer, NEW c \in Call, old = <<a>>, a.to = c
          PROVE  left = <<>> \/ \E b \in Answer : left = <<b>> /\ b.to = c
      <4> HIDE DEF left
      <4>1. Len(old) = 1 /\ old[1] = a
        BY <3>2
      <4>2. Len(left) \in Nat /\ left \in [1 .. Len(left) -> Answer]
        BY <3>1, LenProperties
      <4>3. CASE Len(left) = 0
        BY <3>1, <4>3, EmptySeq
      <4>4. CASE Len(left) = 1
        <5>1. left[1] \in Answer /\ left[1].to = c
          BY <3>1, <3>2, <4>1, <4>2, <4>4
        <5>2. left = <<left[1]>>
          BY <3>1, <4>4
        <5>3. QED
          BY <5>1, <5>2
      <4>5. QED
        BY <3>1, <4>1, <4>2, <4>3, <4>4
    <3>3. old = <<>> => left = <<>>
      <4> HIDE DEF left
      <4>1. Len(left) \in Nat /\ Len(<<>>) = 0
        BY <3>1, LenProperties
      <4>2. QED
        BY <3>1, <4>1, EmptySeq
    <3> HIDE DEF left
    <3>4. Quiet(k) => Quiet(k)'
      BY <2>1, <3>3 DEF Quiet, left
    <3>5. ASSUME NEW c \in Call, Carries(k, c)
          PROVE  Carries(k, c)'
      <4>1. old = <<>> \/ \E a \in Answer : old = <<a>> /\ a.to = c
        BY <3>5 DEF Carries, Quiet
      <4>2. left = <<>> \/ \E b \in Answer : left = <<b>> /\ b.to = c
        BY <3>2, <3>3, <4>1
      <4>3. QED
        BY <2>1, <4>2 DEF Carries, Quiet, left
    <3>6. QED
      BY <2>1, <3>4, <3>5
  <2>5. QED
    BY <2>1, <2>3, <2>4
<1>5. CASE Serve(k)
  <2>1. /\ conn'[k].requests = Tail(conn[k].requests) /\ conn'[k].serving = Head(conn[k].requests)
        /\ conn'[k].half = conn[k].half /\ conn'[k].answers = conn[k].answers
        /\ conn[k].requests # <<>> /\ conn[k].serving = None
    BY <1>5, ServeProperties DEF Serve
  <2>2. ~Quiet(k)
    BY <2>1 DEF Quiet
  <2>3. ASSUME NEW c \in Call, Carries(k, c)
        PROVE  Carries(k, c)'
    <3>1. conn[k].requests = <<c>> /\ conn[k].answers = <<>>
      BY <2>1, <2>2, <2>3 DEF Carries
    <3>2. Tail(<<c>>) = <<>> /\ Head(<<c>>) = c
      OBVIOUS
    <3>3. QED
      BY <2>1, <3>1, <3>2 DEF Carries
  <2>4. QED
    BY <2>1, <2>2, <2>3
<1>6. CASE Respond(k)
  <2>1. /\ conn[k].serving # None /\ conn'[k].serving = None
        /\ conn'[k].half = conn[k].half /\ conn'[k].requests = conn[k].requests
        /\ conn'[k].answers = Queued(k, [to |-> conn[k].serving, says |-> "ok"])
        /\ [to |-> conn[k].serving, says |-> "ok"] \in Answer
    BY <1>6, RespondProperties DEF Respond
  <2>2. ~Quiet(k)
    BY <2>1 DEF Quiet
  <2>3. ASSUME NEW c \in Call, Carries(k, c)
        PROVE  Carries(k, c)'
    <3>1. conn[k].requests = <<>> /\ conn[k].serving = c /\ conn[k].answers = <<>>
      BY <2>1, <2>3 DEF Carries, Quiet
    <3>2. PICK a \in Answer : a = [to |-> conn[k].serving, says |-> "ok"]
      BY <2>1
    <3>3. a.to = c /\ Append(<<>>, a) = <<a>>
      BY <3>1, <3>2
    <3>4. conn'[k].answers = <<a>> \/ conn'[k].answers = <<>>
      BY <2>1, <3>1, <3>2, <3>3 DEF Queued
    <3>5. QED
      BY <2>1, <3>1, <3>3, <3>4 DEF Carries, Quiet
  <2>4. QED
    BY <2>1, <2>2, <2>3
<1>7. CASE Refuse(k)
  <2>1. /\ conn[k].requests # <<>> /\ conn[k].serving = None /\ conn'[k].serving = None
        /\ conn'[k].half = conn[k].half /\ conn'[k].requests = Tail(conn[k].requests)
        /\ conn'[k].answers = Queued(k, [to |-> Head(conn[k].requests), says |-> "refused"])
        /\ [to |-> Head(conn[k].requests), says |-> "refused"] \in Answer
    BY <1>7, RefuseProperties DEF Refuse
  <2>2. ~Quiet(k)
    BY <2>1 DEF Quiet
  <2>3. ASSUME NEW c \in Call, Carries(k, c)
        PROVE  Carries(k, c)'
    <3>1. conn[k].requests = <<c>> /\ conn[k].answers = <<>>
      BY <2>1, <2>2, <2>3 DEF Carries
    <3>2. Tail(<<c>>) = <<>> /\ Head(<<c>>) = c
      OBVIOUS
    <3>3. PICK a \in Answer : a = [to |-> Head(conn[k].requests), says |-> "refused"]
      BY <2>1
    <3>4. a.to = c /\ Append(<<>>, a) = <<a>>
      BY <3>1, <3>2, <3>3
    <3>5. conn'[k].answers = <<a>> \/ conn'[k].answers = <<>>
      BY <2>1, <3>1, <3>3, <3>4 DEF Queued
    <3>6. QED
      BY <2>1, <3>1, <3>2, <3>4, <3>5 DEF Carries, Quiet
  <2>4. QED
    BY <2>1, <2>2, <2>3
<1>8. CASE EndOfFile(k)
  BY <1>3, <1>8 DEF EndOfFile, TypeOK
<1>9. ASSUME NEW l \in Conn, l # k, Daemon(l)
      PROVE  conn'[k] = conn[k]
  BY <1>9, ServeProperties, RespondProperties, RefuseProperties, NotTextProperties
     DEF Daemon, EndOfFile, TypeOK
<1>10. CASE Start
  BY <1>1, <1>10 DEF Start
(* A connection that carries the line of a call has no spoilt one first.    *)
<1>11. CASE NotText(k)
  <2>1. /\ Malformed = Head(conn[k].requests) /\ conn[k].requests # <<>>
        /\ ~conn'[k].half
    BY <1>11, NotTextProperties
  <2>2. \A c \in Call : Head(<<c>>) = c /\ c # Malformed
    BY NoneAssumption
  <2>3. ~Quiet(k) /\ \A c \in Call : ~Carries(k, c)
    BY <2>1, <2>2 DEF Quiet, Carries
  <2>4. QED
    BY <2>1, <2>3
<1>12. QED
  BY <1>2, <1>4, <1>5, <1>6, <1>7, <1>8, <1>9, <1>10, <1>11 DEF Daemon

LEMMA DaemonAnswers ==
  ASSUME BaseInv, AnswerInv, NoCancel, (\E k \in Conn : Daemon(k)) \/ Crash \/ Start
  PROVE  AnswerInv'
<1>1. UNCHANGED <<pc, kept, retry, outcome>>
  BY DEF Daemon, Serve, Respond, Refuse, NotText, EndOfFile, Crash, Start, clientVars
<1>2. NoHalf /\ KeptCarries /\ RetryCarries /\ OwnAnswers
  BY DEF AnswerInv
<1>3. NoHalf' /\ OwnAnswers'
  BY <1>1, <1>2, ConnectionMoves DEF NoHalf, OwnAnswers, Answered, BaseInv, UseInv
<1>4. ASSUME NEW k \in Conn, NEW c \in Call
      PROVE  (Quiet(k) => Quiet(k)') /\ (Carries(k, c) => Carries(k, c)')
  BY ConnectionMoves DEF BaseInv, UseInv
<1>5. ASSUME NEW k \in Conn, k = kept
      PROVE  KeptCarries'
  <2>1. \A c \in Call : Carries(kept, c)' <=> Carries(k, c)'
    BY <1>1, <1>5 DEF Carries, Quiet
  <2>2. Quiet(kept)' <=> Quiet(k)'
    BY <1>1, <1>5 DEF Quiet
  <2>3. Quiet(k) => Quiet(k)'
    BY ConnectionMoves DEF BaseInv, UseInv
  <2>4. QED
    BY <1>1, <1>2, <1>4, <1>5, <2>1, <2>2, <2>3 DEF KeptCarries
<1>6. ASSUME kept = None
      PROVE  KeptCarries'
  BY <1>1, <1>6 DEF KeptCarries, BaseInv, UseInv, KeptWhen
<1>7. ASSUME NEW k \in Conn, k = retry
      PROVE  RetryCarries'
  <2>1. \A c \in Call : Carries(retry, c)' <=> Carries(k, c)'
    BY <1>1, <1>7 DEF Carries, Quiet
  <2>2. Quiet(retry)' <=> Quiet(k)'
    BY <1>1, <1>7 DEF Quiet
  <2>3. QED
    BY <1>1, <1>2, <1>4, <1>7, <2>1, <2>2 DEF RetryCarries
<1>8. ASSUME retry = None
      PROVE  RetryCarries'
  BY <1>1, <1>8 DEF RetryCarries, BaseInv, UseInv, RetryWhen
<1>9. kept \in Conn \cup {None} /\ retry \in Conn \cup {None}
  BY DEF BaseInv, TypeOK
<1>10. KeptCarries' /\ RetryCarries'
  BY <1>5, <1>6, <1>7, <1>8, <1>9
<1>11. QED
  BY <1>3, <1>10 DEF AnswerInv

(* Only who holds the mutex has to be looked at.                            *)
LEMMA HolderCarries ==
  ASSUME BaseInv, NEW c \in Call, Holds(c), NEW where \in Places, pc' = [pc EXCEPT ![c] = where],
         where = "receive" => Carries(kept, c)',
         where # "receive" /\ kept' # None => Quiet(kept)',
         where = "receive again" => Carries(retry, c)',
         where = "resend" => Quiet(retry)'
  PROVE  KeptCarries' /\ RetryCarries'
<1>1. \A d \in Call : pc'[d] = IF d = c THEN where ELSE pc[d]
  BY DEF BaseInv, TypeOK
<1>2. \A d \in Call : d # c => pc'[d] \notin {"receive", "receive again", "resend"}
  BY <1>1, Alone DEF BaseInv, Inside
<1>3. pc'[c] = where
  BY <1>1
<1>4. QED
  BY <1>2, <1>3 DEF KeptCarries, RetryCarries

LEMMA OutcomeIsOwn ==
  ASSUME TypeOK, OwnAnswers, NEW c \in Call,
         \/ UNCHANGED outcome
         \/ \E r \in Answer \cup {Failed} :
              outcome' = [outcome EXCEPT ![c] = r] /\ (r = Failed \/ r.to = c)
  PROVE  OwnAnswers'
BY DEF TypeOK, OwnAnswers, Answered

(* Nothing is left on the kept connection when a call starts to use it.     *)
LEMMA KeptQuiet ==
  ASSUME BaseInv, KeptCarries, NEW c \in Call, Holds(c), pc[c] # "receive", kept # None
  PROVE  Quiet(kept)
<1>1. \A d \in Call : pc[d] # "receive"
  BY Alone DEF BaseInv, Inside
<1>2. QED
  BY <1>1 DEF KeptCarries

LEMMA AskAnswers ==
  ASSUME BaseInv, NoHalf, NEW c \in Call, NEW k \in Conn, conn' = Written(k, c), Quiet(k)
  PROVE  NoHalf' /\ Carries(k, c)'
<1>1. /\ conn'[k].requests = Append(conn[k].requests, c)
      /\ ~conn'[k].half /\ conn'[k].serving = conn[k].serving
      /\ conn'[k].answers = conn[k].answers
      /\ \A l \in Conn : l # k => conn'[l] = conn[l]
  BY WrittenProperties DEF BaseInv, NoHalf
<1>2. Append(<<>>, c) = <<c>>
  OBVIOUS
<1>3. QED
  BY <1>1, <1>2 DEF NoHalf, Quiet, Carries

LEMMA TakeAnswers ==
  ASSUME BaseInv, NEW c \in Call, NEW k \in Conn, conn[k].answers # <<>>, Carries(k, c)
  PROVE  /\ conn[k].requests = <<>> /\ conn[k].serving = None
         /\ Tail(conn[k].answers) = <<>>
         /\ \E a \in Answer : Head(conn[k].answers) = a /\ a.to = c
<1>1. PICK a \in Answer : /\ conn[k].requests = <<>> /\ conn[k].serving = None
                          /\ conn[k].answers = <<a>> /\ a.to = c
  BY DEF Carries, Quiet
<1>2. Head(<<a>>) = a /\ Tail(<<a>>) = <<>>
  OBVIOUS
<1>3. QED
  BY <1>1, <1>2

LEMMA StepAnswers ==
  ASSUME BaseInv, AnswerInv, NoCancel, NEW c \in Call, Step(c)
  PROVE  AnswerInv'
<1>1. Holds(c)
  BY DEF Step, Acquire, Send, Receive, Lose, Reconnect, Resend, ReceiveAgain, LoseAgain
<1>2. NoHalf /\ KeptCarries /\ RetryCarries /\ OwnAnswers
  BY DEF AnswerInv
<1>3. kept \in Conn \cup {None} /\ retry \in Conn \cup {None}
  BY DEF BaseInv, TypeOK
<1>4. pc[c] # "receive" /\ kept # None => Quiet(kept)
  BY <1>1, <1>2, KeptQuiet
<1>5. ASSUME \/ UNCHANGED outcome
             \/ \E r \in Answer \cup {Failed} :
                  outcome' = [outcome EXCEPT ![c] = r] /\ (r = Failed \/ r.to = c),
             NoHalf', KeptCarries', RetryCarries'
      PROVE  AnswerInv'
  BY <1>2, <1>5, OutcomeIsOwn DEF AnswerInv, BaseInv
<1>6. ASSUME UNCHANGED conn
      PROVE  NoHalf' /\ \A k \in Conn : Quiet(k) => Quiet(k)'
  BY <1>2, <1>6 DEF NoHalf, Quiet
<1>7. ASSUME NEW k \in Conn, conn' = Opened(k)
      PROVE  NoHalf' /\ Quiet(k)'
  BY <1>2, <1>7, OpenedProperties DEF NoHalf, Quiet, BaseInv
<1>8. ASSUME NEW k \in Conn, conn' = Dropped(k)
      PROVE  NoHalf'
  BY <1>2, <1>8, DroppedProperties DEF NoHalf, Free, BaseInv
<1>9. CASE Acquire(c)
  <2>1. pc[c] = "waiting"
    BY <1>9 DEF Acquire
  <2>2. CASE kept # None /\ Go(c, "send") /\ UNCHANGED <<outcome, kept, conn>>
    <3>1. pc' = [pc EXCEPT ![c] = "send"] /\ "send" \in Places
      BY <2>2 DEF Go, Places, Inside
    <3>2. Quiet(kept)'
      BY <1>4, <2>1, <2>2 DEF Quiet
    <3>3. QED
      BY <1>1, <1>5, <1>6, <2>2, <3>1, <3>2, HolderCarries
  <2>3. CASE /\ Unused # {} /\ kept' = (CHOOSE k \in Unused : TRUE)
             /\ conn' = Opened(kept') /\ Go(c, "send") /\ UNCHANGED outcome
    <3>1. PICK k \in Conn : k = kept'
      BY <2>3 DEF Unused
    <3>2. conn' = Opened(k)
      BY <2>3, <3>1
    <3>3. NoHalf' /\ Quiet(k)'
      BY <1>7, <3>2
    <3>4. Quiet(kept)'
      BY <3>1, <3>3 DEF Quiet
    <3>5. pc' = [pc EXCEPT ![c] = "send"] /\ "send" \in Places
      BY <2>3 DEF Go, Places, Inside
    <3>6. QED
      BY <1>1, <1>5, <2>3, <3>3, <3>4, <3>5, HolderCarries
  <2>4. CASE kept = None /\ Return(c, Failed) /\ UNCHANGED <<kept, conn>>
    <3>1. /\ pc' = [pc EXCEPT ![c] = "returned"] /\ "returned" \in Places
          /\ outcome' = [outcome EXCEPT ![c] = Failed]
      BY <2>4 DEF Return, Go, Places
    <3>2. QED
      BY <1>1, <1>5, <1>6, <2>4, <3>1, HolderCarries
  <2>5. QED
    BY <1>9, <2>2, <2>3, <2>4 DEF Acquire
<1>10. CASE Send(c)
  <2>1. /\ pc[c] = "send" /\ conn' = Written(kept, c) /\ UNCHANGED <<outcome, kept>>
        /\ pc' = [pc EXCEPT ![c] = "receive"] /\ "receive" \in Places
    BY <1>10 DEF Send, Go, Places, Inside
  <2>2. kept # None
    BY <2>1 DEF BaseInv, UseInv, KeptWhen
  <2>3. PICK k \in Conn : k = kept
    BY <1>3, <2>2
  <2>4. Quiet(k)
    BY <1>4, <2>1, <2>2, <2>3
  <2>5. NoHalf' /\ Carries(k, c)'
    BY <1>2, <2>1, <2>3, <2>4, AskAnswers
  <2>6. Carries(kept, c)'
    BY <2>1, <2>3, <2>5 DEF Carries, Quiet
  <2>7. QED
    BY <1>1, <1>5, <2>1, <2>5, <2>6, HolderCarries
<1>11. CASE Receive(c)
  <2>1. /\ pc[c] = "receive" /\ conn[kept].answers # <<>>
        /\ conn' = [conn EXCEPT ![kept].answers = Rest(@)] /\ UNCHANGED kept
        /\ outcome' = [outcome EXCEPT ![c] = Head(conn[kept].answers)]
        /\ pc' = [pc EXCEPT ![c] = "returned"] /\ "returned" \in Places
    BY <1>11 DEF Receive, Return, Go, Places
  <2>2. kept # None
    BY <2>1 DEF BaseInv, UseInv, KeptWhen
  <2>3. PICK k \in Conn : k = kept
    BY <1>3, <2>2
  <2>4. Carries(k, c)
    BY <1>2, <2>1, <2>3 DEF KeptCarries
  <2>5. /\ conn[k].requests = <<>> /\ conn[k].serving = None /\ Tail(conn[k].answers) = <<>>
        /\ \E a \in Answer : Head(conn[k].answers) = a /\ a.to = c
    BY <2>1, <2>3, <2>4, TakeAnswers
  <2>6. /\ conn'[k].answers = Tail(conn[k].answers) /\ conn'[k].half = conn[k].half
        /\ conn'[k].serving = conn[k].serving /\ conn'[k].requests = conn[k].requests
        /\ \A l \in Conn : l # k => conn'[l] = conn[l]
    BY <2>1, <2>3, ReadProperties DEF BaseInv
  <2>7. NoHalf'
    BY <1>2, <2>6 DEF NoHalf
  <2>8. Quiet(kept)'
    BY <2>1, <2>3, <2>5, <2>6 DEF Quiet
  <2>9. QED
    BY <1>1, <1>5, <2>1, <2>3, <2>5, <2>7, <2>8, HolderCarries
<1>12. CASE Lose(c)
  <2>1. /\ pc[c] \in {"send", "receive"} /\ conn' = Dropped(kept) /\ kept' = None
        /\ UNCHANGED outcome
        /\ pc' = [pc EXCEPT ![c] = "reconnect"] /\ "reconnect" \in Places
    BY <1>12 DEF Lose, Go, Retried, Places, Inside
  <2>2. kept # None
    BY <2>1 DEF BaseInv, UseInv, KeptWhen
  <2>3. NoHalf'
    BY <1>3, <1>8, <2>1, <2>2
  <2>4. QED
    BY <1>1, <1>5, <2>1, <2>3, HolderCarries
<1>13. CASE Reconnect(c)
  <2>1. kept' = None
    BY <1>13 DEF Reconnect, BaseInv, UseInv, NoneKeptWhen
  <2>2. CASE /\ Unused # {} /\ retry' = (CHOOSE k \in Unused : TRUE)
             /\ conn' = Opened(retry') /\ Go(c, "resend") /\ UNCHANGED outcome
    <3>1. PICK k \in Conn : k = retry'
      BY <2>2 DEF Unused
    <3>2. conn' = Opened(k)
      BY <2>2, <3>1
    <3>3. NoHalf' /\ Quiet(k)'
      BY <1>7, <3>2
    <3>4. Quiet(retry)'
      BY <3>1, <3>3 DEF Quiet
    <3>5. pc' = [pc EXCEPT ![c] = "resend"] /\ "resend" \in Places
      BY <2>2 DEF Go, Places, Inside
    <3>6. QED
      BY <1>1, <1>5, <2>1, <2>2, <3>3, <3>4, <3>5, HolderCarries
  <2>3. CASE Return(c, Failed) /\ UNCHANGED conn
    <3>1. /\ pc' = [pc EXCEPT ![c] = "returned"] /\ "returned" \in Places
          /\ outcome' = [outcome EXCEPT ![c] = Failed]
      BY <2>3 DEF Return, Go, Places
    <3>2. QED
      BY <1>1, <1>5, <1>6, <2>1, <2>3, <3>1, HolderCarries
  <2>4. QED
    BY <1>13, <2>2, <2>3 DEF Reconnect
<1>14. CASE Resend(c)
  <2>1. /\ pc[c] = "resend" /\ conn' = Written(retry, c) /\ UNCHANGED <<outcome, kept, retry>>
        /\ pc' = [pc EXCEPT ![c] = "receive again"] /\ "receive again" \in Places
    BY <1>14 DEF Resend, Go, Places, Inside
  <2>2. retry # None /\ kept' = None
    BY <2>1 DEF BaseInv, UseInv, RetryWhen, NoneKeptWhen
  <2>3. PICK k \in Conn : k = retry
    BY <1>3, <2>2
  <2>4. Quiet(k)
    BY <1>2, <2>1, <2>3 DEF RetryCarries
  <2>5. NoHalf' /\ Carries(k, c)'
    BY <1>2, <2>1, <2>3, <2>4, AskAnswers
  <2>6. Carries(retry, c)'
    BY <2>1, <2>3, <2>5 DEF Carries, Quiet
  <2>7. QED
    BY <1>1, <1>5, <2>1, <2>2, <2>5, <2>6, HolderCarries
<1>15. CASE ReceiveAgain(c)
  <2>1. /\ pc[c] = "receive again" /\ conn[retry].answers # <<>>
        /\ outcome' = [outcome EXCEPT ![c] = Head(conn[retry].answers)]
        /\ pc' = [pc EXCEPT ![c] = "returned"] /\ "returned" \in Places
    BY <1>15 DEF ReceiveAgain, Return, Go, Places
  <2>2. retry # None /\ kept = None
    BY <2>1 DEF BaseInv, UseInv, RetryWhen, NoneKeptWhen
  <2>3. PICK k \in Conn : k = retry
    BY <1>3, <2>2
  <2>4. Carries(k, c)
    BY <1>2, <2>1, <2>3 DEF RetryCarries
  <2>5. /\ conn[k].requests = <<>> /\ conn[k].serving = None /\ Tail(conn[k].answers) = <<>>
        /\ \E a \in Answer : Head(conn[k].answers) = a /\ a.to = c
    BY <2>1, <2>3, <2>4, TakeAnswers
  <2>6. CASE kept' = retry /\ conn' = [conn EXCEPT ![retry].answers = Rest(@)]
    <3>1. /\ conn'[k].answers = Tail(conn[k].answers) /\ conn'[k].half = conn[k].half
          /\ conn'[k].serving = conn[k].serving /\ conn'[k].requests = conn[k].requests
          /\ \A l \in Conn : l # k => conn'[l] = conn[l]
      BY <2>1, <2>3, <2>6, ReadProperties DEF BaseInv
    <3>2. NoHalf'
      BY <1>2, <3>1 DEF NoHalf
    <3>3. Quiet(kept)'
      BY <2>3, <2>5, <2>6, <3>1 DEF Quiet
    <3>4. QED
      BY <1>1, <1>5, <2>1, <2>3, <2>5, <3>2, <3>3, HolderCarries
  <2>7. CASE conn' = Dropped(retry) /\ UNCHANGED kept
    <3>1. NoHalf'
      BY <1>8, <2>3, <2>7
    <3>2. QED
      BY <1>1, <1>5, <2>1, <2>2, <2>3, <2>5, <2>7, <3>1, HolderCarries
  <2>8. QED
    BY <1>15, <2>6, <2>7 DEF ReceiveAgain
<1>16. CASE LoseAgain(c)
  <2>1. /\ pc[c] \in {"resend", "receive again"} /\ conn' = Dropped(retry) /\ UNCHANGED kept
        /\ outcome' = [outcome EXCEPT ![c] = Failed]
        /\ pc' = [pc EXCEPT ![c] = "returned"] /\ "returned" \in Places
    BY <1>16 DEF LoseAgain, Return, Go, Places
  <2>2. retry \in Conn /\ kept = None
    BY <1>3, <2>1 DEF BaseInv, UseInv, RetryWhen, NoneKeptWhen
  <2>3. NoHalf'
    BY <1>8, <2>1, <2>2
  <2>4. QED
    BY <1>1, <1>5, <2>1, <2>2, <2>3, HolderCarries
<1>17. QED
  BY <1>9, <1>10, <1>11, <1>12, <1>13, <1>14, <1>15, <1>16 DEF Step

LEMMA IssueAnswers ==
  ASSUME BaseInv, AnswerInv, NoCancel, NEW c \in Call, Issue(c)
  PROVE  AnswerInv'
<1>1. /\ pc[c] = "new" /\ UNCHANGED <<outcome, kept, retry, conn>>
      /\ \A d \in Call : pc'[d] = IF d = c THEN "waiting" ELSE pc[d]
  BY DEF Issue, Go, BaseInv, TypeOK
<1>2. NoHalf' /\ OwnAnswers' /\ RetryCarries'
  BY <1>1 DEF AnswerInv, NoHalf, OwnAnswers, Answered, RetryCarries, Carries, Quiet
<1>3. KeptCarries'
  <2>1. \A d \in Call : pc'[d] = "receive" <=> pc[d] = "receive"
    BY <1>1
  <2>2. /\ Quiet(kept) <=> Quiet(kept)'
        /\ \A d \in Call : Carries(kept, d) <=> Carries(kept, d)'
    BY <1>1 DEF Carries, Quiet
  <2>3. QED
    BY <1>1, <2>1, <2>2 DEF AnswerInv, KeptCarries
<1>4. QED
  BY <1>2, <1>3 DEF AnswerInv

LEMMA NextAnswers == BaseInv /\ AnswerInv /\ [Next]_vars => AnswerInv'
<1> SUFFICES ASSUME BaseInv, AnswerInv, [Next]_vars, NoCancel' PROVE AnswerInv'
  BY DEF AnswerInv
<1>1. NoCancel
  BY StaysCancelled DEF BaseInv
<1>2. ASSUME NEW c \in Call, Cancel(c)
      PROVE  FALSE
  BY <1>2 DEF Cancel, Go, NoCancel, BaseInv, TypeOK
<1>3. CASE UNCHANGED vars
  <2>1. UNCHANGED <<pc, outcome, kept, retry, conn>>
    BY <1>3 DEF vars
  <2>2. QED
    BY <1>1, <2>1 DEF AnswerInv, NoHalf, KeptCarries, RetryCarries, OwnAnswers, Answered,
                      Carries, Quiet
<1>4. QED
  BY <1>1, <1>2, <1>3, IssueAnswers, StepAnswers, DaemonAnswers DEF Next

LEMMA InitAnswers == Init => AnswerInv
BY OutcomeAssumption DEF Init, AnswerInv, NoHalf, KeptCarries, RetryCarries, OwnAnswers, Answered,
                         Free

-----------------------------------------------------------------------------
(* Half an answer means an outage                                           *)

(* While nobody has given up only a death tears an answer, on a connection  *)
(* that is dead since, and whoever waits for an answer there has seen it.   *)
TornIn(lines) == \E i \in DOMAIN lines : lines[i].says = "torn"
TornIsDead == \A k \in Conn : TornIn(conn[k].answers) => ~conn[k].alive
TornIsSeen ==
  \A c \in Call, k \in Conn :
    pc[c] = "receive" /\ k = kept /\ TornIn(conn[k].answers) => outage[c]
TornOutcome == \A c \in Call : Answered(c) /\ outcome[c].says = "torn" => outage[c]
TornInv == NoCancel => TornIsDead /\ TornIsSeen /\ TornOutcome

(* A step of a call that tears nothing.                                     *)
LEMMA CallTorn ==
  ASSUME BaseInv, TornInv, NoCancel, NEW c \in Call, UNCHANGED outage,
         NEW where \in Places, pc' = [pc EXCEPT ![c] = where],
         \/ UNCHANGED outcome
         \/ \E result \in Answer \cup {Failed} :
              /\ outcome' = [outcome EXCEPT ![c] = result]
              /\ result \in Answer /\ result.says = "torn" => outage[c],
         \A k \in Conn : TornIn(conn'[k].answers) => TornIn(conn[k].answers) /\ ~conn'[k].alive,
         \A d \in Call : pc'[d] = "receive" =>
           /\ kept' = kept
           /\ pc[d] = "receive" \/ \A k \in Conn : k = kept => conn[k].alive
  PROVE  TornInv'
<1>1. TornIsDead /\ TornIsSeen /\ TornOutcome
  BY DEF TornInv
<1>2. TornIsDead'
  BY DEF TornIsDead
<1>3. TornIsSeen'
  BY <1>1 DEF TornIsSeen, TornIsDead
<1>4. TornOutcome'
  BY <1>1 DEF TornOutcome, Answered, BaseInv, TypeOK
<1>5. QED
  BY <1>2, <1>3, <1>4 DEF TornInv

LEMMA StepTorn ==
  ASSUME BaseInv, OutageInv, TornInv, NoCancel, NEW c \in Call, Step(c)
  PROVE  TornInv'
<1> USE DEF BaseInv
<1>1. UNCHANGED outage /\ Holds(c)
  BY DEF Step, Acquire, Send, Receive, Lose, Reconnect, Resend, ReceiveAgain, LoseAgain
<1>2. TornIsDead /\ TornIsSeen
  BY DEF TornInv
<1>3. \A k \in Conn : conn[k].answers \in Seq(Answer)
  BY DEF TypeOK, Connection
<1>4. ASSUME NEW where \in Places \ {"receive"}, pc' = [pc EXCEPT ![c] = where],
             \/ UNCHANGED outcome
             \/ \E result \in Answer \cup {Failed} :
                  /\ outcome' = [outcome EXCEPT ![c] = result]
                  /\ result \in Answer /\ result.says = "torn" => outage[c],
             \A k \in Conn : TornIn(conn'[k].answers) => TornIn(conn[k].answers) /\ ~conn'[k].alive
      PROVE  TornInv'
  <2>1. \A d \in Call : pc'[d] # "receive"
    BY <1>1, <1>4, Alone DEF TypeOK, Inside
  <2>2. QED
    BY <1>1, <1>4, <2>1, CallTorn
<1>5. ASSUME NEW k \in Conn, conn' = Opened(k)
      PROVE  \A l \in Conn : TornIn(conn'[l].answers) => TornIn(conn[l].answers) /\ ~conn'[l].alive
  BY <1>2, <1>5, OpenedProperties, EmptyDomain DEF TornIn, TornIsDead
<1>6. ASSUME NEW k \in Conn, conn' = Dropped(k)
      PROVE  \A l \in Conn : TornIn(conn'[l].answers) => TornIn(conn[l].answers) /\ ~conn'[l].alive
  BY <1>2, <1>6, DroppedProperties, EmptyDomain DEF TornIn, TornIsDead
<1>7. ASSUME NEW k \in Conn, conn[k].answers # <<>>, conn' = [conn EXCEPT ![k].answers = Rest(@)]
      PROVE  \A l \in Conn : TornIn(conn'[l].answers) => TornIn(conn[l].answers) /\ ~conn'[l].alive
  <2>1. /\ conn'[k].answers = Tail(conn[k].answers) /\ conn'[k].alive = conn[k].alive
        /\ \A l \in Conn : l # k => conn'[l] = conn[l]
    BY <1>7, ReadProperties
  <2>2. TornIn(conn'[k].answers) => TornIn(conn[k].answers)
    <3> DEFINE q == conn[k].answers
    <3>1. q \in Seq(Answer) /\ q # <<>>
      BY <1>3, <1>7
    <3>2. conn'[k].answers = Tail(q)
      BY <2>1
    <3> HIDE DEF q
    <3>3. \A i \in DOMAIN Tail(q) : i + 1 \in DOMAIN q /\ Tail(q)[i] = q[i + 1]
      BY <3>1, TailElements
    <3>4. TornIn(conn'[k].answers) => TornIn(q)
      BY <3>2, <3>3 DEF TornIn
    <3>5. QED
      BY <3>4 DEF q
  <2>3. QED
    BY <1>2, <2>1, <2>2 DEF TornIsDead
<1>8. ASSUME NEW k \in Conn, conn[k].answers # <<>>, Head(conn[k].answers).says = "torn"
      PROVE  TornIn(conn[k].answers)
  BY <1>3, <1>8, HeadTailProperties, LenProperties, EmptySeq DEF TornIn
<1>9. ASSUME NEW k \in Conn, conn' = Written(k, c), conn[k].alive
      PROVE  \A l \in Conn : TornIn(conn'[l].answers) => TornIn(conn[l].answers) /\ ~conn'[l].alive
  BY <1>2, <1>9, WrittenProperties DEF TornIsDead
<1>10. CASE Acquire(c)
  <2>1. CASE kept # None /\ Go(c, "send") /\ UNCHANGED <<outcome, conn>>
    BY <1>2, <1>4, <2>1 DEF Go, Places, Inside, TornIsDead
  <2>2. CASE /\ kept = None /\ Unused # {} /\ kept' = (CHOOSE k \in Unused : TRUE)
             /\ conn' = Opened(kept') /\ Go(c, "send") /\ UNCHANGED outcome
    <3>1. PICK k \in Conn : k = kept'
      BY <2>2 DEF Unused
    <3>2. QED
      BY <1>4, <1>5, <2>2, <3>1 DEF Go, Places, Inside
  <2>3. CASE Return(c, Failed) /\ UNCHANGED conn
    BY <1>2, <1>4, <2>3, OutcomeAssumption DEF Return, Go, Places, TornIsDead
  <2>4. QED
    BY <1>10, <2>1, <2>2, <2>3 DEF Acquire
<1>11. CASE Send(c)
  <2>1. /\ pc' = [pc EXCEPT ![c] = "receive"] /\ conn[kept].alive /\ pc[c] = "send"
        /\ conn' = Written(kept, c) /\ UNCHANGED <<outcome, kept>>
    BY <1>11 DEF Send, Go, Broken
  <2>2. PICK k \in Conn : k = kept
    BY <2>1 DEF UseInv, KeptWhen, TypeOK
  <2>3. \A l \in Conn : TornIn(conn'[l].answers) => TornIn(conn[l].answers) /\ ~conn'[l].alive
    BY <1>9, <2>1, <2>2
  <2>4. QED
    BY <1>1, <2>1, <2>2, <2>3, CallTorn DEF Places, Inside
<1>12. CASE Receive(c)
  <2>1. /\ pc[c] = "receive" /\ pc' = [pc EXCEPT ![c] = "returned"]
        /\ conn[kept].answers # <<>> /\ conn' = [conn EXCEPT ![kept].answers = Rest(@)]
        /\ outcome' = [outcome EXCEPT ![c] = Head(conn[kept].answers)]
    BY <1>12 DEF Receive, Return, Go
  <2>2. PICK k \in Conn : k = kept
    BY <2>1 DEF UseInv, KeptWhen, TypeOK
  <2>3. PICK a \in Answer : a = Head(conn[k].answers)
    BY <1>3, <2>1, <2>2, HeadTailProperties
  <2>4. a.says = "torn" => outage[c]
    BY <1>2, <1>8, <2>1, <2>2, <2>3 DEF TornIsSeen
  <2>5. QED
    BY <1>4, <1>7, <2>1, <2>2, <2>3, <2>4 DEF Places
<1>13. CASE Lose(c)
  <2>1. /\ pc[c] \in {"send", "receive"} /\ pc' = [pc EXCEPT ![c] = "reconnect"]
        /\ conn' = Dropped(kept) /\ UNCHANGED outcome
    BY <1>13 DEF Lose, Go, Retried
  <2>2. PICK k \in Conn : k = kept
    BY <2>1 DEF UseInv, KeptWhen, TypeOK
  <2>3. QED
    BY <1>4, <1>6, <2>1, <2>2 DEF Places, Inside
<1>14. CASE Reconnect(c)
  <2>1. CASE /\ Unused # {} /\ retry' = (CHOOSE k \in Unused : TRUE)
             /\ conn' = Opened(retry') /\ Go(c, "resend") /\ UNCHANGED outcome
    <3>1. PICK k \in Conn : k = retry'
      BY <2>1 DEF Unused
    <3>2. QED
      BY <1>4, <1>5, <2>1, <3>1 DEF Go, Places, Inside
  <2>2. CASE Return(c, Failed) /\ UNCHANGED conn
    BY <1>2, <1>4, <2>2, OutcomeAssumption DEF Return, Go, Places, TornIsDead
  <2>3. QED
    BY <1>14, <2>1, <2>2 DEF Reconnect
<1>15. CASE Resend(c)
  <2>1. /\ pc' = [pc EXCEPT ![c] = "receive again"] /\ conn[retry].alive /\ pc[c] = "resend"
        /\ conn' = Written(retry, c) /\ UNCHANGED outcome
    BY <1>15 DEF Resend, Go, Broken
  <2>2. PICK k \in Conn : k = retry
    BY <2>1 DEF UseInv, RetryWhen, TypeOK
  <2>3. QED
    BY <1>4, <1>9, <2>1, <2>2 DEF Places, Inside
<1>16. CASE ReceiveAgain(c)
  <2>1. /\ pc[c] = "receive again" /\ pc' = [pc EXCEPT ![c] = "returned"]
        /\ conn[retry].answers # <<>>
        /\ conn' = Dropped(retry) \/ conn' = [conn EXCEPT ![retry].answers = Rest(@)]
        /\ outcome' = [outcome EXCEPT ![c] = Head(conn[retry].answers)]
    BY <1>16 DEF ReceiveAgain, Return, Go
  <2>2. PICK k \in Conn : k = retry
    BY <2>1 DEF UseInv, RetryWhen, TypeOK
  <2>3. PICK a \in Answer : a = Head(conn[k].answers)
    BY <1>3, <2>1, <2>2, HeadTailProperties
  <2>4. a.says = "torn" => outage[c]
    BY <1>2, <1>8, <2>1, <2>2, <2>3 DEF TornIsDead, OutageInv, BrokenIsSeen
  <2>5. QED
    BY <1>4, <1>6, <1>7, <2>1, <2>2, <2>3, <2>4 DEF Places
<1>17. CASE LoseAgain(c)
  <2>1. /\ pc[c] \in {"resend", "receive again"} /\ pc' = [pc EXCEPT ![c] = "returned"]
        /\ conn' = Dropped(retry) /\ outcome' = [outcome EXCEPT ![c] = Failed]
    BY <1>17 DEF LoseAgain, Return, Go
  <2>2. PICK k \in Conn : k = retry
    BY <2>1 DEF UseInv, RetryWhen, TypeOK
  <2>3. QED
    BY <1>4, <1>6, <2>1, <2>2, OutcomeAssumption DEF Places
<1>18. QED
  BY <1>10, <1>11, <1>12, <1>13, <1>14, <1>15, <1>16, <1>17 DEF Step

LEMMA IssueTorn ==
  ASSUME BaseInv, OutageInv, TornInv, NoCancel, NEW c \in Call, Issue(c)
  PROVE  TornInv'
<1>1. /\ pc[c] = "new" /\ UNCHANGED <<outcome, kept, conn>>
      /\ \A d \in Call : pc'[d] = IF d = c THEN "waiting" ELSE pc[d]
      /\ \A d \in Call : d # c => outage'[d] = outage[d]
  BY DEF Issue, Go, BaseInv, TypeOK
<1>2. ~Answered(c)
  BY <1>1 DEF OutageInv, NewHasNoOutcome, Answered
<1>3. QED
  BY <1>1, <1>2 DEF TornInv, TornIsDead, TornIsSeen, TornOutcome, Answered

LEMMA DaemonTorn ==
  ASSUME BaseInv, TornInv, NoCancel, (\E k \in Conn : Daemon(k)) \/ Crash \/ Start
  PROVE  TornInv'
<1> USE DEF BaseInv
<1>1. UNCHANGED <<pc, outcome, kept>>
  BY DEF Daemon, Serve, Respond, Refuse, NotText, EndOfFile, Crash, Start, clientVars
<1>2. TornIsDead /\ TornIsSeen /\ TornOutcome
  BY DEF TornInv
<1>3. CASE Crash
  <2>1. \A c \in Call : outage'[c] = (outage[c] \/ UnderWay(c))
    BY <1>3 DEF Crash
  <2>2. \A k \in Conn : ~conn'[k].alive
    BY <1>3, CrashProperties DEF UseInv
  <2>3. \A c \in Call : pc[c] = "receive" => outage'[c]
    BY <2>1 DEF UnderWay
  <2>4. TornOutcome'
    BY <1>1, <1>2, <2>1 DEF TornOutcome, Answered
  <2>5. QED
    BY <1>1, <2>2, <2>3, <2>4 DEF TornInv, TornIsDead, TornIsSeen
<1>4. ASSUME UNCHANGED outage,
             \A k \in Conn : TornIn(conn'[k].answers) => TornIn(conn[k].answers) /\ ~conn'[k].alive
      PROVE  TornInv'
  BY <1>1, <1>2, <1>4 DEF TornInv, TornIsDead, TornIsSeen, TornOutcome, Answered
<1>5. CASE Start
  BY <1>2, <1>4, <1>5 DEF Start, clientVars, TornIsDead
<1>6. ASSUME NEW l \in Conn, NEW a \in Answer, a.says # "torn",
             conn'[l].answers = Queued(l, a), conn'[l].alive = conn[l].alive,
             \A k \in Conn : k # l => conn'[k] = conn[k]
      PROVE  \A k \in Conn : TornIn(conn'[k].answers) => TornIn(conn[k].answers) /\ ~conn'[k].alive
  <2>1. conn[l].answers \in Seq(Answer)
    BY DEF TypeOK, Connection
  <2>2. TornIn(conn'[l].answers) => TornIn(conn[l].answers)
    <3>1. CASE conn[l].open
      BY <1>6, <2>1, <3>1, AppendElements DEF Queued, TornIn
    <3>2. CASE ~conn[l].open
      BY <1>6, <3>2, EmptyDomain DEF Queued, TornIn
    <3>3. QED
      BY <3>1, <3>2
  <2>3. QED
    BY <1>2, <1>6, <2>2 DEF TornIsDead
<1>7. ASSUME NEW l \in Conn, Daemon(l)
      PROVE  TornInv'
  <2>1. UNCHANGED outage
    BY <1>7 DEF Daemon, Serve, Respond, Refuse, NotText, EndOfFile, clientVars
  <2>2. CASE Serve(l)
    <3>1. /\ conn'[l].answers = conn[l].answers /\ conn'[l].alive = conn[l].alive
          /\ \A k \in Conn : k # l => conn'[k] = conn[k]
      BY <2>2, ServeProperties
    <3>2. QED
      BY <1>2, <1>4, <2>1, <3>1 DEF TornIsDead
  <2>3. CASE Respond(l)
    <3>1. /\ [to |-> conn[l].serving, says |-> "ok"] \in Answer
          /\ conn'[l].answers = Queued(l, [to |-> conn[l].serving, says |-> "ok"])
          /\ conn'[l].alive = conn[l].alive
          /\ \A k \in Conn : k # l => conn'[k] = conn[k]
      BY <2>3, RespondProperties
    <3>2. [to |-> conn[l].serving, says |-> "ok"].says # "torn"
      OBVIOUS
    <3>3. QED
      BY <1>4, <1>6, <2>1, <3>1, <3>2
  <2>4. CASE Refuse(l)
    <3>1. /\ [to |-> Head(conn[l].requests), says |-> "refused"] \in Answer
          /\ conn'[l].answers = Queued(l, [to |-> Head(conn[l].requests), says |-> "refused"])
          /\ conn'[l].alive = conn[l].alive
          /\ \A k \in Conn : k # l => conn'[k] = conn[k]
      BY <2>4, RefuseProperties
    <3>2. [to |-> Head(conn[l].requests), says |-> "refused"].says # "torn"
      OBVIOUS
    <3>3. QED
      BY <1>4, <1>6, <2>1, <3>1, <3>2
  <2>5. CASE NotText(l)
    <3>1. /\ ~conn'[l].alive /\ \A k \in Conn : k # l => conn'[k] = conn[k]
          /\ conn'[l].answers = IF conn[l].open THEN conn[l].answers ELSE <<>>
      BY <2>5, NotTextProperties
    <3>2. \A k \in Conn : TornIn(conn'[k].answers) => TornIn(conn[k].answers) /\ ~conn'[k].alive
      BY <1>2, <3>1, EmptyDomain DEF TornIsDead, TornIn
    <3>3. QED
      BY <1>4, <2>1, <3>2
  <2>6. CASE EndOfFile(l)
    <3>1. \A k \in Conn : conn'[k] = IF k = l THEN Free ELSE conn[k]
      BY <2>6 DEF EndOfFile, TypeOK
    <3>2. Free.answers = <<>>
      BY DEF Free
    <3>3. \A k \in Conn : TornIn(conn'[k].answers) => TornIn(conn[k].answers) /\ ~conn'[k].alive
      BY <1>2, <3>1, <3>2, EmptyDomain DEF TornIsDead, TornIn
    <3>4. QED
      BY <1>4, <2>1, <3>3
  <2>7. QED
    BY <1>7, <2>2, <2>3, <2>4, <2>5, <2>6 DEF Daemon
<1>8. QED
  BY <1>3, <1>5, <1>7

LEMMA NextTorn == BaseInv /\ OutageInv /\ TornInv /\ [Next]_vars => TornInv'
<1> SUFFICES ASSUME BaseInv, OutageInv, TornInv, [Next]_vars, NoCancel' PROVE TornInv'
  BY DEF TornInv
<1>1. NoCancel
  BY StaysCancelled DEF BaseInv
<1>2. ASSUME NEW c \in Call, Cancel(c)
      PROVE  FALSE
  BY <1>2 DEF Cancel, Go, NoCancel, BaseInv, TypeOK
<1>3. CASE UNCHANGED vars
  <2>1. UNCHANGED <<pc, outcome, outage, kept, conn>>
    BY <1>3 DEF vars
  <2>2. QED
    BY <1>1, <2>1 DEF TornInv, TornIsDead, TornIsSeen, TornOutcome, Answered
<1>4. QED
  BY <1>1, <1>2, <1>3, IssueTorn, StepTorn, DaemonTorn DEF Next

LEMMA InitTorn == Init => TornInv
BY EmptyDomain DEF Init, TornInv, TornIsDead, TornIsSeen, TornOutcome, TornIn, Answered, Free

-----------------------------------------------------------------------------
(* Theorems                                                                 *)

LEMMA Base == Spec => []BaseInv
<1>1. Init => BaseInv
  BY InitBase DEF BaseInv
<1>2. QED
  BY <1>1, NextBase, PTL DEF Spec

(* Every connection keeps its requests and its answers of the right kind,   *)
(* and exactly the calls under way are in the queue of the mutex.           *)
THEOREM TypeCorrect == Spec => []TypeOK
<1>1. BaseInv => TypeOK
  BY DEF BaseInv
<1>2. QED
  BY <1>1, Base, PTL

(* One transparent retry of a request (`AudioClient::request`) never makes  *)
(* one run of the daemon carry the same command out twice.                  *)
THEOREM CommandsAtMostOnce == Spec => []AtMostOncePerRun
<1>1. OnceInv => AtMostOncePerRun
  BY DEF OnceInv
<1>2. Init => OnceInv /\ TailInv
  BY InitOnce, InitTail
<1>3. BaseInv /\ (OnceInv /\ TailInv) /\ [Next]_vars => (OnceInv /\ TailInv)'
  BY NextOnce, NextTail
<1>4. QED
  BY <1>1, <1>2, <1>3, Base, PTL DEF Spec

LEMMA Outages == Spec => []OutageInv
<1>1. Init => RetryClean /\ OutageInv
  BY InitClean, InitOutage
<1>2. BaseInv /\ (RetryClean /\ OutageInv) /\ [Next]_vars => (RetryClean /\ OutageInv)'
  BY NextClean, NextOutage
<1>3. QED
  BY <1>1, <1>2, Base, PTL DEF Spec

(* A call that gets no answer has seen the daemon down: a connection that   *)
(* has gone stale since an earlier call costs no more than the retry; and   *)
(* so has one that gets half an answer, unless some call was cancelled.     *)
THEOREM FailuresMeanOutages == Spec => []FailureMeansOutage
<1>1. OutageInv /\ TornInv => FailureMeansOutage
  BY DEF OutageInv, FailedIsSeen, TornInv, NoCancel, TornOutcome, FailureMeansOutage
<1>2. QED
  BY <1>1, InitTorn, NextTorn, Base, Outages, PTL DEF Spec

(* Whatever happens to connection and daemon, and however many calls wait   *)
(* for the mutex, a call gets the answer to its own request as long as      *)
(* nobody has given up; nothing but that order matches answers to requests. *)
THEOREM AnswersAreOwn == Spec => []OwnAnswerUnlessCancelled
<1>1. AnswerInv => OwnAnswerUnlessCancelled
  BY DEF AnswerInv, NoCancel, OwnAnswers, OwnAnswerUnlessCancelled
<1>2. QED
  BY <1>1, InitAnswers, NextAnswers, Base, PTL DEF Spec
=============================================================================
