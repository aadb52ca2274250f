------------------------ MODULE AkkaDelivery_proofs ------------------------
(***************************************************************************)
(* No request is executed twice, for every workload and all faults: every  *)
(* request is in at most one place on its way from the thread to the       *)
(* server, and the steps of all parts only move it forward or lose it.     *)
(***************************************************************************)
EXTENDS AkkaConnection_proofs

-----------------------------------------------------------------------------
(* Sequences of identities.                                                *)

(* No user's request occurs twice in s.                                    *)
Once(s) == \A j, k \in DOMAIN s : s[j] = s[k] /\ s[j] # Internal => j = k
Users(s) == {s[k] : k \in DOMAIN s} \ {Internal}

(* What is picked from s, each element at most once.                       *)
LEMMA Picked ==
    ASSUME NEW s, NEW t, Once(s), NEW g \in [DOMAIN t -> DOMAIN s],
           \A k \in DOMAIN t : t[k] = s[g[k]],
           \A j, k \in DOMAIN t : g[j] = g[k] => j = k
    PROVE  Once(t) /\ Users(t) \subseteq Users(s)
BY DEF Once, Users

LEMMA OnceConcat ==
    ASSUME NEW S, NEW s \in Seq(S), NEW t \in Seq(S), Once(s), Once(t),
           Users(s) \cap Users(t) = {}
    PROVE  Once(s \o t)
<1> DEFINE u == s \o t
<1>1. u \in Seq(S) /\ DOMAIN u = 1..Len(s) + Len(t)
  OBVIOUS
<1>2. \A k \in DOMAIN u : \/ k \in DOMAIN s /\ u[k] = s[k]
                          \/ k - Len(s) \in DOMAIN t /\ u[k] = t[k - Len(s)] /\ k \notin DOMAIN s
  OBVIOUS
<1> HIDE DEF u
<1>3. ASSUME NEW j \in DOMAIN u, NEW k \in DOMAIN u, u[j] = u[k], u[j] # Internal
      PROVE  j = k
  <2>1. j \in Int /\ k \in Int /\ Len(s) \in Int
    BY <1>1
  <2>2. CASE j \in DOMAIN s /\ k \in DOMAIN s
    BY <1>2, <1>3, <2>2 DEF Once
  <2>3. CASE j \in DOMAIN s /\ k \notin DOMAIN s
    BY <1>2, <1>3, <2>3 DEF Users
  <2>4. CASE j \notin DOMAIN s /\ k \in DOMAIN s
    BY <1>2, <1>3, <2>4 DEF Users
  <2>5. CASE j \notin DOMAIN s /\ k \notin DOMAIN s
    <3>1. j - Len(s) = k - Len(s)
      BY <1>2, <1>3, <2>5 DEF Once
    <3> QED BY <3>1, <2>1
  <2> QED BY <2>2, <2>3, <2>4, <2>5
<1> QED BY <1>3 DEF Once, u

LEMMA UsersConcat ==
    ASSUME NEW S, NEW s \in Seq(S), NEW t \in Seq(S)
    PROVE  Users(s \o t) = Users(s) \cup Users(t)
<1> DEFINE u == s \o t
<1>1. \A k \in DOMAIN u : \/ k \in DOMAIN s /\ u[k] = s[k]
                          \/ k - Len(s) \in DOMAIN t /\ u[k] = t[k - Len(s)]
  OBVIOUS
<1>2. \A k \in DOMAIN s : k \in DOMAIN u /\ u[k] = s[k]
  OBVIOUS
<1>3. \A k \in DOMAIN t : k + Len(s) \in DOMAIN u /\ u[k + Len(s)] = t[k]
  OBVIOUS
<1> HIDE DEF u
<1>4. Users(u) = Users(s) \cup Users(t)
  BY <1>1, <1>2, <1>3 DEF Users
<1> QED BY <1>4 DEF u

LEMMA OnceEmpty == Once(<<>>) /\ Users(<<>>) = {}
BY DEF Once, Users

LEMMA OnceSingle ==
    ASSUME NEW i
    PROVE  Once(<<i>>) /\ Users(<<i>>) = {i} \ {Internal}
BY DEF Once, Users

(* The first of s, and the others.                                         *)
LEMMA OnceTail ==
    ASSUME NEW S, NEW s \in Seq(S), s # <<>>, Once(s)
    PROVE  /\ Tail(s) \in Seq(S) /\ Once(Tail(s)) /\ Users(Tail(s)) \subseteq Users(s)
           /\ Head(s) # Internal => Head(s) \in Users(s) /\ Head(s) \notin Users(Tail(s))
<1>1. /\ Tail(s) \in Seq(S) /\ Len(Tail(s)) = Len(s) - 1 /\ Head(s) = s[1] /\ 1 \in DOMAIN s
      /\ \A k \in 1..Len(Tail(s)) : k + 1 \in DOMAIN s /\ Tail(s)[k] = s[k + 1] /\ k + 1 # 1
  BY HeadTailProperties
<1>2. DOMAIN Tail(s) = 1..Len(Tail(s))
  BY <1>1
<1> DEFINE t == Tail(s)
<1> HIDE DEF t
<1>3. \A k \in DOMAIN t : k \in Int /\ k + 1 \in DOMAIN s /\ t[k] = s[k + 1] /\ k + 1 # 1
  BY <1>1, <1>2 DEF t
<1>4. Once(t)
  <2>1. ASSUME NEW j \in DOMAIN t, NEW k \in DOMAIN t, t[j] = t[k], t[j] # Internal
        PROVE  j = k
    <3>1. j + 1 = k + 1
      BY <1>3, <2>1 DEF Once
    <3> QED BY <3>1, <1>3
  <2> QED BY <2>1 DEF Once
<1>5. Users(t) \subseteq Users(s)
  BY <1>3 DEF Users
<1>6. ASSUME Head(s) # Internal PROVE Head(s) \in Users(s) /\ Head(s) \notin Users(t)
  BY <1>1, <1>3, <1>6 DEF Once, Users
<1> QED BY <1>1, <1>4, <1>5, <1>6 DEF t

(* s cut in two.                                                           *)
LEMMA OnceCut ==
    ASSUME NEW S, NEW s \in Seq(S), Once(s), NEW n \in Nat, n <= Len(s)
    PROVE  /\ SubSeq(s, 1, n) \in Seq(S) /\ SubSeq(s, n + 1, Len(s)) \in Seq(S)
           /\ Once(SubSeq(s, 1, n)) /\ Once(SubSeq(s, n + 1, Len(s)))
           /\ Users(SubSeq(s, 1, n)) \subseteq Users(s)
           /\ Users(SubSeq(s, n + 1, Len(s))) \subseteq Users(s)
           /\ Users(SubSeq(s, 1, n)) \cap Users(SubSeq(s, n + 1, Len(s))) = {}
<1> DEFINE a == SubSeq(s, 1, n)
           b == SubSeq(s, n + 1, Len(s))
<1>1. a \in Seq(S) /\ b \in Seq(S)
  BY SubSeqType
<1>2. \A k \in DOMAIN a : k \in DOMAIN s /\ k \in Int /\ k <= n /\ a[k] = s[k]
  BY SubSeqProperties
<1>3. \A k \in DOMAIN b : k \in Int /\ k >= 1 /\ k + n \in DOMAIN s /\ b[k] = s[k + n]
  BY SubSeqProperties
<1> HIDE DEF a, b
<1>4. Once(a) /\ Users(a) \subseteq Users(s)
  BY <1>2 DEF Once, Users
<1>5. Once(b)
  <2>1. ASSUME NEW j \in DOMAIN b, NEW k \in DOMAIN b, b[j] = b[k], b[j] # Internal
        PROVE  j = k
    <3>1. j + n = k + n
      BY <1>3, <2>1 DEF Once
    <3> QED BY <3>1, <1>3
  <2> QED BY <2>1 DEF Once
<1>6. Users(b) \subseteq Users(s)
  BY <1>3 DEF Users
<1>7. Users(a) \cap Users(b) = {}
  <2>1. ASSUME NEW j \in DOMAIN a, NEW k \in DOMAIN b, a[j] = b[k], a[j] # Internal
        PROVE  FALSE
    <3>1. j = k + n
      BY <1>2, <1>3, <2>1 DEF Once
    <3> QED BY <3>1, <1>2, <1>3
  <2> QED BY <2>1 DEF Users
<1> QED BY <1>1, <1>4, <1>5, <1>6, <1>7 DEF a, b

-----------------------------------------------------------------------------
(* The identities of sequences of requests.                                *)

Idents == Ids \cup {Internal}

LEMMA AskedType ==
    ASSUME NEW rs \in Seq(Request)
    PROVE  /\ Asked(rs) \in Seq(Idents) /\ DOMAIN Asked(rs) = DOMAIN rs
           /\ Len(Asked(rs)) = Len(rs) /\ \A k \in DOMAIN rs : Asked(rs)[k] = rs[k].id
<1>1. \A k \in 1..Len(rs) : rs[k].id \in Idents
  <2> TAKE k \in 1..Len(rs)
  <2>1. rs[k] \in Request
    OBVIOUS
  <2> QED BY <2>1 DEF Request, Idents
<1> QED BY <1>1 DEF Asked

LEMMA AskedConcat ==
    ASSUME NEW rs \in Seq(Request), NEW qs \in Seq(Request)
    PROVE  Asked(rs \o qs) = Asked(rs) \o Asked(qs)
<1> DEFINE u == rs \o qs
           v == Asked(rs) \o Asked(qs)
<1>1. u \in Seq(Request) /\ Len(u) = Len(rs) + Len(qs)
  OBVIOUS
<1>2. Asked(rs) \in Seq(Idents) /\ Asked(qs) \in Seq(Idents)
      /\ Len(Asked(rs)) = Len(rs) /\ Len(Asked(qs)) = Len(qs)
  BY AskedType
<1>3. v \in Seq(Idents) /\ Len(v) = Len(rs) + Len(qs)
  BY <1>2, SMTT(30)
<1>4. Asked(u) \in Seq(Idents) /\ Len(Asked(u)) = Len(u)
      /\ \A k \in 1..Len(u) : Asked(u)[k] = u[k].id
  <2> HIDE DEF u
  <2> QED BY <1>1, AskedType
<1>5. \A k \in 1..Len(u) : Asked(u)[k] = v[k]
  <2> TAKE k \in 1..Len(u)
  <2>1. CASE k <= Len(rs)
    <3>1. u[k] = rs[k] /\ v[k] = Asked(rs)[k] /\ k \in DOMAIN rs
      BY <1>1, <1>2, <2>1
    <3> HIDE DEF u, v
    <3> QED BY <3>1, <1>4, AskedType
  <2>2. CASE k > Len(rs)
    <3> DEFINE j == k - Len(rs)
    <3>1. u[k] = qs[j] /\ v[k] = Asked(qs)[j] /\ j \in DOMAIN qs
      BY <1>1, <1>2, <2>2
    <3> HIDE DEF u, v, j
    <3>2. Asked(qs)[j] = qs[j].id
      BY <3>1, AskedType
    <3> QED BY <3>1, <3>2, <1>4
  <2>3. k \in Int /\ Len(rs) \in Int
    OBVIOUS
  <2> HIDE DEF u, v
  <2> QED BY <2>1, <2>2, <2>3
<1> HIDE DEF u, v
<1>6. Asked(u) = v
  BY <1>1, <1>3, <1>4, <1>5, SeqEqual
<1> QED BY <1>6 DEF u, v

LEMMA AskedEmpty == Asked(<<>>) = <<>>
BY DEF Asked

LEMMA AskedTail ==
    ASSUME NEW rs \in Seq(Request), rs # <<>>
    PROVE  /\ Tail(rs) \in Seq(Request) /\ Asked(rs) # <<>>
           /\ Asked(Tail(rs)) = Tail(Asked(rs)) /\ Head(Asked(rs)) = Head(rs).id
           /\ Head(rs) \in Request
BY HeadTailProperties DEF Asked

LEMMA AskedPart ==
    ASSUME NEW rs \in Seq(Request), NEW m \in Nat \ {0}, NEW n \in Nat, n <= Len(rs)
    PROVE  /\ SubSeq(rs, m, n) \in Seq(Request)
           /\ Asked(SubSeq(rs, m, n)) = SubSeq(Asked(rs), m, n)
<1>1. SubSeq(rs, m, n) \in Seq(Request)
  BY SubSeqType
<1>2. Asked(rs) \in Seq(Idents) /\ Len(Asked(rs)) = Len(rs)
  BY AskedType
<1>3. SubSeq(Asked(rs), m, n) \in Seq(Idents)
  BY <1>2, SubSeqType
<1> DEFINE part == SubSeq(rs, m, n)
           asked == SubSeq(Asked(rs), m, n)
<1>a. \A k \in m..n : rs[k] \in Request /\ Asked(rs)[k] \in Idents /\ k \in DOMAIN rs
  BY <1>2
<1>4. /\ Len(part) = IF m <= n THEN n - m + 1 ELSE 0
      /\ \A k \in 1..n - m + 1 : part[k] = rs[m + k - 1]
  BY <1>a, SubSeqProperties
<1>5. /\ Len(asked) = IF m <= n THEN n - m + 1 ELSE 0
      /\ \A k \in 1..n - m + 1 : asked[k] = Asked(rs)[m + k - 1]
  BY <1>a, SubSeqProperties
<1> HIDE DEF part, asked
<1>6. part \in Seq(Request) /\ asked \in Seq(Idents)
  BY <1>1, <1>3 DEF part, asked
<1>7. Asked(part) \in Seq(Idents) /\ Len(Asked(part)) = Len(asked)
      /\ \A k \in 1..Len(part) : Asked(part)[k] = part[k].id
  BY <1>4, <1>5, <1>6, AskedType
<1>8. \A k \in 1..Len(asked) : Asked(part)[k] = asked[k]
  <2> TAKE k \in 1..Len(asked)
  <2>1. k \in 1..n - m + 1 /\ k \in 1..Len(part) /\ m + k - 1 \in m..n
    BY <1>4, <1>5
  <2>2. Asked(rs)[m + k - 1] = rs[m + k - 1].id
    BY <2>1, <1>a, AskedType
  <2> QED BY <2>1, <2>2, <1>4, <1>5, <1>7
<1>9. Asked(part) = asked
  BY <1>6, <1>7, <1>8, SeqEqual
<1> QED BY <1>1, <1>9 DEF part, asked

(* What a mailbox of an IOActor carries.                                   *)
Carried(box) ==
    [k \in DOMAIN box |-> IF box[k].type = "Request" THEN box[k].req.id ELSE Internal]

LEMMA CarriedType ==
    ASSUME NEW box \in Seq(IOMessage)
    PROVE  Carried(box) \in Seq(Idents) /\ Len(Carried(box)) = Len(box)
<1>1. \A k \in 1..Len(box) : box[k].type = "Request" => box[k].req.id \in Idents
  <2> TAKE k \in 1..Len(box)
  <2>1. box[k] \in IOMessage
    OBVIOUS
  <2> QED BY <2>1 DEF IOMessage, IOSignals, Request, Idents
<1>2. Internal \in Idents
  BY DEF Idents
<1> QED BY <1>1, <1>2 DEF Carried

LEMMA CarriedConcat ==
    ASSUME NEW box \in Seq(IOMessage), NEW ms \in Seq(IOMessage)
    PROVE  Carried(box \o ms) = Carried(box) \o Carried(ms)
<1> DEFINE u == box \o ms
           v == Carried(box) \o Carried(ms)
<1>1. u \in Seq(IOMessage) /\ Len(u) = Len(box) + Len(ms)
  OBVIOUS
<1>2. Carried(box) \in Seq(Idents) /\ Carried(ms) \in Seq(Idents)
      /\ Len(Carried(box)) = Len(box) /\ Len(Carried(ms)) = Len(ms)
  BY CarriedType
<1>3. v \in Seq(Idents) /\ Len(v) = Len(box) + Len(ms)
  BY <1>2, SMTT(30)
<1>4. Carried(u) \in Seq(Idents) /\ Len(Carried(u)) = Len(u)
  BY <1>1, CarriedType
<1>5. \A k \in 1..Len(u) : Carried(u)[k] = v[k]
  <2> TAKE k \in 1..Len(u)
  <2>1. CASE k <= Len(box)
    <3>1. u[k] = box[k] /\ v[k] = Carried(box)[k] /\ k \in DOMAIN box /\ k \in DOMAIN u
      BY <1>1, <1>2, <2>1
    <3> HIDE DEF u, v
    <3> QED BY <3>1 DEF Carried
  <2>2. CASE k > Len(box)
    <3> DEFINE j == k - Len(box)
    <3>1. u[k] = ms[j] /\ v[k] = Carried(ms)[j] /\ j \in DOMAIN ms /\ k \in DOMAIN u
      BY <1>1, <1>2, <2>2
    <3> HIDE DEF u, v, j
    <3> QED BY <3>1 DEF Carried
  <2>3. k \in Int /\ Len(box) \in Int
    OBVIOUS
  <2> HIDE DEF u, v
  <2> QED BY <2>1, <2>2, <2>3
<1> HIDE DEF u, v
<1>6. Carried(u) = v
  BY <1>1, <1>3, <1>4, <1>5, SeqEqual
<1> QED BY <1>6 DEF u, v

LEMMA CarriedRequests ==
    ASSUME NEW rs \in Seq(Request)
    PROVE  Carried(IORequests(rs)) = Asked(rs)
BY DEF Carried, IORequests, Asked

LEMMA CarriedSignal ==
    ASSUME NEW t \in IOSignals
    PROVE  Carried(<<Signal(t)>>) = <<Internal>>
<1>1. t # "Request"
  BY DEF IOSignals
<1> QED BY <1>1 DEF Carried, Signal

LEMMA CarriedTail ==
    ASSUME NEW box \in Seq(IOMessage), box # <<>>
    PROVE  /\ Tail(box) \in Seq(IOMessage) /\ Carried(box) # <<>>
           /\ Carried(Tail(box)) = Tail(Carried(box))
           /\ Head(box).type = "Request" =>
                Head(Carried(box)) = Head(box).req.id /\ Head(box).req \in Request
<1>1. Head(box) \in IOMessage /\ Tail(box) \in Seq(IOMessage)
  BY HeadTailProperties
<1>2. Head(box).type = "Request" => Head(box).req \in Request
  BY <1>1 DEF IOMessage, IOSignals
<1> QED BY <1>1, <1>2 DEF Carried

-----------------------------------------------------------------------------
(* The places of one connection: the members of an open MULTI, what the    *)
(* server has received, what is being written, a failed write, what is not *)
(* written yet, and the mailbox of the IOActor.                            *)

Apart(x, r, w, f, p, b) ==
    /\ Once(x) /\ Once(r) /\ Once(w) /\ Once(f) /\ Once(p) /\ Once(b)
    /\ Users(x) \cap (Users(r) \cup Users(w) \cup Users(f) \cup Users(p) \cup Users(b)) = {}
    /\ Users(r) \cap (Users(w) \cup Users(f) \cup Users(p) \cup Users(b)) = {}
    /\ Users(w) \cap (Users(f) \cup Users(p) \cup Users(b)) = {}
    /\ Users(f) \cap (Users(p) \cup Users(b)) = {}
    /\ Users(p) \cap Users(b) = {}

AllOf(x, r, w, f, p, b) ==
    Users(x) \cup Users(r) \cup Users(w) \cup Users(f) \cup Users(p) \cup Users(b)

IdSeqs == Seq(Idents)

(* A command is received into the transaction the server is queueing.      *)
LEMMA ApartQueued ==
    ASSUME NEW x \in IdSeqs, NEW r \in IdSeqs, NEW w, NEW f, NEW p, NEW b,
           Apart(x, r, w, f, p, b), r # <<>>
    PROVE  /\ Apart(Append(x, Head(r)), Tail(r), w, f, p, b)
           /\ AllOf(Append(x, Head(r)), Tail(r), w, f, p, b) \subseteq AllOf(x, r, w, f, p, b)
<1>1. /\ Once(Tail(r)) /\ Users(Tail(r)) \subseteq Users(r)
      /\ Head(r) # Internal => Head(r) \in Users(r) /\ Head(r) \notin Users(Tail(r))
  BY OnceTail DEF Apart, IdSeqs
<1>2. Head(r) \in Idents /\ Append(x, Head(r)) = x \o <<Head(r)>>
  BY HeadTailProperties DEF IdSeqs
<1> DEFINE h == <<Head(r)>>
<1>3. h \in Seq(Idents) /\ Once(h) /\ Users(h) = {Head(r)} \ {Internal}
  BY <1>2, OnceSingle
<1> HIDE DEF h
<1>4. Users(h) \subseteq Users(r) /\ Users(h) \cap Users(Tail(r)) = {} /\ Users(h) \cap Users(x) = {}
  BY <1>1, <1>3 DEF Apart
<1>5. Once(x \o h) /\ Users(x \o h) = Users(x) \cup Users(h)
  BY <1>3, <1>4, OnceConcat, UsersConcat DEF Apart, IdSeqs
<1>6. Append(x, Head(r)) = x \o h
  BY <1>2 DEF h
<1> DEFINE x1 == x \o h
           r1 == Tail(r)
<1> HIDE DEF x1, r1
<1>7. Apart(x1, r1, w, f, p, b) /\ AllOf(x1, r1, w, f, p, b) \subseteq AllOf(x, r, w, f, p, b)
  BY <1>1, <1>4, <1>5 DEF Apart, AllOf, x1, r1
<1> QED BY <1>6, <1>7 DEF x1, r1

(* Of what was being written, w1 reaches the server.                       *)
LEMMA ApartReceived ==
    ASSUME NEW x, NEW r \in IdSeqs, NEW w, NEW f, NEW p, NEW b,
           Apart(x, r, w, f, p, b),
           NEW w1 \in IdSeqs, Once(w1), Users(w1) \subseteq Users(w)
    PROVE  /\ Apart(x, r \o w1, <<>>, f, p, b)
           /\ AllOf(x, r \o w1, <<>>, f, p, b) \subseteq AllOf(x, r, w, f, p, b)
<1>1. Once(r \o w1) /\ Users(r \o w1) = Users(r) \cup Users(w1)
  <2>1. Users(r) \cap Users(w1) = {} /\ Once(r)
    BY DEF Apart
  <2> QED BY <2>1, OnceConcat, UsersConcat DEF IdSeqs
<1> DEFINE r1 == r \o w1
           w2 == <<>>
<1>2. Once(w2) /\ Users(w2) = {}
  BY OnceEmpty
<1> HIDE DEF r1, w2
<1>3. Apart(x, r1, w2, f, p, b) /\ AllOf(x, r1, w2, f, p, b) \subseteq AllOf(x, r, w, f, p, b)
  BY <1>1, <1>2 DEF Apart, AllOf, r1
<1> QED BY <1>3 DEF r1, w2

(* Requests that are nowhere on the line are handed to the IOActor.        *)
LEMMA ApartHanded ==
    ASSUME NEW x, NEW r, NEW w, NEW f, NEW p, NEW b \in IdSeqs,
           Apart(x, r, w, f, p, b),
           NEW c \in IdSeqs, Once(c), Users(c) \cap AllOf(x, r, w, f, p, b) = {}
    PROVE  /\ Apart(x, r, w, f, p, b \o c)
           /\ AllOf(x, r, w, f, p, b \o c) = AllOf(x, r, w, f, p, b) \cup Users(c)
<1>1. Once(b \o c) /\ Users(b \o c) = Users(b) \cup Users(c)
  <2>1. Users(b) \cap Users(c) = {} /\ Once(b)
    BY DEF Apart, AllOf
  <2> QED BY <2>1, OnceConcat, UsersConcat DEF IdSeqs
<1> DEFINE b1 == b \o c
<1> HIDE DEF b1
<1>2. Apart(x, r, w, f, p, b1) /\ AllOf(x, r, w, f, p, b1) = AllOf(x, r, w, f, p, b) \cup Users(c)
  BY <1>1 DEF Apart, AllOf, b1
<1> QED BY <1>2 DEF b1

(* ...or a message that is no request.                                     *)
LEMMA ApartToldNothing ==
    ASSUME NEW x, NEW r, NEW w, NEW f, NEW p, NEW b \in IdSeqs, Apart(x, r, w, f, p, b)
    PROVE  /\ Apart(x, r, w, f, p, b \o <<Internal>>)
           /\ AllOf(x, r, w, f, p, b \o <<Internal>>) \subseteq AllOf(x, r, w, f, p, b)
<1> DEFINE c == <<Internal>>
<1>1. c \in IdSeqs /\ Once(c) /\ Users(c) = {}
  BY OnceSingle DEF IdSeqs, Idents
<1> HIDE DEF c
<1>2. Users(c) \cap AllOf(x, r, w, f, p, b) = {}
  BY <1>1
<1>3. /\ Apart(x, r, w, f, p, b \o c)
      /\ AllOf(x, r, w, f, p, b \o c) = AllOf(x, r, w, f, p, b) \cup Users(c)
  BY <1>1, <1>2, ApartHanded
<1> QED BY <1>1, <1>3 DEF c

(* The IOActor keeps the requests d, of those it has, for later.           *)
LEMMA ApartTaken ==
    ASSUME NEW x, NEW r, NEW w, NEW f, NEW p, NEW b, Apart(x, r, w, f, p, b),
           NEW f1, Once(f1), Users(f1) \subseteq Users(f),
           NEW d, Once(d), NEW b1, Once(b1), Users(b1) \subseteq Users(b),
           Users(d) \cap Users(b1) = {}, Users(d) \cap Users(f1) = {},
           Users(d) \subseteq Users(f) \cup Users(p) \cup Users(b)
    PROVE  /\ Apart(x, r, w, f1, d, b1)
           /\ AllOf(x, r, w, f1, d, b1) \subseteq AllOf(x, r, w, f, p, b)
BY DEF Apart, AllOf

(* The IOActor writes w1 and keeps d1 for later; nothing is being written. *)
LEMMA ApartWritten ==
    ASSUME NEW x, NEW r, NEW w, NEW f, NEW p, NEW b, Apart(x, r, w, f, p, b),
           NEW w1, Once(w1), NEW d1, Once(d1), NEW b1, Once(b1),
           Users(b1) \subseteq Users(b), Users(w1) \cap Users(d1) = {},
           Users(d1) \cap Users(b1) = {}, Users(w1) \cap Users(b1) = {},
           Users(d1) \subseteq Users(f) \cup Users(p) \cup Users(b),
           Users(w1) \subseteq Users(f) \cup Users(p) \cup Users(b)
    PROVE  /\ Apart(x, r, w1, <<>>, d1, b1)
           /\ AllOf(x, r, w1, <<>>, d1, b1) \subseteq AllOf(x, r, w, f, p, b)
<1> DEFINE f1 == <<>>
<1>1. Once(f1) /\ Users(f1) = {}
  BY OnceEmpty
<1> HIDE DEF f1
<1>2. Apart(x, r, w1, f1, d1, b1) /\ AllOf(x, r, w1, f1, d1, b1) \subseteq AllOf(x, r, w, f, p, b)
  BY <1>1 DEF Apart, AllOf
<1> QED BY <1>2 DEF f1

(* Each place loses some of what it has.                                   *)
LEMMA ApartLess ==
    ASSUME NEW x, NEW r, NEW w, NEW f, NEW p, NEW b, Apart(x, r, w, f, p, b),
           NEW x1, NEW r1, NEW w1, NEW f1, NEW p1, NEW b1,
           Once(x1), Once(r1), Once(w1), Once(f1), Once(p1), Once(b1),
           Users(x1) \subseteq Users(x), Users(r1) \subseteq Users(r),
           Users(w1) \subseteq Users(w), Users(f1) \subseteq Users(f),
           Users(p1) \subseteq Users(p), Users(b1) \subseteq Users(b)
    PROVE  /\ Apart(x1, r1, w1, f1, p1, b1)
           /\ AllOf(x1, r1, w1, f1, p1, b1) \subseteq AllOf(x, r, w, f, p, b)
BY DEF Apart, AllOf

-----------------------------------------------------------------------------
(* One IOActor and its connection.                                         *)

Failed(a) == IF WriteFailed(a) THEN a.batch ELSE <<>>

Line(a, t) ==
    Apart(t.members, Asked(t.wire), Asked(t.writing), Asked(Failed(a)),
          Asked(a.requests), Carried(a.box))
OnLine(a, t) ==
    AllOf(t.members, Asked(t.wire), Asked(t.writing), Asked(Failed(a)),
          Asked(a.requests), Carried(a.box))

(* One write at a time: it is under way, or its end is in the mailbox, or  *)
(* the IOActor may write.  When it has stopped it receives nothing.        *)
AckTypes == {"WriteAck", "WriteFailed"}
Acks(box) == {k \in DOMAIN box : box[k].type \in AckTypes}
OneWrite(a, t) ==
    /\ \A j, k \in Acks(a.box) : j = k
    /\ a.state # "stopped" /\ t.writing # <<>> => Acks(a.box) = {} /\ a.batch = t.writing
    /\ a.state \in {"none", "connecting"} \/ (a.state = "connected" /\ a.canWrite)
         => Acks(a.box) = {} /\ t.writing = <<>>
    /\ a.state = "stopped" => a.box = <<>>

ConnInv(a, t) == Line(a, t) /\ OneWrite(a, t)

(* From a and t to b and u, requests move forward on the line or leave it. *)
Forward(a, t, b, u) == ConnInv(b, u) /\ OnLine(b, u) \subseteq OnLine(a, t)

LEMMA ActorFields ==
    ASSUME NEW a \in IOType
    PROVE  /\ a.box \in Seq(IOMessage) /\ a.batch \in Seq(Request)
           /\ a.requests \in Seq(Request) /\ a.canWrite \in BOOLEAN /\ a.state \in IOStates
           /\ Failed(a) \in Seq(Request)
BY DEF IOType, Failed

LEMMA ConnectionFields ==
    ASSUME NEW t \in TcpType
    PROVE  /\ t.wire \in Seq(Request) /\ t.writing \in Seq(Request)
           /\ t.members \in Seq(Idents)
BY DEF TcpType, Idents

(* All places hold sequences of identities.                                *)
LEMMA PlacesType ==
    ASSUME NEW a \in IOType, NEW t \in TcpType
    PROVE  /\ t.members \in IdSeqs /\ Asked(t.wire) \in IdSeqs /\ Asked(t.writing) \in IdSeqs
           /\ Asked(Failed(a)) \in IdSeqs /\ Asked(a.requests) \in IdSeqs
           /\ Carried(a.box) \in IdSeqs
BY ActorFields, ConnectionFields, AskedType, CarriedType DEF IdSeqs

LEMMA Appended ==
    ASSUME NEW box \in Seq(IOMessage), NEW ms \in Seq(IOMessage), Acks(ms) = {}
    PROVE  /\ Acks(box \o ms) = Acks(box)
           /\ \A k \in DOMAIN (box \o ms) : (box \o ms)[k].type = "WriteFailed" =>
                k \in DOMAIN box /\ box[k].type = "WriteFailed"
           /\ \A k \in DOMAIN box : k \in DOMAIN (box \o ms) /\ (box \o ms)[k] = box[k]
<1> DEFINE u == box \o ms
<1>1. \A k \in DOMAIN u : \/ k \in DOMAIN box /\ u[k] = box[k]
                          \/ k - Len(box) \in DOMAIN ms /\ u[k] = ms[k - Len(box)]
  OBVIOUS
<1>2. \A k \in DOMAIN box : k \in DOMAIN u /\ u[k] = box[k]
  OBVIOUS
<1>3. \A k \in DOMAIN ms : ms[k].type \notin AckTypes
  BY DEF Acks
<1> HIDE DEF u
<1>4. Acks(u) = Acks(box)
  BY <1>1, <1>2, <1>3 DEF Acks
<1>5. \A k \in DOMAIN u : u[k].type = "WriteFailed" => k \in DOMAIN box /\ box[k].type = "WriteFailed"
  BY <1>1, <1>3 DEF AckTypes
<1> QED BY <1>2, <1>4, <1>5 DEF u

(* Messages without a request or the end of a write change nothing.        *)
LEMMA ToldSignal ==
    ASSUME NEW a \in IOType, NEW t \in TcpType, ConnInv(a, t),
           NEW s \in IOSignals \ AckTypes
    PROVE  Forward(a, t, Told(a, <<Signal(s)>>), t)
<1> DEFINE b == Told(a, <<Signal(s)>>)
           ms == <<Signal(s)>>
<1>1. CASE a.state \in {"none", "stopped"}
  BY <1>1 DEF Told, Forward
<1>2. CASE a.state \notin {"none", "stopped"}
  <2>1. b = [a EXCEPT !.box = a.box \o ms]
    BY <1>2 DEF Told
  <2>2. ms \in Seq(IOMessage) /\ Acks(ms) = {} /\ Carried(ms) = <<Internal>>
    <3>1. Signal(s) \in IOMessage
      BY SignalType
    <3> QED BY <3>1, CarriedSignal DEF Acks, Signal
  <2> HIDE DEF b, ms
  <2>3. /\ b.box = a.box \o ms /\ b.batch = a.batch /\ b.requests = a.requests
        /\ b.state = a.state /\ b.canWrite = a.canWrite
    BY <2>1 DEF IOType
  <2>4. /\ Acks(b.box) = Acks(a.box)
        /\ WriteFailed(b) = WriteFailed(a)
    BY <2>2, <2>3, Appended, ActorFields DEF WriteFailed
  <2>5. Carried(b.box) = Carried(a.box) \o <<Internal>>
    BY <2>2, <2>3, CarriedConcat, ActorFields
  <2>6. <<Internal>> \in IdSeqs /\ Once(<<Internal>>) /\ Users(<<Internal>>) = {}
    BY OnceSingle DEF IdSeqs, Idents
  <2>7. Failed(b) = Failed(a)
    BY <2>3, <2>4 DEF Failed
  <2>8. Line(b, t) /\ OnLine(b, t) \subseteq OnLine(a, t)
    BY <2>3, <2>5, <2>6, <2>7, PlacesType, ApartToldNothing DEF ConnInv, Line, OnLine
  <2>9. OneWrite(b, t)
    BY <1>2, <2>3, <2>4 DEF ConnInv, OneWrite
  <2> QED BY <2>8, <2>9 DEF Forward, ConnInv, b, ms
<1> QED BY <1>1, <1>2

(* The listener hands requests to the IOActor that are not on its line.    *)
LEMMA ToldRequests ==
    ASSUME NEW a \in IOType, NEW t \in TcpType, ConnInv(a, t),
           NEW rs \in Seq(Request), Once(Asked(rs)), Users(Asked(rs)) \cap OnLine(a, t) = {}
    PROVE  /\ ConnInv(Told(a, IORequests(rs)), t)
           /\ OnLine(Told(a, IORequests(rs)), t) \subseteq OnLine(a, t) \cup Users(Asked(rs))
<1> DEFINE b == Told(a, IORequests(rs))
           ms == IORequests(rs)
<1>1. CASE a.state \in {"none", "stopped"}
  BY <1>1 DEF Told, Forward
<1>2. CASE a.state \notin {"none", "stopped"}
  <2>1. b = [a EXCEPT !.box = a.box \o ms]
    BY <1>2 DEF Told
  <2>2. ms \in Seq(IOMessage) /\ Acks(ms) = {} /\ Carried(ms) = Asked(rs)
    BY IORequestsType, CarriedRequests DEF Acks, AckTypes, IORequests
  <2> HIDE DEF b, ms
  <2>3. /\ b.box = a.box \o ms /\ b.batch = a.batch /\ b.requests = a.requests
        /\ b.state = a.state /\ b.canWrite = a.canWrite
    BY <2>1 DEF IOType
  <2>4. /\ Acks(b.box) = Acks(a.box)
        /\ WriteFailed(b) = WriteFailed(a)
    BY <2>2, <2>3, Appended, ActorFields, SMTT(30) DEF WriteFailed
  <2>5. Carried(b.box) = Carried(a.box) \o Asked(rs)
    BY <2>2, <2>3, CarriedConcat, ActorFields
  <2>6. Asked(rs) \in IdSeqs
    BY AskedType DEF IdSeqs
  <2>7. Failed(b) = Failed(a)
    BY <2>3, <2>4 DEF Failed
  <2>8. /\ Line(b, t) /\ OnLine(b, t) = OnLine(a, t) \cup Users(Asked(rs))
    BY <2>3, <2>5, <2>6, <2>7, PlacesType, ApartHanded DEF ConnInv, Line, OnLine
  <2>9. OneWrite(b, t)
    BY <1>2, <2>3, <2>4 DEF ConnInv, OneWrite
  <2> QED BY <2>8, <2>9 DEF ConnInv, b, ms
<1> QED BY <1>1, <1>2

(* The first message is taken from a mailbox.                              *)
LEMMA AcksTail ==
    ASSUME NEW box \in Seq(IOMessage), box # <<>>, \A j, k \in Acks(box) : j = k
    PROVE  /\ \A j, k \in Acks(Tail(box)) : j = k
           /\ Acks(box) = {} \/ Head(box).type \in AckTypes => Acks(Tail(box)) = {}
           /\ \A k \in DOMAIN Tail(box) : Tail(box)[k].type = "WriteFailed" =>
                \E j \in DOMAIN box : box[j].type = "WriteFailed"
<1> DEFINE u == Tail(box)
<1>1. \A k \in DOMAIN u : k \in Int /\ k + 1 \in DOMAIN box /\ u[k] = box[k + 1] /\ k + 1 # 1
  BY HeadTailProperties
<1>2. Head(box) = box[1] /\ 1 \in DOMAIN box
  OBVIOUS
<1> HIDE DEF u
<1>3. \A k \in Acks(u) : k \in Int /\ k + 1 \in Acks(box) /\ k + 1 # 1
  BY <1>1 DEF Acks
<1>4. \A j, k \in Acks(u) : j = k
  <2> TAKE j, k \in Acks(u)
  <2>1. j + 1 = k + 1 /\ j \in Int /\ k \in Int
    BY <1>3
  <2> QED BY <2>1
<1>5. Acks(box) = {} => Acks(u) = {}
  BY <1>3
<1>6. Head(box).type \in AckTypes => Acks(u) = {}
  <2>1. Head(box).type \in AckTypes => 1 \in Acks(box)
    BY <1>2 DEF Acks
  <2> QED BY <2>1, <1>3
<1>7. \A k \in DOMAIN u : u[k].type = "WriteFailed" => \E j \in DOMAIN box : box[j].type = "WriteFailed"
  BY <1>1
<1> QED BY <1>4, <1>5, <1>6, <1>7 DEF u

(* What a mailbox carries without its first message.                       *)
LEMMA CarriedOnce ==
    ASSUME NEW box \in Seq(IOMessage), box # <<>>, Once(Carried(box))
    PROVE  /\ Tail(box) \in Seq(IOMessage) /\ Carried(Tail(box)) \in IdSeqs
           /\ Once(Carried(Tail(box))) /\ Users(Carried(Tail(box))) \subseteq Users(Carried(box))
           /\ Head(box).type = "Request" /\ Head(box).req.id # Internal =>
                /\ Head(box).req.id \in Users(Carried(box))
                /\ Head(box).req.id \notin Users(Carried(Tail(box)))
<1> DEFINE c == Carried(box)
           d == Carried(Tail(box))
<1>1. /\ Tail(box) \in Seq(IOMessage) /\ c # <<>> /\ d = Tail(c)
      /\ Head(box).type = "Request" => Head(c) = Head(box).req.id
  BY CarriedTail
<1>2. c \in Seq(Idents) /\ d \in Seq(Idents)
  BY <1>1, CarriedType
<1> HIDE DEF c, d
<1>3. /\ Once(d) /\ Users(d) \subseteq Users(c)
      /\ Head(c) # Internal => Head(c) \in Users(c) /\ Head(c) \notin Users(d)
  BY <1>1, <1>2, OnceTail DEF c
<1> QED BY <1>1, <1>2, <1>3 DEF c, d, IdSeqs

LEMMA AppendConcat ==
    ASSUME NEW S, NEW s \in Seq(S), NEW e \in S
    PROVE  Append(s, e) = s \o <<e>> /\ <<e>> \in Seq(S) /\ Append(s, e) \in Seq(S)
OBVIOUS

(* One more request waits.                                                 *)
LEMMA RequestTaken ==
    ASSUME NEW rs \in Seq(Request), NEW q \in Request, Once(Asked(rs)),
           q.id # Internal => q.id \notin Users(Asked(rs))
    PROVE  /\ Append(rs, q) \in Seq(Request) /\ Once(Asked(Append(rs, q)))
           /\ Users(Asked(Append(rs, q))) = Users(Asked(rs)) \cup ({q.id} \ {Internal})
<1> DEFINE d == Asked(Append(rs, q))
           h == <<q.id>>
<1>1. Append(rs, q) = rs \o <<q>> /\ <<q>> \in Seq(Request) /\ Append(rs, q) \in Seq(Request)
  BY AppendConcat
<1>2. Asked(<<q>>) = h
  BY DEF Asked
<1>3. d = Asked(rs) \o h
  BY <1>1, <1>2, AskedConcat
<1>4. /\ Once(h) /\ Users(h) = {q.id} \ {Internal}
      /\ h \in Seq(Idents) /\ Asked(rs) \in Seq(Idents)
  <2>1. q.id \in Idents
    BY DEF Request, Idents
  <2> QED BY <2>1, OnceSingle, AskedType
<1> HIDE DEF d, h
<1>5. Once(d) /\ Users(d) = Users(Asked(rs)) \cup Users(h)
  <2>1. Users(Asked(rs)) \cap Users(h) = {}
    BY <1>4
  <2> QED BY <2>1, <1>3, <1>4, OnceConcat, UsersConcat
<1> QED BY <1>1, <1>4, <1>5 DEF d

(* The IOActor takes a message and keeps all that it has.                  *)
LEMMA Consumes ==
    ASSUME NEW a \in IOType, NEW t \in TcpType, ConnInv(a, t), a.box # <<>>,
           a.state # "stopped", NEW b \in IOType, b.state # "stopped",
           b.box = Tail(a.box), b.batch = a.batch, b.requests = a.requests,
           b.state \in {"none", "connecting"} \/ (b.state = "connected" /\ b.canWrite)
             => a.state \in {"none", "connecting"} \/ (a.state = "connected" /\ a.canWrite)
    PROVE  Forward(a, t, b, t)
<1> USE DEF ConnInv
<1>1. a.box \in Seq(IOMessage) /\ Once(Carried(a.box))
  BY ActorFields DEF Line, Apart
<1>2. Once(Carried(b.box)) /\ Users(Carried(b.box)) \subseteq Users(Carried(a.box))
  BY <1>1, CarriedOnce
<1>3. /\ \A j, k \in Acks(b.box) : j = k
      /\ Acks(a.box) = {} => Acks(b.box) = {}
      /\ WriteFailed(b) => WriteFailed(a)
  BY <1>1, AcksTail DEF OneWrite, WriteFailed
<1>4. OneWrite(b, t)
  BY <1>3 DEF OneWrite
<1>5. Asked(Failed(b)) = Asked(Failed(a)) \/ Asked(Failed(b)) = <<>>
  BY <1>3, AskedEmpty DEF Failed
<1>6. Once(Asked(Failed(b))) /\ Users(Asked(Failed(b))) \subseteq Users(Asked(Failed(a)))
  BY <1>5, OnceEmpty DEF Line, Apart
<1>7. Line(b, t) /\ OnLine(b, t) \subseteq OnLine(a, t)
  BY <1>2, <1>6, ApartLess DEF Line, OnLine, Apart
<1> QED BY <1>4, <1>7 DEF Forward

(* ...or keeps the request it takes with those that wait.                  *)
LEMMA KeepsRequest ==
    ASSUME NEW a \in IOType, NEW t \in TcpType, ConnInv(a, t), a.box # <<>>,
           a.state = "connected", ~a.canWrite, Head(a.box).type = "Request",
           NEW b \in IOType, b.box = Tail(a.box), b.batch = a.batch,
           b.requests = Append(a.requests, Head(a.box).req),
           b.state = a.state, b.canWrite = a.canWrite
    PROVE  Forward(a, t, b, t)
<1> USE DEF ConnInv
<1>1. a.box \in Seq(IOMessage) /\ Once(Carried(a.box))
  BY ActorFields DEF Line, Apart
<1>2. Once(Carried(b.box)) /\ Users(Carried(b.box)) \subseteq Users(Carried(a.box))
  BY <1>1, CarriedOnce
<1>3. /\ \A j, k \in Acks(b.box) : j = k
      /\ Acks(a.box) = {} => Acks(b.box) = {}
      /\ WriteFailed(b) => WriteFailed(a)
  BY <1>1, AcksTail DEF OneWrite, WriteFailed
<1>4. OneWrite(b, t)
  BY <1>3 DEF OneWrite
<1>5. Once(Asked(Failed(b))) /\ Users(Asked(Failed(b))) \subseteq Users(Asked(Failed(a)))
  <2>1. Asked(Failed(b)) = Asked(Failed(a)) \/ Asked(Failed(b)) = <<>>
    BY <1>3, AskedEmpty DEF Failed
  <2> QED BY <2>1, OnceEmpty DEF Line, Apart
<1>6. /\ Once(Asked(b.requests)) /\ Users(Asked(b.requests)) \cap Users(Carried(b.box)) = {}
      /\ Users(Asked(b.requests)) \cap Users(Asked(Failed(a))) = {}
      /\ Users(Asked(b.requests)) \subseteq Users(Asked(a.requests)) \cup Users(Carried(a.box))
  <2> DEFINE q == Head(a.box).req
  <2>1. /\ q \in Request /\ a.requests \in Seq(Request) /\ b.requests = Append(a.requests, q)
        /\ q.id # Internal => q.id \in Users(Carried(a.box)) /\ q.id \notin Users(Carried(b.box))
    BY <1>1, CarriedTail, CarriedOnce, ActorFields
  <2>2. /\ Once(Asked(a.requests)) /\ Users(Asked(a.requests)) \cap Users(Carried(a.box)) = {}
        /\ Users(Asked(Failed(a))) \cap (Users(Asked(a.requests)) \cup Users(Carried(a.box))) = {}
    BY DEF Line, Apart
  <2> HIDE DEF q
  <2>3. /\ Once(Asked(Append(a.requests, q)))
        /\ Users(Asked(Append(a.requests, q))) = Users(Asked(a.requests)) \cup ({q.id} \ {Internal})
    BY <2>1, <2>2, RequestTaken
  <2> QED BY <1>2, <2>1, <2>2, <2>3
<1>7. Line(b, t) /\ OnLine(b, t) \subseteq OnLine(a, t)
  BY <1>2, <1>5, <1>6, ApartTaken DEF Line, OnLine
<1> QED BY <1>4, <1>7 DEF Forward

(* A write has been carried out, or has failed.                            *)
LEMMA AckAppended ==
    ASSUME NEW box \in Seq(IOMessage), Acks(box) = {}, NEW s \in AckTypes
    PROVE  /\ \A j, k \in Acks(box \o <<Signal(s)>>) : j = k
           /\ s = "WriteAck" => \A k \in DOMAIN (box \o <<Signal(s)>>) :
                                   (box \o <<Signal(s)>>)[k].type # "WriteFailed"
<1> DEFINE m == Signal(s)
           u == box \o <<m>>
<1>1. m.type = s
  BY DEF Signal
<1>2. \A k \in DOMAIN u : \/ k \in DOMAIN box /\ u[k] = box[k]
                          \/ k = Len(box) + 1 /\ u[k] = m
  OBVIOUS
<1> HIDE DEF u, m
<1>3. \A k \in Acks(u) : k = Len(box) + 1
  BY <1>2 DEF Acks
<1>4. s = "WriteAck" => \A k \in DOMAIN u : u[k].type # "WriteFailed"
  BY <1>1, <1>2 DEF Acks, AckTypes
<1> QED BY <1>3, <1>4 DEF u, m

LEMMA WriteEnds ==
    ASSUME NEW a \in IOType, NEW t \in TcpType, ConnInv(a, t), t.writing # <<>>,
           NEW s \in AckTypes, NEW u \in TcpType, u.writing = <<>>, u.members = t.members,
           \/ s = "WriteAck" /\ u.wire = t.wire \o t.writing
           \/ s = "WriteFailed" /\ u.wire = t.wire
    PROVE  Forward(a, t, Told(a, <<Signal(s)>>), u)
<1> DEFINE b == Told(a, <<Signal(s)>>)
           none == <<>>
<1> USE DEF ConnInv
<1>0. /\ t.wire \in Seq(Request) /\ t.writing \in Seq(Request)
      /\ Asked(t.wire) \in IdSeqs /\ Asked(t.writing) \in IdSeqs
      /\ Once(Asked(t.writing)) /\ Asked(u.writing) = none /\ Once(none) /\ Users(none) = {}
  BY ConnectionFields, PlacesType, AskedEmpty, OnceEmpty DEF Line, Apart
<1>1. CASE a.state = "stopped"
  <2>1. b = a
    BY <1>1 DEF Told
  <2>2. Line(a, u) /\ OnLine(a, u) \subseteq OnLine(a, t)
    <3>1. CASE s = "WriteAck"
      <4>1. Asked(u.wire) = Asked(t.wire) \o Asked(t.writing)
        BY <1>0, <3>1, AskedConcat
      <4> QED BY <1>0, <4>1, ApartReceived DEF Line, OnLine
    <3>2. CASE s = "WriteFailed"
      <4> HIDE DEF none
      <4> QED BY <1>0, <3>2, ApartLess DEF Line, OnLine, Apart
    <3> QED BY <3>1, <3>2
  <2>3. OneWrite(a, u)
    BY <1>1 DEF OneWrite
  <2> QED BY <2>1, <2>2, <2>3 DEF Forward
<1>2. CASE a.state # "stopped"
  <2>1. Acks(a.box) = {} /\ a.batch = t.writing
        /\ ~(a.state \in {"none", "connecting"} \/ (a.state = "connected" /\ a.canWrite))
    BY <1>2 DEF OneWrite
  <2> DEFINE ms == <<Signal(s)>>
  <2>2. /\ b.box = a.box \o ms /\ b.batch = a.batch /\ b.requests = a.requests
        /\ b.state = a.state /\ b.canWrite = a.canWrite
    BY <1>2, <2>1 DEF Told, IOType
  <2>3. a.box \in Seq(IOMessage) /\ ms \in Seq(IOMessage) /\ Carried(ms) = <<Internal>>
    <3>1. s \in IOSignals
      BY DEF AckTypes, IOSignals
    <3>2. Signal(s) \in IOMessage
      BY <3>1, SignalType
    <3> QED BY <3>1, <3>2, CarriedSignal, ActorFields
  <2>4. /\ \A j, k \in Acks(b.box) : j = k
        /\ s = "WriteAck" => ~WriteFailed(b)
    <3> HIDE DEF b
    <3> QED BY <2>1, <2>2, <2>3, AckAppended DEF WriteFailed
  <2> HIDE DEF ms, b
  <2>5. Carried(b.box) = Carried(a.box) \o <<Internal>>
    BY <2>2, <2>3, CarriedConcat
  <2>6. OneWrite(b, u)
    BY <1>2, <2>1, <2>2, <2>4 DEF OneWrite
  <2>7. ~WriteFailed(a)
    BY <2>1 DEF Acks, AckTypes, WriteFailed
  <2>8. Asked(Failed(a)) = none /\ (Asked(Failed(b)) = none \/ Asked(Failed(b)) = Asked(t.writing))
    BY <2>1, <2>2, <2>7, AskedEmpty DEF Failed
  <2>9. /\ Apart(t.members, Asked(t.wire), Asked(t.writing), none, Asked(a.requests), Carried(b.box))
        /\ AllOf(t.members, Asked(t.wire), Asked(t.writing), none, Asked(a.requests), Carried(b.box))
             \subseteq OnLine(a, t)
    BY <2>5, <2>8, PlacesType, ApartToldNothing DEF Line, OnLine
  <2> HIDE DEF none
  <2>10. CASE s = "WriteAck"
    <3>1. Asked(u.wire) = Asked(t.wire) \o Asked(t.writing) /\ Failed(b) = <<>>
      BY <1>0, <2>4, <2>10, AskedConcat DEF AckTypes, Failed
    <3>2. Asked(Failed(b)) = none
      BY <3>1, AskedEmpty DEF none
    <3>3. none = <<>>
      BY DEF none
    <3> DEFINE r1 == Asked(t.wire) \o Asked(t.writing)
    <3>4. /\ Apart(t.members, r1, none, none, Asked(a.requests), Carried(b.box))
          /\ AllOf(t.members, r1, none, none, Asked(a.requests), Carried(b.box)) \subseteq OnLine(a, t)
      <4>1. /\ Apart(t.members, r1, <<>>, none, Asked(a.requests), Carried(b.box))
            /\ AllOf(t.members, r1, <<>>, none, Asked(a.requests), Carried(b.box))
                 \subseteq AllOf(t.members, Asked(t.wire), Asked(t.writing), none,
                                 Asked(a.requests), Carried(b.box))
        BY <1>0, <2>9, ApartReceived
      <4> QED BY <2>9, <3>3, <4>1
    <3> HIDE DEF r1
    <3>5. Line(b, u) /\ OnLine(b, u) \subseteq OnLine(a, t)
      BY <1>0, <2>2, <3>1, <3>2, <3>4 DEF Line, OnLine, r1
    <3> QED BY <2>6, <3>5 DEF Forward, b, ms
  <2>11. CASE s = "WriteFailed"
    <3>1. Apart(t.members, Asked(t.wire), none, Asked(Failed(b)), Asked(a.requests), Carried(b.box))
      BY <1>0, <2>8, <2>9 DEF Apart
    <3>2. AllOf(t.members, Asked(t.wire), none, Asked(Failed(b)), Asked(a.requests), Carried(b.box))
             \subseteq OnLine(a, t)
      BY <1>0, <2>8, <2>9 DEF AllOf
    <3>3. Line(b, u) /\ OnLine(b, u) \subseteq OnLine(a, t)
      BY <1>0, <2>2, <2>11, <3>1, <3>2 DEF Line, OnLine, AckTypes
    <3> QED BY <2>6, <3>3 DEF Forward, b, ms
  <2> QED BY <2>10, <2>11 DEF AckTypes
<1> QED BY <1>1, <1>2

(* The connection closes; the beginning of a write may have left.          *)
LEMMA LineCloses ==
    ASSUME NEW a \in IOType, NEW t \in TcpType, ConnInv(a, t), NEW n \in 0..Len(t.writing),
           NEW u \in TcpType, u.writing = <<>>, u.members = t.members,
           u.wire = t.wire \o SubSeq(t.writing, 1, n)
    PROVE  Forward(a, t, a, u)
<1> DEFINE w1 == SubSeq(t.writing, 1, n)
<1>1. /\ t.wire \in Seq(Request) /\ t.writing \in Seq(Request) /\ n \in Nat /\ n <= Len(t.writing)
      /\ Asked(t.wire) \in IdSeqs
  BY ConnectionFields, PlacesType
<1>2. w1 \in Seq(Request) /\ Asked(w1) = SubSeq(Asked(t.writing), 1, n)
  BY <1>1, AskedPart
<1>3. Asked(t.writing) \in Seq(Idents) /\ Len(Asked(t.writing)) = Len(t.writing)
  BY <1>1, AskedType
<1> HIDE DEF w1
<1>4. Asked(w1) \in IdSeqs /\ Once(Asked(w1)) /\ Users(Asked(w1)) \subseteq Users(Asked(t.writing))
  <2>1. Once(Asked(t.writing))
    BY DEF ConnInv, Line, Apart
  <2> QED BY <1>1, <1>2, <1>3, <2>1, OnceCut DEF IdSeqs
<1>5. Asked(u.wire) = Asked(t.wire) \o Asked(w1)
  BY <1>1, <1>2, AskedConcat DEF w1
<1>6. Asked(u.writing) = <<>>
  BY AskedEmpty
<1>7. Line(a, u) /\ OnLine(a, u) \subseteq OnLine(a, t)
  BY <1>1, <1>4, <1>5, <1>6, ApartReceived DEF ConnInv, Line, OnLine
<1>8. OneWrite(a, u)
  BY DEF ConnInv, OneWrite
<1> QED BY <1>7, <1>8 DEF Forward, ConnInv

(* The server takes a command: into the transaction it is queueing...      *)
LEMMA LineQueues ==
    ASSUME NEW a \in IOType, NEW t \in TcpType, ConnInv(a, t), t.wire # <<>>,
           NEW u \in TcpType, u.writing = t.writing, u.wire = Tail(t.wire),
           u.members = Append(t.members, Head(t.wire).id)
    PROVE  Forward(a, t, a, u)
<1>1. t.wire \in Seq(Request)
  BY ConnectionFields
<1>2. Asked(u.wire) = Tail(Asked(t.wire)) /\ Head(Asked(t.wire)) = Head(t.wire).id
      /\ Asked(t.wire) # <<>>
  BY <1>1, AskedTail
<1> DEFINE x == t.members
           r == Asked(t.wire)
<1>3. x \in IdSeqs /\ r \in IdSeqs /\ r # <<>> /\ u.members = Append(x, Head(r))
  BY <1>2, PlacesType
<1>4. Apart(x, r, Asked(t.writing), Asked(Failed(a)), Asked(a.requests), Carried(a.box))
  BY DEF ConnInv, Line
<1> HIDE DEF x, r
<1>5. /\ Apart(Append(x, Head(r)), Tail(r), Asked(t.writing), Asked(Failed(a)),
               Asked(a.requests), Carried(a.box))
      /\ AllOf(Append(x, Head(r)), Tail(r), Asked(t.writing), Asked(Failed(a)),
               Asked(a.requests), Carried(a.box))
         \subseteq AllOf(x, r, Asked(t.writing), Asked(Failed(a)), Asked(a.requests), Carried(a.box))
  BY <1>3, <1>4, ApartQueued
<1>6. Line(a, u) /\ OnLine(a, u) \subseteq OnLine(a, t)
  BY <1>2, <1>3, <1>5 DEF Line, OnLine, x, r
<1>7. OneWrite(a, u)
  BY DEF ConnInv, OneWrite
<1> QED BY <1>6, <1>7 DEF Forward, ConnInv

(* ...or to execute it, alone or as the EXEC of that transaction: what it  *)
(* executes leaves the line.                                               *)
LEMMA LineRuns ==
    ASSUME NEW a \in IOType, NEW t \in TcpType, ConnInv(a, t), t.wire # <<>>,
           NEW u \in TcpType, u.writing = t.writing, u.wire = Tail(t.wire), NEW ids,
           \/ u.members = t.members /\ ids = <<Head(t.wire).id>>
           \/ u.members = <<>> /\ ids = Append(t.members, Head(t.wire).id)
    PROVE  /\ Forward(a, t, a, u) /\ Once(ids)
           /\ Users(ids) \subseteq OnLine(a, t) /\ Users(ids) \cap OnLine(a, u) = {}
<1>1. t.wire \in Seq(Request)
  BY ConnectionFields
<1>2. Asked(u.wire) = Tail(Asked(t.wire)) /\ Head(Asked(t.wire)) = Head(t.wire).id
      /\ Asked(t.wire) # <<>>
  BY <1>1, AskedTail
<1> DEFINE x == t.members
           r == Asked(t.wire)
           r1 == Asked(u.wire)
           w == Asked(t.writing)
           f == Asked(Failed(a))
           p == Asked(a.requests)
           b == Carried(a.box)
<1>3. /\ x \in IdSeqs /\ r \in IdSeqs /\ r # <<>> /\ Head(r) = Head(t.wire).id /\ r1 = Tail(r)
      /\ Asked(u.writing) = w
  BY <1>2, PlacesType
<1>4. Apart(x, r, w, f, p, b) /\ OnLine(a, t) = AllOf(x, r, w, f, p, b)
  BY DEF ConnInv, Line, OnLine
<1>5. /\ Line(a, u) <=> Apart(u.members, r1, w, f, p, b)
      /\ OnLine(a, u) = AllOf(u.members, r1, w, f, p, b)
  BY <1>3 DEF Line, OnLine
<1> HIDE DEF x, r, r1, w, f, p, b
<1>6. OneWrite(a, u)
  BY DEF ConnInv, OneWrite
<1>7. /\ Once(r1) /\ Users(r1) \subseteq Users(r)
      /\ Head(r) # Internal => Head(r) \in Users(r) /\ Head(r) \notin Users(r1)
  <2>1. Once(r)
    BY <1>4 DEF Apart
  <2> QED BY <1>3, <2>1, OnceTail DEF IdSeqs
<1>8. CASE u.members = t.members /\ ids = <<Head(t.wire).id>>
  <2>1. u.members = x /\ ids = <<Head(r)>>
    BY <1>3, <1>8 DEF x
  <2>2. Once(ids) /\ Users(ids) = {Head(r)} \ {Internal}
    BY <2>1, OnceSingle
  <2>3. Apart(x, r1, w, f, p, b) /\ AllOf(x, r1, w, f, p, b) \subseteq AllOf(x, r, w, f, p, b)
    BY <1>4, <1>7 DEF Apart, AllOf
  <2>4. Users(ids) \subseteq AllOf(x, r, w, f, p, b) /\ Users(ids) \cap AllOf(x, r1, w, f, p, b) = {}
    BY <1>4, <1>7, <2>2 DEF Apart, AllOf
  <2> QED BY <1>4, <1>5, <1>6, <2>1, <2>2, <2>3, <2>4 DEF Forward, ConnInv
<1>9. CASE u.members = <<>> /\ ids = Append(t.members, Head(t.wire).id)
  <2>1. ids = Append(x, Head(r))
    BY <1>3, <1>9 DEF x
  <2>2. /\ Apart(ids, r1, w, f, p, b) /\ AllOf(ids, r1, w, f, p, b) \subseteq AllOf(x, r, w, f, p, b)
    BY <1>3, <1>4, <2>1, ApartQueued
  <2> DEFINE none == <<>>
  <2>3. u.members = none /\ Once(none) /\ Users(none) = {}
    BY <1>9, OnceEmpty
  <2> HIDE DEF none
  <2>4. /\ Apart(none, r1, w, f, p, b) /\ Once(ids)
        /\ AllOf(none, r1, w, f, p, b) \subseteq AllOf(x, r, w, f, p, b)
        /\ Users(ids) \subseteq AllOf(x, r, w, f, p, b)
        /\ Users(ids) \cap AllOf(none, r1, w, f, p, b) = {}
    BY <2>2, <2>3 DEF Apart, AllOf
  <2> QED BY <1>4, <1>5, <1>6, <2>3, <2>4 DEF Forward, ConnInv
<1> QED BY <1>8, <1>9

(* A spent command is gone.                                                *)
LEMMA LineSkips ==
    ASSUME NEW a \in IOType, NEW t \in TcpType, ConnInv(a, t), t.wire # <<>>,
           NEW u \in TcpType, u.writing = t.writing, u.wire = Tail(t.wire), u.members = t.members
    PROVE  Forward(a, t, a, u)
BY LineRuns

(* write() of the IOActor: the next batch of what waits.                   *)
LEMMA LineWrites ==
    ASSUME NEW a \in IOType, NEW t \in TcpType, ConnInv(a, t), a.box # <<>>,
           Acks(Tail(a.box)) = {}, t.writing = <<>>,
           NEW pending \in Seq(Request), Once(Asked(pending)),
           Users(Asked(pending)) \cap Users(Carried(Tail(a.box))) = {},
           Users(Asked(pending)) \subseteq Users(Asked(Failed(a))) \cup Users(Asked(a.requests))
                                             \cup Users(Carried(a.box)),
           NEW n \in Nat, n <= Len(pending),
           NEW b \in IOType, b.box = Tail(a.box), b.batch = SubSeq(pending, 1, n),
           b.requests = SubSeq(pending, n + 1, Len(pending)), b.canWrite = (pending = <<>>),
           b.state = "connected", NEW u \in TcpType, u.members = t.members, u.wire = t.wire,
           \/ u.writing = b.batch /\ pending # <<>>
           \/ u.writing = <<>>
    PROVE  Forward(a, t, b, u)
<1> USE DEF ConnInv
<1> DEFINE w1 == Asked(u.writing)
           d1 == Asked(b.requests)
           b1 == Carried(b.box)
<1>1. /\ Asked(pending) \in Seq(Idents) /\ Len(Asked(pending)) = Len(pending)
      /\ Asked(b.batch) = SubSeq(Asked(pending), 1, n)
      /\ d1 = SubSeq(Asked(pending), n + 1, Len(pending))
  <2>1. n + 1 \in Nat \ {0} /\ Len(pending) \in Nat /\ 1 \in Nat \ {0}
    OBVIOUS
  <2>2. Asked(pending) \in Seq(Idents) /\ Len(Asked(pending)) = Len(pending)
    BY AskedType
  <2>3. Asked(SubSeq(pending, 1, n)) = SubSeq(Asked(pending), 1, n)
    BY <2>1, AskedPart
  <2> DEFINE m == n + 1
             len == Len(pending)
  <2>4. m \in Nat \ {0} /\ len \in Nat /\ len <= Len(pending)
    BY <2>1
  <2> HIDE DEF m, len
  <2>5. Asked(SubSeq(pending, m, len)) = SubSeq(Asked(pending), m, len)
    BY <2>4, AskedPart
  <2> QED BY <2>2, <2>3, <2>5 DEF m, len
<1>2. /\ Once(Asked(b.batch)) /\ Once(d1)
      /\ Users(Asked(b.batch)) \subseteq Users(Asked(pending))
      /\ Users(d1) \subseteq Users(Asked(pending)) /\ Users(Asked(b.batch)) \cap Users(d1) = {}
  <2> DEFINE s == Asked(pending)
  <2>1. s \in Seq(Idents) /\ Once(s) /\ n <= Len(s) /\ Len(s) = Len(pending)
    BY <1>1
  <2>2. Asked(b.batch) = SubSeq(s, 1, n) /\ d1 = SubSeq(s, n + 1, Len(s))
    BY <1>1
  <2> HIDE DEF s, d1
  <2>3. /\ Once(SubSeq(s, 1, n)) /\ Once(SubSeq(s, n + 1, Len(s)))
        /\ Users(SubSeq(s, 1, n)) \subseteq Users(s)
        /\ Users(SubSeq(s, n + 1, Len(s))) \subseteq Users(s)
        /\ Users(SubSeq(s, 1, n)) \cap Users(SubSeq(s, n + 1, Len(s))) = {}
    BY <2>1, OnceCut
  <2> QED BY <2>2, <2>3 DEF s
<1>3. /\ Once(w1) /\ Users(w1) \subseteq Users(Asked(pending)) /\ Users(w1) \cap Users(d1) = {}
  BY <1>2, AskedEmpty, OnceEmpty
<1>4. Once(b1) /\ Users(b1) \subseteq Users(Carried(a.box))
  <2>1. a.box \in Seq(IOMessage) /\ Once(Carried(a.box))
    BY ActorFields DEF Line, Apart
  <2> QED BY <2>1, CarriedOnce
<1>5. ~WriteFailed(b)
  <2>1. Acks(b.box) = {}
    OBVIOUS
  <2> QED BY <2>1 DEF Acks, AckTypes, WriteFailed
<1>6. Asked(Failed(b)) = <<>>
  BY <1>5, AskedEmpty DEF Failed
<1>7. OneWrite(b, u)
  <2>1. Acks(b.box) = {} /\ u.writing \in {b.batch, <<>>}
    OBVIOUS
  <2>2. b.canWrite => u.writing = <<>>
    OBVIOUS
  <2> QED BY <2>1, <2>2 DEF OneWrite
<1> HIDE DEF w1, d1, b1
<1>8. /\ Apart(t.members, Asked(t.wire), w1, <<>>, d1, b1)
      /\ AllOf(t.members, Asked(t.wire), w1, <<>>, d1, b1) \subseteq OnLine(a, t)
  <2>1. /\ Users(d1) \cap Users(b1) = {} /\ Users(w1) \cap Users(b1) = {}
        /\ Users(d1) \subseteq Users(Asked(Failed(a))) \cup Users(Asked(a.requests))
                                  \cup Users(Carried(a.box))
        /\ Users(w1) \subseteq Users(Asked(Failed(a))) \cup Users(Asked(a.requests))
                                  \cup Users(Carried(a.box))
    BY <1>2, <1>3 DEF b1
  <2> QED BY <1>2, <1>3, <1>4, <2>1, ApartWritten DEF Line, OnLine
<1>9. Line(b, u) /\ OnLine(b, u) \subseteq OnLine(a, t)
  BY <1>6, <1>8 DEF Line, OnLine, w1, d1, b1
<1> QED BY <1>7, <1>9 DEF Forward

(* requeueBatch() loses nothing and makes nothing.                         *)
LEMMA OnceRequeued ==
    ASSUME NEW a \in IOType, Once(Asked(a.batch)), Once(Asked(a.requests)),
           Users(Asked(a.batch)) \cap Users(Asked(a.requests)) = {}
    PROVE  /\ Once(Asked(Requeued(a)))
           /\ Users(Asked(Requeued(a))) \subseteq Users(Asked(a.batch)) \cup Users(Asked(a.requests))
<1> DEFINE len == Len(a.batch)
           back == [i \in 1..len |-> Written(a.batch[len + 1 - i])]
           g == [i \in 1..len |-> len + 1 - i]
<1>1. a.batch \in Seq(Request) /\ a.requests \in Seq(Request) /\ len \in Nat
      /\ DOMAIN a.batch = 1..len
  BY ActorFields
<1>2. back \in Seq(Request) /\ Requeued(a) = back \o a.requests
  <2>1. \A r \in Request : Written(r) \in Request
    BY DEF Written, Request, Ops
  <2>2. \A i \in 1..len : Written(a.batch[len + 1 - i]) \in Request
    BY <1>1, <2>1
  <2> QED BY <1>1, <2>2 DEF Requeued
<1>3. /\ DOMAIN Asked(a.batch) = 1..len /\ DOMAIN Asked(back) = 1..len
      /\ \A i \in 1..len : Asked(back)[i] = Asked(a.batch)[len + 1 - i]
  <2>1. \A r \in Request : Written(r).id = r.id
    BY DEF Written, Request
  <2>2. \A i \in 1..len : Written(a.batch[len + 1 - i]).id = a.batch[len + 1 - i].id
    BY <1>1, <2>1
  <2>3. DOMAIN back = 1..len /\ \A i \in 1..len : back[i] = Written(a.batch[len + 1 - i])
    OBVIOUS
  <2> HIDE DEF back, len
  <2>4. \A i \in 1..len : len + 1 - i \in 1..len
    BY <1>1
  <2> QED BY <1>1, <2>2, <2>3, <2>4 DEF Asked
<1>4. g \in [1..len -> 1..len] /\ \A j, k \in 1..len : g[j] = g[k] => j = k
  BY <1>1
<1>5. \A i \in 1..len : Asked(back)[i] = Asked(a.batch)[g[i]]
  BY <1>3
<1>6. Once(Asked(back)) /\ Users(Asked(back)) \subseteq Users(Asked(a.batch))
  <2> DEFINE s == Asked(a.batch)
             t == Asked(back)
  <2>1. /\ Once(s) /\ g \in [DOMAIN t -> DOMAIN s] /\ \A k \in DOMAIN t : t[k] = s[g[k]]
        /\ \A j, k \in DOMAIN t : g[j] = g[k] => j = k
    <3> HIDE DEF g, back, len
    <3> QED BY <1>3, <1>4, <1>5
  <2> HIDE DEF s, t, g
  <2>2. Once(t) /\ Users(t) \subseteq Users(s)
    BY <2>1, Picked
  <2> QED BY <2>2 DEF s, t
<1> HIDE DEF back, len
<1>7. /\ Asked(Requeued(a)) = Asked(back) \o Asked(a.requests)
      /\ Asked(back) \in Seq(Idents) /\ Asked(a.requests) \in Seq(Idents)
  BY <1>1, <1>2, AskedConcat, AskedType
<1>8. Users(Asked(back)) \cap Users(Asked(a.requests)) = {}
  BY <1>6
<1>9. /\ Once(Asked(back) \o Asked(a.requests))
      /\ Users(Asked(back) \o Asked(a.requests)) = Users(Asked(back)) \cup Users(Asked(a.requests))
  BY <1>6, <1>7, <1>8, OnceConcat, UsersConcat
<1> QED BY <1>6, <1>7, <1>9

-----------------------------------------------------------------------------
(* The mailbox of the listener.                                            *)

Carries(m) == IF m.type \in {"Request", "Transaction"} THEN Asked(m.reqs) ELSE <<>>
Mail(box) == UNION {Users(Carries(box[k])) : k \in DOMAIN box}
MailOnce(box) ==
    /\ \A k \in DOMAIN box : Once(Carries(box[k]))
    /\ \A j, k \in DOMAIN box :
          j # k => Users(Carries(box[j])) \cap Users(Carries(box[k])) = {}

(* The listener takes its first message.                                   *)
LEMMA MailTail ==
    ASSUME NEW box \in Seq(ListenerMessage), box # <<>>, MailOnce(box)
    PROVE  /\ MailOnce(Tail(box)) /\ Mail(Tail(box)) \subseteq Mail(box)
           /\ Once(Carries(Head(box))) /\ Users(Carries(Head(box))) \subseteq Mail(box)
           /\ Users(Carries(Head(box))) \cap Mail(Tail(box)) = {}
<1> DEFINE u == Tail(box)
           m == Head(box)
<1>1. \A k \in DOMAIN u : k \in Int /\ k + 1 \in DOMAIN box /\ u[k] = box[k + 1] /\ k + 1 # 1
  BY HeadTailProperties
<1>2. m = box[1] /\ 1 \in DOMAIN box
  OBVIOUS
<1> HIDE DEF u, m
<1>3. Once(Carries(m)) /\ Users(Carries(m)) \subseteq Mail(box)
  BY <1>2 DEF MailOnce, Mail
<1>4. Mail(u) \subseteq Mail(box)
  BY <1>1 DEF Mail
<1>5. Users(Carries(m)) \cap Mail(u) = {}
  BY <1>1, <1>2 DEF MailOnce, Mail
<1>6. MailOnce(u)
  <2>1. \A k \in DOMAIN u : Once(Carries(u[k]))
    BY <1>1 DEF MailOnce
  <2>2. ASSUME NEW j \in DOMAIN u, NEW k \in DOMAIN u, j # k
        PROVE  Users(Carries(u[j])) \cap Users(Carries(u[k])) = {}
    <3>1. j + 1 # k + 1
      BY <1>1, <2>2
    <3> QED BY <1>1, <2>2, <3>1 DEF MailOnce
  <2> QED BY <2>1, <2>2 DEF MailOnce
<1> QED BY <1>3, <1>4, <1>5, <1>6 DEF u, m

(* The listener is told m, whose requests are not in the mailbox.          *)
LEMMA MailTold ==
    ASSUME NEW box \in Seq(ListenerMessage), MailOnce(box), NEW m,
           Once(Carries(m)), Users(Carries(m)) \cap Mail(box) = {}
    PROVE  /\ MailOnce(AfterTellingListener(box, <<m>>))
           /\ Mail(AfterTellingListener(box, <<m>>)) \subseteq Mail(box) \cup Users(Carries(m))
<1> DEFINE u == box \o <<m>>
<1>1. \A k \in DOMAIN u : \/ k \in DOMAIN box /\ u[k] = box[k]
                          \/ k = Len(box) + 1 /\ u[k] = m /\ k \notin DOMAIN box
  OBVIOUS
<1> HIDE DEF u
<1>2. Mail(u) \subseteq Mail(box) \cup Users(Carries(m))
  BY <1>1 DEF Mail
<1>3. \A k \in DOMAIN u : Once(Carries(u[k]))
  BY <1>1 DEF MailOnce
<1>4. \A k \in DOMAIN box : Users(Carries(box[k])) \cap Users(Carries(m)) = {}
  BY DEF Mail
<1>5. \A j, k \in DOMAIN u : j # k => Users(Carries(u[j])) \cap Users(Carries(u[k])) = {}
  BY <1>1, <1>4 DEF MailOnce
<1>6. MailOnce(u)
  BY <1>3, <1>5 DEF MailOnce
<1> QED BY <1>2, <1>6 DEF AfterTellingListener, u

LEMMA MailToldNothing ==
    ASSUME NEW box \in Seq(ListenerMessage), MailOnce(box), NEW m,
           m.type \notin {"Request", "Transaction"}
    PROVE  /\ MailOnce(AfterTellingListener(box, <<m>>))
           /\ Mail(AfterTellingListener(box, <<m>>)) \subseteq Mail(box)
<1>1. Carries(m) = <<>>
  BY DEF Carries
<1>2. Once(Carries(m)) /\ Users(Carries(m)) = {}
  BY <1>1, OnceEmpty
<1> QED BY <1>2, MailTold

LEMMA MailSignal ==
    ASSUME lbox \in Seq(ListenerMessage), MailOnce(lbox), NEW t \in ListenerSignals, Tell(t)
    PROVE  MailOnce(lbox') /\ Mail(lbox') \subseteq Mail(lbox)
<1> DEFINE m == Signal(t)
<1>1. m.type \notin {"Request", "Transaction"}
  BY DEF Signal, ListenerSignals
<1>2. lbox' = AfterTellingListener(lbox, <<m>>)
  BY DEF Tell
<1> HIDE DEF m
<1> QED BY <1>1, <1>2, MailToldNothing

-----------------------------------------------------------------------------
(* What the server has executed.                                           *)

Ran(xs) == UNION {Users(xs[m].ids) : m \in DOMAIN xs}
RanOnce(xs) ==
    \A m, n \in DOMAIN xs :
        \A k \in DOMAIN xs[m].ids, l \in DOMAIN xs[n].ids :
            xs[m].ids[k] = xs[n].ids[l] /\ xs[m].ids[k] # Internal => m = n /\ k = l

LEMMA RunsOnce ==
    ASSUME NEW xs \in Seq(Execution), RanOnce(xs), NEW x,
           Once(x.ids), Users(x.ids) \cap Ran(xs) = {}
    PROVE  RanOnce(Append(xs, x)) /\ Ran(Append(xs, x)) \subseteq Ran(xs) \cup Users(x.ids)
<1> DEFINE u == Append(xs, x)
<1>1. \A k \in DOMAIN u : \/ k \in DOMAIN xs /\ u[k] = xs[k]
                          \/ k = Len(xs) + 1 /\ u[k] = x /\ k \notin DOMAIN xs
  OBVIOUS
<1> HIDE DEF u
<1>2. Ran(u) \subseteq Ran(xs) \cup Users(x.ids)
  BY <1>1 DEF Ran
<1>3. \A m \in DOMAIN xs : Users(xs[m].ids) \cap Users(x.ids) = {}
  BY DEF Ran
<1>4. ASSUME NEW m \in DOMAIN u, NEW n \in DOMAIN u,
             NEW k \in DOMAIN u[m].ids, NEW l \in DOMAIN u[n].ids,
             u[m].ids[k] = u[n].ids[l], u[m].ids[k] # Internal
      PROVE  m = n /\ k = l
  <2>1. CASE m \in DOMAIN xs /\ n \in DOMAIN xs
    BY <1>1, <1>4, <2>1 DEF RanOnce
  <2>2. CASE m \in DOMAIN xs /\ n \notin DOMAIN xs
    BY <1>1, <1>3, <1>4, <2>2 DEF Users
  <2>3. CASE m \notin DOMAIN xs /\ n \in DOMAIN xs
    BY <1>1, <1>3, <1>4, <2>3 DEF Users
  <2>4. CASE m \notin DOMAIN xs /\ n \notin DOMAIN xs
    BY <1>1, <1>4, <2>4 DEF Once
  <2> QED BY <2>1, <2>2, <2>3, <2>4
<1>5. RanOnce(u)
  BY <1>4 DEF RanOnce
<1> QED BY <1>2, <1>5 DEF u

-----------------------------------------------------------------------------
(* The whole way of the requests: n items of each thread are disposed of,  *)
(* box is the mailbox of the listener, q its queue, lines[c] the line of   *)
(* connection c, xs what is executed.                                      *)

Unsent(n) ==
    {i \in Ids : \E t \in Threads : \E k \in DOMAIN Workload[t] :
                    k > n[t] /\ i \in Users(Asked(Workload[t][k].reqs))}

(* No request is in two places.                                            *)
Separate(un, m, q, lines, x) ==
    /\ un \cap m = {} /\ un \cap q = {} /\ un \cap x = {}
    /\ m \cap q = {} /\ m \cap x = {} /\ q \cap x = {}
    /\ \A c \in Connections : /\ lines[c] \cap un = {} /\ lines[c] \cap m = {}
                              /\ lines[c] \cap q = {} /\ lines[c] \cap x = {}
    /\ \A c, d \in Connections : c # d => lines[c] \cap lines[d] = {}

LEMMA SeparateLess ==
    ASSUME NEW un, NEW m, NEW q, NEW lines, NEW x, Separate(un, m, q, lines, x),
           NEW un1, NEW m1, NEW q1, NEW lines1, NEW x1,
           un1 \subseteq un, m1 \subseteq m, q1 \subseteq q, x1 \subseteq x,
           \A c \in Connections : lines1[c] \subseteq lines[c]
    PROVE  Separate(un1, m1, q1, lines1, x1)
<1>1. \A c, d \in Connections : c # d => lines1[c] \cap lines1[d] = {}
  BY DEF Separate
<1>2. \A c \in Connections : /\ lines1[c] \cap un1 = {} /\ lines1[c] \cap m1 = {}
                             /\ lines1[c] \cap q1 = {} /\ lines1[c] \cap x1 = {}
  BY DEF Separate
<1> QED BY <1>1, <1>2 DEF Separate

(* Requests are posted...                                                  *)
LEMMA SeparatePosted ==
    ASSUME NEW un, NEW m, NEW q, NEW lines, NEW x, Separate(un, m, q, lines, x),
           NEW un1, un1 \subseteq un, NEW m1, m1 \subseteq m \cup (un \ un1)
    PROVE  Separate(un1, m1, q, lines, x)
<1>1. \A c \in Connections : /\ lines[c] \cap un1 = {} /\ lines[c] \cap m1 = {}
  BY DEF Separate
<1> QED BY <1>1 DEF Separate

(* ...queued...                                                            *)
LEMMA SeparateQueued ==
    ASSUME NEW un, NEW m, NEW q, NEW lines, NEW x, Separate(un, m, q, lines, x),
           NEW m1, m1 \subseteq m, NEW q1, q1 \subseteq q \cup (m \ m1), NEW lines1,
           \A c \in Connections : lines1[c] \subseteq lines[c]
    PROVE  Separate(un, m1, q1, lines1, x)
<1>1. \A c, d \in Connections : c # d => lines1[c] \cap lines1[d] = {}
  BY DEF Separate
<1>2. \A c \in Connections : /\ lines1[c] \cap un = {} /\ lines1[c] \cap m1 = {}
                             /\ lines1[c] \cap q1 = {} /\ lines1[c] \cap x = {}
  BY DEF Separate
<1> QED BY <1>1, <1>2 DEF Separate

(* ...handed to IOActor e...                                               *)
HandedOver(e, m, q, lines, m1, q1, lines1) ==
    /\ m1 \subseteq m /\ q1 \subseteq q
    /\ lines1[e] \subseteq lines[e] \cup ((m \cup q) \ (m1 \cup q1))
    /\ \A c \in Connections : c # e => lines1[c] \subseteq lines[c]

LEMMA SeparateHanded ==
    ASSUME NEW un, NEW m, NEW q, NEW lines, NEW x, Separate(un, m, q, lines, x),
           NEW e \in Connections, NEW m1, NEW q1, NEW lines1,
           HandedOver(e, m, q, lines, m1, q1, lines1)
    PROVE  Separate(un, m1, q1, lines1, x)
<1> USE DEF HandedOver
<1> DEFINE g == (m \cup q) \ (m1 \cup q1)
<1>0. g \subseteq m \cup q /\ g \cap m1 = {} /\ g \cap q1 = {}
        /\ lines1[e] \subseteq lines[e] \cup g
  OBVIOUS
<1> HIDE DEF g
<1>1. \A c \in Connections : lines[c] \cap g = {}
  BY <1>0 DEF Separate
<1>2. \A c, d \in Connections : c # d => lines1[c] \cap lines1[d] = {}
  <2> TAKE c, d \in Connections
  <2>1. c # d => lines[c] \cap lines[d] = {}
    BY DEF Separate
  <2>2. CASE c = e
    BY <1>0, <1>1, <2>1, <2>2
  <2>3. CASE d = e
    BY <1>0, <1>1, <2>1, <2>3
  <2>4. CASE c # e /\ d # e
    BY <2>1, <2>4
  <2> QED BY <2>2, <2>3, <2>4
<1>3. \A c \in Connections : /\ lines1[c] \cap un = {} /\ lines1[c] \cap m1 = {}
                             /\ lines1[c] \cap q1 = {} /\ lines1[c] \cap x = {}
  BY <1>0 DEF Separate
<1> QED BY <1>2, <1>3 DEF Separate

(* ...and executed.                                                        *)
LEMMA SeparateRan ==
    ASSUME NEW un, NEW m, NEW q, NEW lines, NEW x, Separate(un, m, q, lines, x),
           NEW e \in Connections,
           NEW lines1, \A c \in Connections : lines1[c] \subseteq lines[c],
           NEW x1, x1 \subseteq x \cup (lines[e] \ lines1[e])
    PROVE  Separate(un, m, q, lines1, x1)
<1> DEFINE g == lines[e] \ lines1[e]
<1>0. g \subseteq lines[e] /\ lines1[e] \cap g = {} /\ x1 \subseteq x \cup g
  OBVIOUS
<1> HIDE DEF g
<1>1. \A c, d \in Connections : c # d => lines1[c] \cap lines1[d] = {}
  BY DEF Separate
<1>2. \A c \in Connections : lines1[c] \cap g = {}
  BY <1>0 DEF Separate
<1>3. \A c \in Connections : /\ lines1[c] \cap un = {} /\ lines1[c] \cap m = {}
                             /\ lines1[c] \cap q = {} /\ lines1[c] \cap x1 = {}
  BY <1>0, <1>2 DEF Separate
<1>4. g \cap un = {} /\ g \cap m = {} /\ g \cap q = {}
  BY <1>0 DEF Separate
<1> QED BY <1>0, <1>1, <1>3, <1>4 DEF Separate

-----------------------------------------------------------------------------
(* The steps of an IOActor.                                                *)

(* Only the places of the requests and the permission to write matter.     *)
LEMMA ForwardSame ==
    ASSUME NEW a, NEW t, NEW b, NEW u, Forward(a, t, b, u), NEW b1, NEW u1,
           b1.box = b.box, b1.batch = b.batch, b1.requests = b.requests,
           b1.state = b.state, b1.canWrite = b.canWrite,
           u1.writing = u.writing, u1.wire = u.wire, u1.members = u.members
    PROVE  Forward(a, t, b1, u1)
BY DEF Forward, ConnInv, Line, OnLine, OneWrite, Failed, WriteFailed

LEMMA ForwardStays ==
    ASSUME NEW a, NEW t, ConnInv(a, t)
    PROVE  Forward(a, t, a, t)
BY DEF Forward

LEMMA ForwardTwice ==
    ASSUME NEW a, NEW t, NEW b, NEW u, Forward(a, t, b, u), NEW b1, NEW u1, Forward(b, u, b1, u1)
    PROVE  Forward(a, t, b1, u1)
BY DEF Forward

(* An IOActor that stops loses all that it has.                            *)
LEMMA ForwardStops ==
    ASSUME NEW a \in IOType, NEW t \in TcpType, ConnInv(a, t)
    PROVE  Forward(a, t, Stopped, t)
<1> DEFINE b == Stopped
           none == <<>>
<1>1. b.state = "stopped" /\ b.box = none /\ b.batch = none /\ b.requests = none
  BY DEF Stopped, NoIOActor
<1>2. Asked(none) = none /\ Carried(none) = none /\ Acks(none) = {} /\ Once(none) /\ Users(none) = {}
  BY OnceEmpty DEF Asked, Carried, Acks
<1>3. Failed(b) = none
  BY <1>1 DEF Failed
<1> HIDE DEF b, none
<1>4. OneWrite(b, t)
  BY <1>1, <1>2 DEF OneWrite, none
<1>5. Line(b, t) /\ OnLine(b, t) \subseteq OnLine(a, t)
  BY <1>1, <1>2, <1>3, ApartLess DEF ConnInv, Line, OnLine, Apart
<1> QED BY <1>4, <1>5 DEF Forward, ConnInv, b

(* An IOActor takes a message.                                             *)
LEMMA Became ==
    ASSUME io \in [Connections -> IOType], NEW e \in Connections, NEW actor \in IOType,
           IOBecomes(e, actor)
    PROVE  /\ io'[e].box = Tail(actor.box) /\ io'[e].batch = actor.batch
           /\ io'[e].requests = actor.requests /\ io'[e].state = actor.state
           /\ io'[e].canWrite = actor.canWrite
           /\ \A c \in Connections : c # e => io'[c] = io[c]
<1>1. io'[e] = [actor EXCEPT !.box = Tail(actor.box)]
  BY DEF IOBecomes
<1>2. \A c \in Connections : c # e => io'[c] = io[c]
  BY DEF IOBecomes
<1> DEFINE b == io'[e]
<1>3. b = [actor EXCEPT !.box = Tail(actor.box)]
  BY <1>1
<1> HIDE DEF b
<1>4. /\ b.box = Tail(actor.box) /\ b.batch = actor.batch /\ b.requests = actor.requests
      /\ b.state = actor.state /\ b.canWrite = actor.canWrite
  BY <1>3 DEF IOType
<1> QED BY <1>2, <1>4 DEF b

(* What is known of the connection before and after a step of it.          *)
ConnTypes ==
    /\ io \in [Connections -> IOType] /\ io' \in [Connections -> IOType]
    /\ tcp \in [Connections -> TcpType] /\ tcp' \in [Connections -> TcpType]

(* A step that concerns connection e only.                                 *)
OneForward(e) ==
    /\ Forward(io[e], tcp[e], io'[e], tcp'[e])
    /\ \A c \in Connections : c # e => io'[c] = io[c] /\ tcp'[c] = tcp[c]

LEMMA WritesForward ==
    ASSUME ConnTypes, NEW e \in Connections, ConnInv(io[e], tcp[e]),
           io[e].state = "connected", io[e].box # <<>>, Acks(Tail(io[e].box)) = {},
           tcp[e].writing = <<>>,
           NEW pending \in Seq(Request), Once(Asked(pending)),
           Users(Asked(pending)) \cap Users(Carried(Tail(io[e].box))) = {},
           Users(Asked(pending)) \subseteq Users(Asked(Failed(io[e])))
              \cup Users(Asked(io[e].requests)) \cup Users(Carried(io[e].box)),
           WritesNext(e, pending)
    PROVE  OneForward(e)
<1> DEFINE n == IF Len(pending) < MaxWriteBatchSize THEN Len(pending) ELSE MaxWriteBatchSize
           actor == [io[e] EXCEPT !.batch = SubSeq(pending, 1, n),
                                  !.requests = Unwritten(pending, n),
                                  !.canWrite = (pending = <<>>)]
<1>1. n \in Nat /\ n <= Len(pending)
  <2>1. Len(pending) \in Nat /\ MaxWriteBatchSize \in Nat
    BY SharedAssumption
  <2> QED BY <2>1
<1>2. /\ IOBecomes(e, actor)
      /\ tcp' = IF pending # <<>> /\ tcp[e].state = "open"
                THEN [tcp EXCEPT ![e].writing = SubSeq(pending, 1, n)] ELSE tcp
  BY Zenon DEF WritesNext
<1> HIDE DEF n
<1>3. SubSeq(pending, 1, n) \in Seq(Request) /\ Unwritten(pending, n) \in Seq(Request)
  <2>1. n + 1 \in Nat \ {0} /\ Len(pending) \in Nat /\ 1 \in Nat \ {0}
    BY <1>1
  <2> QED BY <1>1, <2>1, SubSeqType DEF Unwritten
<1>4. /\ actor \in IOType /\ actor.box = io[e].box /\ actor.batch = SubSeq(pending, 1, n)
      /\ actor.requests = Unwritten(pending, n) /\ actor.state = "connected"
      /\ actor.canWrite = (pending = <<>>)
  <2>1. io[e] \in IOType
    BY DEF ConnTypes
  <2> QED BY <1>3, <2>1 DEF IOType
<1> HIDE DEF actor
<1> DEFINE b == io'[e]
           u == tcp'[e]
<1>5. /\ b \in IOType /\ b.box = Tail(io[e].box) /\ b.batch = SubSeq(pending, 1, n)
      /\ b.requests = SubSeq(pending, n + 1, Len(pending)) /\ b.state = "connected"
      /\ b.canWrite = (pending = <<>>)
      /\ \A c \in Connections : c # e => io'[c] = io[c]
  BY <1>2, <1>4, Became DEF ConnTypes, Unwritten
<1>6. /\ u \in TcpType /\ u.members = tcp[e].members /\ u.wire = tcp[e].wire
      /\ \/ u.writing = SubSeq(pending, 1, n) /\ pending # <<>>
         \/ u.writing = <<>>
      /\ \A c \in Connections : c # e => tcp'[c] = tcp[c]
  <2>1. tcp[e] \in TcpType
    BY DEF ConnTypes
  <2> QED BY <1>2, <2>1 DEF ConnTypes, TcpType
<1> HIDE DEF b, u
<1>7. io[e] \in IOType /\ tcp[e] \in TcpType
  BY DEF ConnTypes
<1>8. Forward(io[e], tcp[e], b, u)
  BY <1>1, <1>5, <1>6, <1>7, LineWrites, ZenonT(30)
<1> QED BY <1>5, <1>6, <1>8 DEF OneForward, b, u

LEMMA TailOfAppend ==
    ASSUME NEW S, NEW s \in Seq(S), s # <<>>, NEW m \in S
    PROVE  Tail(Append(s, m)) = Tail(s) \o <<m>>
<1> DEFINE u == Tail(Append(s, m))
           v == Tail(s) \o <<m>>
<1>1. /\ Append(s, m) \in Seq(S) /\ Len(Append(s, m)) = Len(s) + 1 /\ Append(s, m) # <<>>
      /\ \A k \in 1..Len(s) : Append(s, m)[k] = s[k]
      /\ Append(s, m)[Len(s) + 1] = m
  OBVIOUS
<1>2. Tail(s) \in Seq(S) /\ Len(Tail(s)) = Len(s) - 1 /\ Len(s) >= 1
      /\ \A k \in 1..Len(Tail(s)) : Tail(s)[k] = s[k + 1]
  BY HeadTailProperties
<1>3. u \in Seq(S) /\ Len(u) = Len(s) /\ \A k \in 1..Len(s) : u[k] = Append(s, m)[k + 1]
  <2> DEFINE w == Append(s, m)
  <2>1. w \in Seq(S) /\ w # <<>> /\ Len(w) = Len(s) + 1
    BY <1>1
  <2> HIDE DEF w
  <2>2. Tail(w) \in Seq(S) /\ Len(Tail(w)) = Len(s)
        /\ \A k \in 1..Len(s) : Tail(w)[k] = w[k + 1]
    BY <2>1, HeadTailProperties
  <2> QED BY <2>2 DEF w
<1>4. /\ v \in Seq(S) /\ Len(v) = Len(s)
      /\ \A k \in 1..Len(s) - 1 : v[k] = Tail(s)[k]
      /\ v[Len(s)] = m
  <2> DEFINE w == Tail(s)
  <2>1. w \in Seq(S) /\ Len(w) = Len(s) - 1
    BY <1>2
  <2> HIDE DEF w
  <2>2. /\ w \o <<m>> \in Seq(S) /\ Len(w \o <<m>>) = Len(w) + 1
        /\ \A k \in 1..Len(w) : (w \o <<m>>)[k] = w[k]
        /\ (w \o <<m>>)[Len(w) + 1] = m
    BY <2>1
  <2> QED BY <1>2, <2>1, <2>2 DEF w
<1> HIDE DEF u, v
<1>5. \A k \in 1..Len(u) : u[k] = v[k]
  <2> TAKE k \in 1..Len(u)
  <2>1. Len(s) \in Nat /\ k \in 1..Len(s)
    BY <1>3
  <2>2. CASE k = Len(s)
    <3> DEFINE w == Append(s, m)
    <3>1. w[Len(s) + 1] = m /\ \A j \in 1..Len(s) : u[j] = w[j + 1]
      BY <1>1, <1>3
    <3> HIDE DEF w
    <3> QED BY <1>4, <2>1, <2>2, <3>1
  <2>3. CASE k # Len(s)
    <3>1. k \in 1..Len(s) - 1 /\ k + 1 \in 1..Len(s)
      BY <2>1, <2>3
    <3> QED BY <1>1, <1>2, <1>3, <1>4, <2>1, <3>1
  <2> QED BY <2>2, <2>3
<1>6. u = v
  BY <1>3, <1>4, <1>5, SeqEqual
<1> QED BY <1>6 DEF u, v

(* Every case of the behaviours of IOActor e, and its timers.              *)
LEMMA IOForward ==
    ASSUME ConnTypes, NEW e \in Connections, ConnInv(io[e], tcp[e]),
           \/ IONext(e) \/ IOCrash(e)
           \/ (FireConnectTimeout(e) \/ FireAbortTimeout(e)) /\ UNCHANGED tcp
    PROVE  OneForward(e)
<1> DEFINE a == io[e]
           t == tcp[e]
<1>1. /\ a \in IOType /\ t \in TcpType /\ io'[e] \in IOType /\ tcp'[e] \in TcpType
      /\ io \in [Connections -> IOType] /\ tcp \in [Connections -> TcpType]
  BY DEF ConnTypes
<1>2. a.box \in Seq(IOMessage) /\ Once(Carried(a.box)) /\ \A j, k \in Acks(a.box) : j = k
  BY <1>1, ActorFields DEF ConnInv, Line, Apart, OneWrite
<1>3. ASSUME IOStop(e), UNCHANGED tcp PROVE OneForward(e)
  <2>1. io'[e] = Stopped /\ \A c \in Connections : c # e => io'[c] = io[c]
    BY <1>1, <1>3 DEF IOStop
  <2> QED BY <1>1, <1>3, <2>1, ForwardStops DEF OneForward
(* e takes a message, keeps what it has, and may change its behaviour.      *)
<1>4. ASSUME NEW actor \in IOType, IOBecomes(e, actor), a.box # <<>>, a.state # "stopped",
             actor.state # "stopped",
             actor.box = a.box, actor.batch = a.batch, actor.requests = a.requests,
             actor.state \in {"none", "connecting"} \/ (actor.state = "connected" /\ actor.canWrite)
               => a.state \in {"none", "connecting"} \/ (a.state = "connected" /\ a.canWrite),
             \A c \in Connections : c # e => tcp'[c] = tcp[c],
             tcp'[e].writing = t.writing, tcp'[e].wire = t.wire, tcp'[e].members = t.members
      PROVE  OneForward(e)
  <2> DEFINE b == io'[e]
  <2>1. /\ b.box = Tail(a.box) /\ b.batch = a.batch /\ b.requests = a.requests
        /\ b.state = actor.state /\ b.canWrite = actor.canWrite
        /\ \A c \in Connections : c # e => io'[c] = io[c]
    BY <1>1, <1>4, Became
  <2>2. b \in IOType
    BY <1>1
  <2> HIDE DEF b
  <2>3. Forward(a, t, b, t)
    BY <1>1, <1>4, <2>1, <2>2, Consumes
  <2>4. Forward(a, t, b, tcp'[e])
    BY <1>4, <2>3, ForwardSame
  <2> QED BY <1>4, <2>1, <2>4 DEF OneForward, b
<1>5. ASSUME UNCHANGED tcp
      PROVE  /\ tcp'[e].writing = t.writing /\ tcp'[e].wire = t.wire /\ tcp'[e].members = t.members
             /\ \A c \in Connections : c # e => tcp'[c] = tcp[c]
  BY <1>5
<1>6. ASSUME NEW m, IOReceives(e, m) PROVE a.box # <<>> /\ Head(a.box).type = m
  BY <1>6 DEF IOReceives
<1>7. ASSUME IOConnected(e) PROVE OneForward(e)
  <2> DEFINE actor == [a EXCEPT !.state = "connected", !.connectTimer = FALSE, !.canWrite = TRUE]
  <2>1. /\ actor \in IOType /\ actor.box = a.box /\ actor.batch = a.batch
        /\ actor.requests = a.requests /\ actor.state = "connected"
    BY <1>1 DEF IOType, IOStates
  <2>2. IOBecomes(e, actor) /\ a.box # <<>> /\ a.state = "connecting"
    BY <1>6, <1>7 DEF IOConnected
  <2>3. /\ tcp'[e].writing = t.writing /\ tcp'[e].wire = t.wire /\ tcp'[e].members = t.members
        /\ \A c \in Connections : c # e => tcp'[c] = tcp[c]
    BY <1>1, <1>7 DEF IOConnected, TcpType
  <2> HIDE DEF actor
  <2> QED BY <1>4, <2>1, <2>2, <2>3
<1>8. ASSUME IOConnectFailed(e) \/ IOShutdownAck(e) \/ IOAborted(e) \/ IOCrash(e)
      PROVE  OneForward(e)
  BY <1>3, <1>8 DEF IOConnectFailed, IOShutdownAck, IOAborted, IOCrash
<1>9. ASSUME IORequest(e) PROVE OneForward(e)
  <2> DEFINE q == Head(a.box).req
             pending == Append(a.requests, q)
  <2>1. a.state = "connected" /\ a.box # <<>> /\ Head(a.box).type = "Request"
    BY <1>6, <1>9 DEF IORequest
  <2>2. /\ q \in Request /\ a.requests \in Seq(Request)
        /\ q.id # Internal => q.id \in Users(Carried(a.box)) /\ q.id \notin Users(Carried(Tail(a.box)))
    BY <1>1, <1>2, <2>1, CarriedTail, CarriedOnce, ActorFields
  <2>3. /\ Once(Asked(a.requests)) /\ Users(Asked(a.requests)) \cap Users(Carried(a.box)) = {}
        /\ Users(Carried(Tail(a.box))) \subseteq Users(Carried(a.box))
    BY <1>2, <2>1, CarriedOnce DEF ConnInv, Line, Apart
  <2>4. /\ pending \in Seq(Request) /\ Once(Asked(pending))
        /\ Users(Asked(pending)) = Users(Asked(a.requests)) \cup ({q.id} \ {Internal})
    <3> HIDE DEF q
    <3> QED BY <2>2, <2>3, RequestTaken
  <2>5. CASE a.canWrite
    <3>1. Acks(a.box) = {} /\ t.writing = <<>>
      BY <2>1, <2>5 DEF ConnInv, OneWrite
    <3>2. Acks(Tail(a.box)) = {}
      BY <1>2, <2>1, <3>1, AcksTail
    <3>3. WritesNext(e, pending)
      BY <1>9, <2>5 DEF IORequest
    <3>4. /\ Users(Asked(pending)) \cap Users(Carried(Tail(a.box))) = {}
          /\ Users(Asked(pending)) \subseteq Users(Asked(Failed(a)))
                \cup Users(Asked(a.requests)) \cup Users(Carried(a.box))
      <4> HIDE DEF q, pending
      <4> QED BY <2>2, <2>3, <2>4
    <3> HIDE DEF q, pending
    <3> QED BY <2>1, <2>4, <3>1, <3>2, <3>3, <3>4, WritesForward
  <2>6. CASE ~a.canWrite
    <3> DEFINE actor == [a EXCEPT !.requests = pending]
    <3>1. IOBecomes(e, actor) /\ UNCHANGED tcp
      BY <1>9, <2>6 DEF IORequest
    <3>2. /\ actor \in IOType /\ actor.box = a.box /\ actor.batch = a.batch
          /\ actor.requests = pending /\ actor.state = a.state /\ actor.canWrite = a.canWrite
      <4> HIDE DEF pending
      <4> QED BY <1>1, <2>4 DEF IOType
    <3> DEFINE b == io'[e]
    <3> HIDE DEF actor
    <3>3. /\ b.box = Tail(a.box) /\ b.batch = a.batch /\ b.requests = pending
          /\ b.state = a.state /\ b.canWrite = a.canWrite /\ b \in IOType
          /\ \A c \in Connections : c # e => io'[c] = io[c]
      BY <1>1, <3>1, <3>2, Became
    <3> HIDE DEF b
    <3>4. Forward(a, t, b, t)
      BY <1>1, <2>1, <2>6, <3>3, KeepsRequest
    <3> QED BY <3>1, <3>3, <3>4 DEF OneForward, b
  <2> QED BY <2>5, <2>6
<1>10. ASSUME a.box # <<>>, Head(a.box).type \in AckTypes, a.state = "connected"
       PROVE  /\ Acks(Tail(a.box)) = {} /\ t.writing = <<>>
              /\ Users(Carried(Tail(a.box))) \subseteq Users(Carried(a.box))
  <2>1. 1 \in Acks(a.box)
    BY <1>2, <1>10 DEF Acks
  <2> QED BY <1>2, <1>10, <2>1, AcksTail, CarriedOnce DEF ConnInv, OneWrite
<1>11. ASSUME IOWriteAck(e) PROVE OneForward(e)
  <2>1. /\ a.state = "connected" /\ a.box # <<>> /\ Head(a.box).type = "WriteAck"
        /\ WritesNext(e, a.requests)
    BY <1>6, <1>11 DEF IOWriteAck
  <2>2. /\ a.requests \in Seq(Request) /\ Once(Asked(a.requests))
        /\ Users(Asked(a.requests)) \cap Users(Carried(Tail(a.box))) = {}
    BY <1>1, <1>10, <2>1, ActorFields DEF ConnInv, Line, Apart, AckTypes
  <2> QED BY <1>10, <2>1, <2>2, WritesForward DEF AckTypes
<1>12. ASSUME IOWriteFailed(e) PROVE OneForward(e)
  <2>1. /\ a.state = "connected" /\ a.box # <<>> /\ Head(a.box).type = "WriteFailed"
        /\ WritesNext(e, Requeued(a))
    BY <1>6, <1>12 DEF IOWriteFailed
  <2>2. Failed(a) = a.batch
    <3>1. WriteFailed(a)
      BY <1>2, <2>1 DEF WriteFailed
    <3> QED BY <3>1 DEF Failed
  <2>3. /\ Once(Asked(a.batch)) /\ Once(Asked(a.requests))
        /\ Users(Asked(a.batch)) \cap Users(Asked(a.requests)) = {}
        /\ (Users(Asked(a.batch)) \cup Users(Asked(a.requests))) \cap Users(Carried(a.box)) = {}
    BY <2>2 DEF ConnInv, Line, Apart
  <2>4. /\ Requeued(a) \in Seq(Request) /\ Once(Asked(Requeued(a)))
        /\ Users(Asked(Requeued(a))) \subseteq Users(Asked(a.batch)) \cup Users(Asked(a.requests))
    BY <1>1, <2>3, RequeuedType, OnceRequeued
  <2>5. /\ Users(Asked(Requeued(a))) \cap Users(Carried(Tail(a.box))) = {}
        /\ Users(Asked(Requeued(a))) \subseteq Users(Asked(Failed(a)))
              \cup Users(Asked(a.requests)) \cup Users(Carried(a.box))
        /\ Acks(Tail(a.box)) = {} /\ t.writing = <<>>
    BY <1>10, <2>1, <2>2, <2>3, <2>4 DEF AckTypes
  <2> QED BY <2>1, <2>4, <2>5, WritesForward
<1>13. ASSUME NEW s \in IOStates, s \notin {"none", "connecting", "connected", "stopped"}, a.box # <<>>,
              a.state # "stopped", IOBecomes(e, [a EXCEPT !.state = s]), UNCHANGED tcp
       PROVE  OneForward(e)
  <2> DEFINE actor == [a EXCEPT !.state = s]
  <2>1. /\ actor \in IOType /\ actor.box = a.box /\ actor.batch = a.batch
        /\ actor.requests = a.requests /\ actor.state = s
    BY <1>1 DEF IOType
  <2> HIDE DEF actor
  <2> QED BY <1>4, <1>5, <1>13, <2>1 DEF actor
<1>14. ASSUME a.box # <<>>, a.state # "stopped", IOBecomes(e, a), UNCHANGED tcp
       PROVE  OneForward(e)
  BY <1>1, <1>4, <1>5, <1>14
<1>15. a.box # <<>> => a.state # "stopped"
  BY DEF ConnInv, OneWrite
<1>16. ASSUME IOShutdown(e) \/ IOTerminated(e) PROVE OneForward(e)
  <2>1. a.box # <<>> /\ UNCHANGED tcp
    BY <1>6, <1>16 DEF IOShutdown, IOTerminated
  <2>2. PICK s \in {"awaitingAbort", "awaitingShutdown"} : IOBecomes(e, [a EXCEPT !.state = s])
    BY <1>16 DEF IOShutdown, IOTerminated
  <2> QED BY <1>13, <1>15, <2>1, <2>2 DEF IOStates
<1>17. ASSUME IORejectRequest(e) \/ IOIgnore(e) PROVE OneForward(e)
  <2>1. a.box # <<>> /\ IOBecomes(e, a) /\ UNCHANGED tcp
    BY <1>6, <1>17 DEF IORejectRequest, IOIgnore, IOIgnored
  <2> QED BY <1>14, <1>15, <2>1
<1>18. ASSUME IOAbortAck(e) PROVE OneForward(e)
  <2> DEFINE actor == [a EXCEPT !.state = "aborting", !.abortTimer = TRUE]
  <2>1. /\ actor \in IOType /\ actor.box = a.box /\ actor.batch = a.batch
        /\ actor.requests = a.requests /\ actor.state = "aborting"
    BY <1>1 DEF IOType, IOStates
  <2>2. IOBecomes(e, actor) /\ a.box # <<>>
    BY <1>6, <1>18 DEF IOAbortAck
  <2>3. /\ tcp'[e].writing = t.writing /\ tcp'[e].wire = t.wire /\ tcp'[e].members = t.members
        /\ \A c \in Connections : c # e => tcp'[c] = tcp[c]
    BY <1>1, <1>18 DEF IOAbortAck, TcpType
  <2> HIDE DEF actor
  <2> QED BY <1>4, <1>15, <2>1, <2>2, <2>3
<1>19. ASSUME IOAbortTimeout(e) PROVE OneForward(e)
  <2>1. a.box # <<>> /\ a.state = "aborting"
    BY <1>6, <1>19 DEF IOAbortTimeout
  <2>2. CASE t.state = "open"
    <3> DEFINE m == Signal("Terminated")
               told == [a EXCEPT !.box = Append(a.box, m)]
               one == [a EXCEPT !.box = Tail(a.box)]
    <3>1. /\ IOBecomes(e, told)
          /\ tcp' = [tcp EXCEPT ![e].state = "closed"]
      BY <1>19, <2>2 DEF IOAbortTimeout
    <3>2. /\ tcp'[e].writing = t.writing /\ tcp'[e].wire = t.wire /\ tcp'[e].members = t.members
          /\ \A c \in Connections : c # e => tcp'[c] = tcp[c]
      BY <1>1, <3>1 DEF TcpType
    <3>3. /\ a.box \in Seq(IOMessage) /\ m \in IOMessage /\ "Terminated" \in IOSignals \ AckTypes
          /\ Tail(a.box) \in Seq(IOMessage) /\ Append(a.box, m) \in Seq(IOMessage)
      <4>1. a.box \in Seq(IOMessage) /\ m \in IOMessage /\ "Terminated" \in IOSignals \ AckTypes
        BY <1>2, SignalType DEF IOSignals, AckTypes
      <4> HIDE DEF m
      <4> QED BY <2>1, <4>1, HeadTailProperties
    <3>4. /\ one \in IOType /\ one.box = Tail(a.box) /\ one.batch = a.batch
          /\ one.requests = a.requests /\ one.state = "aborting" /\ one.canWrite = a.canWrite
      <4> HIDE DEF m
      <4> QED BY <1>1, <2>1, <3>3 DEF IOType
    <3>5. /\ told \in IOType /\ told.box = Append(a.box, m) /\ told.batch = a.batch
          /\ told.requests = a.requests /\ told.state = "aborting" /\ told.canWrite = a.canWrite
      <4> HIDE DEF m
      <4> QED BY <1>1, <2>1, <3>3 DEF IOType
    <3> HIDE DEF m, told, one
    <3>6. Forward(a, t, one, t)
      BY <1>1, <2>1, <3>4, Consumes
    <3>7. Forward(one, t, Told(one, <<m>>), t)
      <4>1. ConnInv(one, t)
        BY <3>6 DEF Forward
      <4> QED BY <1>1, <3>3, <3>4, <4>1, ToldSignal DEF m
    <3> DEFINE b == io'[e]
               two == Told(one, <<m>>)
    <3>8. /\ b.box = Tail(told.box) /\ b.batch = a.batch /\ b.requests = a.requests
          /\ b.state = "aborting" /\ b.canWrite = a.canWrite
          /\ \A c \in Connections : c # e => io'[c] = io[c]
      BY <1>1, <3>1, <3>5, Became
    <3>9. /\ two.box = one.box \o <<m>> /\ two.batch = one.batch /\ two.requests = one.requests
          /\ two.state = "aborting" /\ two.canWrite = one.canWrite
      BY <3>4 DEF Told, IOType
    <3> HIDE DEF b, two
    <3>10. Tail(Append(a.box, m)) = Tail(a.box) \o <<m>>
      BY <2>1, <3>3, TailOfAppend
    <3>11. Forward(a, t, two, t)
      BY <3>6, <3>7, ForwardTwice DEF two
    <3>12. /\ b.box = two.box /\ b.batch = two.batch /\ b.requests = two.requests
           /\ b.state = two.state /\ b.canWrite = two.canWrite
      BY <3>4, <3>5, <3>8, <3>9, <3>10
    <3>13. Forward(a, t, b, tcp'[e])
      BY <3>2, <3>11, <3>12, ForwardSame
    <3> QED BY <3>2, <3>8, <3>13 DEF OneForward, b
  <2>3. CASE t.state # "open"
    <3>1. IOBecomes(e, a) /\ UNCHANGED tcp
      BY <1>19, <2>3 DEF IOAbortTimeout
    <3> QED BY <1>14, <2>1, <3>1
  <2> QED BY <2>2, <2>3
<1>20. ASSUME FireConnectTimeout(e) \/ FireAbortTimeout(e), UNCHANGED tcp PROVE OneForward(e)
  <2>1. PICK s \in {"ConnectTimeout", "AbortTimeout"} :
           \/ io' = [io EXCEPT ![e] = [Told(a, <<Signal(s)>>) EXCEPT !.connectTimer = FALSE]]
           \/ io' = [io EXCEPT ![e] = [Told(a, <<Signal(s)>>) EXCEPT !.abortTimer = FALSE]]
    BY <1>20 DEF FireConnectTimeout, FireAbortTimeout
  <2>2. s \in IOSignals \ AckTypes
    BY DEF IOSignals, AckTypes
  <2> DEFINE b == Told(a, <<Signal(s)>>)
             b1 == io'[e]
  <2>3. Forward(a, t, b, t) /\ b \in IOType
    BY <1>1, <2>2, ToldSignal, ToldSignalType
  <2>4. /\ \/ b1 = [b EXCEPT !.connectTimer = FALSE]
           \/ b1 = [b EXCEPT !.abortTimer = FALSE]
        /\ \A c \in Connections : c # e => io'[c] = io[c]
    BY <1>1, <2>1
  <2> HIDE DEF b, b1
  <2>5. /\ b1.box = b.box /\ b1.batch = b.batch /\ b1.requests = b.requests
        /\ b1.state = b.state /\ b1.canWrite = b.canWrite
    BY <2>3, <2>4 DEF IOType
  <2>6. Forward(a, t, b1, t)
    BY <2>3, <2>5, ForwardSame
  <2> QED BY <1>20, <2>4, <2>6 DEF OneForward, b1
<1> QED
  BY <1>7, <1>8, <1>9, <1>11, <1>12, <1>16, <1>17, <1>18, <1>19, <1>20 DEF IONext

-----------------------------------------------------------------------------
(* The steps of a TCP connection and of the server.                        *)

(* The IOActor is told s, and the connection changes nothing that matters. *)
LEMMA TellsForward ==
    ASSUME ConnTypes, NEW c \in Connections, ConnInv(io[c], tcp[c]),
           NEW s \in IOSignals \ AckTypes, TellIO(c, s),
           NEW u, tcp' = [tcp EXCEPT ![c] = u],
           u.writing = tcp[c].writing, u.wire = tcp[c].wire, u.members = tcp[c].members
    PROVE  OneForward(c)
<1>1. io[c] \in IOType /\ tcp[c] \in TcpType /\ io \in [Connections -> IOType]
      /\ tcp \in [Connections -> TcpType]
  BY DEF ConnTypes
<1>2. Forward(io[c], tcp[c], Told(io[c], <<Signal(s)>>), tcp[c])
  BY <1>1, ToldSignal
<1>3. /\ io'[c] = Told(io[c], <<Signal(s)>>) /\ tcp'[c] = u
      /\ \A d \in Connections : d # c => io'[d] = io[d] /\ tcp'[d] = tcp[d]
  BY <1>1 DEF TellIO
<1> DEFINE b == Told(io[c], <<Signal(s)>>)
<1> HIDE DEF b
<1>4. Forward(io[c], tcp[c], b, u)
  BY <1>2, ForwardSame DEF b
<1> QED BY <1>3, <1>4 DEF OneForward, b

(* Only the connection changes.                                            *)
LEMMA TcpForward ==
    ASSUME ConnTypes, NEW c \in Connections, UNCHANGED io,
           NEW u, tcp' = [tcp EXCEPT ![c] = u], Forward(io[c], tcp[c], io[c], u)
    PROVE  OneForward(c)
BY DEF ConnTypes, OneForward

LEMMA ClosesForward ==
    ASSUME ConnTypes, NEW c \in Connections, ConnInv(io[c], tcp[c]), Closes(c)
    PROVE  OneForward(c)
<1> DEFINE a == io[c]
           t == tcp[c]
           b == io'[c]
           u == tcp'[c]
<1>1. /\ a \in IOType /\ t \in TcpType /\ u \in TcpType
      /\ io \in [Connections -> IOType] /\ tcp \in [Connections -> TcpType]
  BY DEF ConnTypes
<1>2. PICK n \in 0..Len(t.writing) :
         tcp' = [tcp EXCEPT ![c].state = "closed", ![c].abort = FALSE, ![c].net = <<>>,
                            ![c].half = FALSE, ![c].writing = <<>>,
                            ![c].wire = @ \o SubSeq(tcp[c].writing, 1, n)]
  BY DEF Closes
<1>3. /\ u.writing = <<>> /\ u.members = t.members
      /\ u.wire = t.wire \o SubSeq(t.writing, 1, n)
      /\ \A d \in Connections : d # c => tcp'[d] = tcp[d]
  BY <1>1, <1>2 DEF TcpType
<1>4. b = Told(a, <<Signal("Terminated")>>) /\ \A d \in Connections : d # c => io'[d] = io[d]
  BY <1>1 DEF Closes, TellIO
<1>5. Forward(a, t, a, u)
  <2> HIDE DEF u
  <2> QED BY <1>1, <1>3, LineCloses
<1>6. "Terminated" \in IOSignals \ AckTypes
  BY DEF IOSignals, AckTypes
<1>7. Forward(a, u, b, u)
  <2>1. ConnInv(a, u)
    BY <1>5 DEF Forward
  <2> HIDE DEF u
  <2> QED BY <1>1, <1>4, <1>6, <2>1, ToldSignal
<1>8. Forward(a, t, b, u)
  BY <1>5, <1>7, ForwardTwice
<1> QED BY <1>3, <1>4, <1>8 DEF OneForward

LEMMA WriteForward ==
    ASSUME ConnTypes, NEW c \in Connections, ConnInv(io[c], tcp[c]),
           TcpWrite(c) \/ TcpWriteFail(c)
    PROVE  OneForward(c)
<1> DEFINE a == io[c]
           t == tcp[c]
           u == tcp'[c]
<1>1. /\ a \in IOType /\ t \in TcpType /\ u \in TcpType
      /\ io \in [Connections -> IOType] /\ tcp \in [Connections -> TcpType]
  BY DEF ConnTypes
<1>2. PICK s \in AckTypes :
        /\ TellIO(c, s) /\ t.writing # <<>>
        /\ \/ s = "WriteAck" /\ tcp' = [tcp EXCEPT ![c].wire = @ \o t.writing, ![c].writing = <<>>]
           \/ s = "WriteFailed" /\ tcp' = [tcp EXCEPT ![c].writing = <<>>]
  BY DEF TcpWrite, TcpWriteFail, AckTypes
<1>3. /\ u.writing = <<>> /\ u.members = t.members
      /\ \/ s = "WriteAck" /\ u.wire = t.wire \o t.writing
         \/ s = "WriteFailed" /\ u.wire = t.wire
      /\ \A d \in Connections : d # c => tcp'[d] = tcp[d]
  BY <1>1, <1>2 DEF TcpType
<1>4. io'[c] = Told(a, <<Signal(s)>>) /\ \A d \in Connections : d # c => io'[d] = io[d]
  BY <1>1, <1>2 DEF TellIO
<1>5. Forward(a, t, Told(a, <<Signal(s)>>), u)
  <2> HIDE DEF u
  <2> QED BY <1>1, <1>2, <1>3, WriteEnds
<1> QED BY <1>3, <1>4, <1>5 DEF OneForward

(* What the connection does.                                               *)
LEMMA ConnectionForward ==
    ASSUME ConnTypes, NEW c \in Connections, ConnInv(io[c], tcp[c]),
           \/ TcpConnect(c) \/ TcpWrite(c) \/ TcpRead(c) \/ TcpAbort(c) \/ TcpQuit(c)
           \/ TcpConnectFail(c) \/ TcpWriteFail(c) \/ TcpDrop(c)
    PROVE  OneForward(c)
<1>1. tcp[c] \in TcpType
  BY DEF ConnTypes
<1>2. ASSUME TcpConnect(c) \/ TcpConnectFail(c) PROVE OneForward(c)
  <2>1. PICK s \in {"Connected", "ConnectFailed"}, state \in {"established", "closed"} :
           TellIO(c, s) /\ tcp' = [tcp EXCEPT ![c].state = state]
    BY <1>2 DEF TcpConnect, TcpConnectFail
  <2> DEFINE u == [tcp[c] EXCEPT !.state = state]
  <2>2. u.writing = tcp[c].writing /\ u.wire = tcp[c].wire /\ u.members = tcp[c].members
    BY <1>1 DEF TcpType
  <2>3. tcp' = [tcp EXCEPT ![c] = u]
    BY <2>1
  <2>4. s \in IOSignals \ AckTypes
    BY DEF IOSignals, AckTypes
  <2> HIDE DEF u
  <2> QED BY <2>1, <2>2, <2>3, <2>4, TellsForward
<1>3. ASSUME TcpRead(c) PROVE OneForward(c)
  <2>1. PICK n \in 0..Len(tcp[c].net), half \in BOOLEAN :
           tcp' = [tcp EXCEPT ![c].net = SubSeq(@, n + 1, Len(@)), ![c].half = half]
    BY <1>3 DEF TcpRead
  <2> DEFINE u == [tcp[c] EXCEPT !.net = SubSeq(@, n + 1, Len(@)), !.half = half]
  <2>2. u.writing = tcp[c].writing /\ u.wire = tcp[c].wire /\ u.members = tcp[c].members
    BY <1>1 DEF TcpType
  <2>3. tcp' = [tcp EXCEPT ![c] = u] /\ UNCHANGED io
    BY <1>3, <2>1 DEF TcpRead
  <2> HIDE DEF u
  <2>4. Forward(io[c], tcp[c], io[c], u)
    BY <2>2, ForwardStays, ForwardSame
  <2> QED BY <2>3, <2>4, TcpForward
<1> QED
  BY <1>2, <1>3, WriteForward, ClosesForward DEF TcpAbort, TcpQuit, TcpDrop

(* What a command changes of its connection, as far as requests go.        *)
LEMMA ExecuteChanges ==
    ASSUME ConnTypes, NEW c \in Connections, ServerExecute(c),
           NEW t, t = tcp[c], NEW u, u = tcp'[c], NEW r, r = Head(t.wire)
    PROVE  /\ t.wire # <<>> /\ UNCHANGED io
           /\ u.writing = t.writing /\ u.wire = Tail(t.wire)
           /\ u.members = IF t.multi /\ r.op # "exec" THEN Append(t.members, r.id)
                          ELSE IF r.op = "exec" THEN <<>> ELSE t.members
           /\ \A d \in Connections : d # c => tcp'[d] = tcp[d]
<1> DEFINE queues == t.multi /\ r.op # "exec"
           kind == IF queues THEN "queued"
                   ELSE IF r.op \in SessionOps /\ r.value \in Rejected THEN "error"
                   ELSE "ok"
           net == IF t.state = "open" THEN Append(t.net, [to |-> r.id, kind |-> kind]) ELSE t.net
           session == IF r.op \in SessionOps /\ kind = "ok"
                      THEN [t.settings EXCEPT ![r.op] = r.value] ELSE t.settings
           multi == (t.multi \/ r.op = "multi") /\ r.op # "exec"
           members == IF queues THEN Append(t.members, r.id)
                      ELSE IF r.op = "exec" THEN <<>> ELSE t.members
           quit == r.op = "quit"
           after == [t EXCEPT !.wire = Tail(t.wire), !.net = net, !.settings = session,
                              !.multi = multi, !.members = members, !.quit = quit]
<1>1. tcp' = [tcp EXCEPT ![c] = after]
  BY DEF ServerExecute
<1>2. t \in TcpType /\ tcp \in [Connections -> TcpType]
  BY DEF ConnTypes
<1>3. t.wire # <<>> /\ UNCHANGED io
  BY DEF ServerExecute
<1> HIDE DEF net, session, multi, members, quit
<1>4. after.writing = t.writing /\ after.wire = Tail(t.wire) /\ after.members = members
  BY <1>2 DEF TcpType
<1> HIDE DEF after
<1>5. u = after /\ \A d \in Connections : d # c => tcp'[d] = tcp[d]
  BY <1>1, <1>2
<1>6. members = IF t.multi /\ r.op # "exec" THEN Append(t.members, r.id)
                ELSE IF r.op = "exec" THEN <<>> ELSE t.members
  BY DEF members
<1> QED BY <1>3, <1>4, <1>5, <1>6

(* What the server does: what it executes leaves the line.                 *)
LEMMA ExecuteForward ==
    ASSUME ConnTypes, NEW c \in Connections, ConnInv(io[c], tcp[c]),
           ServerExecute(c) \/ ServerSkip(c)
    PROVE  /\ OneForward(c)
           /\ \/ UNCHANGED executed
              \/ \E x : /\ executed' = Append(executed, x) /\ Once(x.ids)
                        /\ Users(x.ids) \subseteq OnLine(io[c], tcp[c])
                        /\ Users(x.ids) \cap OnLine(io'[c], tcp'[c]) = {}
<1> DEFINE a == io[c]
           t == tcp[c]
           u == tcp'[c]
           r == Head(t.wire)
           queues == t.multi /\ r.op # "exec"
           ids == IF r.op = "exec" THEN Append(t.members, r.id) ELSE <<r.id>>
<1>1. /\ a \in IOType /\ t \in TcpType /\ u \in TcpType
      /\ io \in [Connections -> IOType] /\ tcp \in [Connections -> TcpType]
  BY DEF ConnTypes
<1>2. /\ t.wire # <<>> /\ UNCHANGED io
      /\ u.writing = t.writing /\ u.wire = Tail(t.wire)
      /\ \A d \in Connections : d # c => tcp'[d] = tcp[d]
  <2>1. CASE ServerExecute(c)
    BY <2>1, ExecuteChanges
  <2>2. CASE ServerSkip(c)
    BY <1>1, <2>2 DEF ServerSkip, TcpType
  <2> QED BY <2>1, <2>2
<1>3. ASSUME ServerExecute(c)
      PROVE  /\ u.members = IF queues THEN Append(t.members, r.id)
                            ELSE IF r.op = "exec" THEN <<>> ELSE t.members
             /\ executed' = IF queues \/ r.id = Internal THEN executed
                            ELSE Append(executed, [conn |-> c, ids |-> ids,
                                                   settings |-> u.settings])
  <2>1. u.members = IF queues THEN Append(t.members, r.id)
                    ELSE IF r.op = "exec" THEN <<>> ELSE t.members
    BY <1>3, ExecuteChanges
  <2>2. executed' = IF queues \/ r.id = Internal THEN executed
                    ELSE Append(executed, [conn |-> c, ids |-> ids, settings |-> u.settings])
    BY <1>3 DEF ServerExecute
  <2> QED BY <2>1, <2>2
<1> HIDE DEF u
<1>4. ASSUME Forward(a, t, a, u) PROVE OneForward(c)
  BY <1>2, <1>4 DEF OneForward, u
<1>5. CASE ServerSkip(c)
  <2>1. u.members = t.members /\ UNCHANGED executed
    BY <1>1, <1>5 DEF ServerSkip, TcpType, u
  <2> QED BY <1>1, <1>2, <1>4, <2>1, LineSkips
<1>6. CASE ServerExecute(c) /\ queues
  BY <1>1, <1>2, <1>3, <1>4, <1>6, LineQueues
<1>7. CASE ServerExecute(c) /\ ~queues
  <2>1. /\ Forward(a, t, a, u) /\ Once(ids)
        /\ Users(ids) \subseteq OnLine(a, t) /\ Users(ids) \cap OnLine(a, u) = {}
    <3>1. \/ u.members = t.members /\ ids = <<Head(t.wire).id>>
          \/ u.members = <<>> /\ ids = Append(t.members, Head(t.wire).id)
      BY <1>3, <1>7
    <3> HIDE DEF ids
    <3> QED BY <1>1, <1>2, <3>1, LineRuns
  <2>2. CASE r.id = Internal
    BY <1>3, <1>4, <1>7, <2>1, <2>2
  <2>3. CASE r.id # Internal
    <3> DEFINE x == [conn |-> c, ids |-> ids, settings |-> u.settings]
    <3>1. x.ids = ids /\ executed' = Append(executed, x)
      BY <1>3, <1>7, <2>3
    <3> HIDE DEF x, ids
    <3> QED BY <1>2, <1>4, <2>1, <3>1 DEF u
  <2> QED BY <2>2, <2>3
<1> QED BY <1>5, <1>6, <1>7

-----------------------------------------------------------------------------
(* The inductive invariant: every request a user made is in one place, and *)
(* an IOActor that is not created yet is told nothing.                     *)

Lines == [c \in Connections |-> OnLine(io[c], tcp[c])]
NoneBeyond == \A c \in Connections : c > epoch => io[c] = NoIOActor

Delivery ==
    /\ \A c \in Connections : ConnInv(io[c], tcp[c])
    /\ NoneBeyond
    /\ MailOnce(lbox) /\ Once(Asked(queued))
    /\ Separate(Unsent(sent), Mail(lbox), Users(Asked(queued)), Lines, Ran(executed))
    /\ RanOnce(executed)

(* On every line requests move forward or are lost.                        *)
Moved ==
    /\ \A c \in Connections : Forward(io[c], tcp[c], io'[c], tcp'[c])
    /\ NoneBeyond'

LEMMA MovedLines ==
    ASSUME Moved
    PROVE  /\ \A c \in Connections : ConnInv(io'[c], tcp'[c])
           /\ \A c \in Connections : Lines'[c] \subseteq Lines[c]
BY DEF Moved, Forward, Lines

(* Nothing moves but on the lines; messages and queued requests may be lost. *)
LEMMA DeliveryLess ==
    ASSUME Delivery, Moved, MailOnce(lbox'), Mail(lbox') \subseteq Mail(lbox),
           queued' \in {queued, <<>>}, Unsent(sent') \subseteq Unsent(sent), UNCHANGED executed
    PROVE  Delivery'
<1>1. Once(Asked(queued')) /\ Users(Asked(queued')) \subseteq Users(Asked(queued))
  BY AskedEmpty, OnceEmpty DEF Delivery
<1>2. /\ \A c \in Connections : ConnInv(io'[c], tcp'[c])
      /\ \A c \in Connections : Lines'[c] \subseteq Lines[c]
  BY MovedLines
<1>3. Separate(Unsent(sent'), Mail(lbox'), Users(Asked(queued')), Lines', Ran(executed'))
  BY <1>1, <1>2, SeparateLess DEF Delivery
<1> QED BY <1>1, <1>2, <1>3 DEF Delivery, Moved

LEMMA OneMoved ==
    ASSUME Delivery, NEW e \in Connections, OneForward(e), UNCHANGED epoch,
           io[e] = NoIOActor => io'[e] = NoIOActor
    PROVE  Moved
<1>1. \A c \in Connections : Forward(io[c], tcp[c], io'[c], tcp'[c])
  <2> TAKE c \in Connections
  <2>1. CASE c = e
    BY <2>1 DEF OneForward
  <2>2. CASE c # e
    BY <2>2, ForwardStays DEF OneForward, Delivery
  <2> QED BY <2>1, <2>2
<1>2. NoneBeyond'
  BY DEF Delivery, NoneBeyond, OneForward
<1> QED BY <1>1, <1>2 DEF Moved

LEMMA NothingMoved ==
    ASSUME Delivery, UNCHANGED <<io, tcp, epoch>>
    PROVE  Moved
BY ForwardStays DEF Delivery, Moved, NoneBeyond

(* reconnect() makes the next IOActor.                                     *)
LEMMA ReconnectMoved ==
    ASSUME TypeInv, Delivery, Reconnect, UNCHANGED tcp
    PROVE  Moved
<1>1. /\ epoch \in Int /\ epoch' = epoch + 1 /\ epoch + 1 \in Connections
      /\ io \in [Connections -> IOType]
      /\ io' = [io EXCEPT ![epoch + 1] = NewIOActor]
  BY SharedAssumption DEF TypeInv, TypeOK, LTypeOK, Reconnect, Connections
<1>2. io[epoch + 1] = NoIOActor
  BY <1>1 DEF Delivery, NoneBeyond
<1>3. ASSUME NEW t, ConnInv(NoIOActor, t) PROVE Forward(NoIOActor, t, NewIOActor, t)
  <2>1. /\ NewIOActor.box = NoIOActor.box /\ NewIOActor.batch = NoIOActor.batch
        /\ NewIOActor.requests = NoIOActor.requests
        /\ NewIOActor.state = "connecting" /\ NoIOActor.state = "none"
    BY DEF NewIOActor, NoIOActor
  <2> DEFINE a == NoIOActor
             b == NewIOActor
  <2>2. a.state = "none" /\ b.state = "connecting"
        /\ b.box = a.box /\ b.batch = a.batch /\ b.requests = a.requests
    BY <2>1
  <2>3. ConnInv(a, t)
    BY <1>3
  <2> HIDE DEF a, b
  <2>4. Forward(a, t, b, t)
    BY <2>2, <2>3 DEF ConnInv, Forward, Line, OnLine, OneWrite, Failed, WriteFailed
  <2> QED BY <2>4 DEF a, b
<1>4. \A c \in Connections : Forward(io[c], tcp[c], io'[c], tcp'[c])
  <2> TAKE c \in Connections
  <2>1. ConnInv(io[c], tcp[c]) /\ tcp'[c] = tcp[c]
    BY DEF Delivery
  <2>2. CASE c = epoch + 1
    <3>1. io[c] = NoIOActor /\ io'[c] = NewIOActor
      BY <1>1, <1>2, <2>2
    <3> QED BY <1>3, <2>1, <3>1
  <2>3. CASE c # epoch + 1
    <3>1. io'[c] = io[c]
      BY <1>1, <2>3
    <3> QED BY <2>1, <3>1, ForwardStays
  <2> QED BY <2>2, <2>3
<1>5. NoneBeyond'
  <2> SUFFICES ASSUME NEW c \in Connections, c > epoch' PROVE io'[c] = NoIOActor
    BY DEF NoneBeyond
  <2>1. c \in Int /\ c # epoch + 1 /\ c > epoch
    BY <1>1 DEF Connections
  <2> QED BY <1>1, <2>1 DEF Delivery, NoneBeyond
<1> QED BY <1>4, <1>5 DEF Moved

(* The IOActor of the listener is told a signal.                           *)
LEMMA SignalMoved ==
    ASSUME TypeInv, Delivery, NEW s \in IOSignals \ AckTypes, UNCHANGED <<tcp, epoch>>,
           io' = [io EXCEPT ![epoch] = Told(@, <<Signal(s)>>)]
    PROVE  Moved
<1>1. epoch \in Connections /\ io \in [Connections -> IOType] /\ tcp \in [Connections -> TcpType]
  BY DEF TypeInv, TypeOK, LTypeOK, TcpTypeOK
<1>2. \A c \in Connections : Forward(io[c], tcp[c], io'[c], tcp'[c])
  <2> TAKE c \in Connections
  <2>1. ConnInv(io[c], tcp[c]) /\ tcp'[c] = tcp[c] /\ io[c] \in IOType /\ tcp[c] \in TcpType
    BY <1>1 DEF Delivery
  <2>2. CASE c = epoch
    <3>1. io'[c] = Told(io[c], <<Signal(s)>>)
      BY <1>1, <2>2
    <3> QED BY <2>1, <3>1, ToldSignal
  <2>3. CASE c # epoch
    <3>1. io'[c] = io[c]
      BY <1>1, <2>3
    <3> QED BY <2>1, <3>1, ForwardStays
  <2> QED BY <2>2, <2>3
<1>3. NoneBeyond'
  BY <1>1 DEF Delivery, NoneBeyond, Connections
<1> QED BY <1>2, <1>3 DEF Moved

(* Stopping the listener stops its IOActors.                               *)
LEMMA StopMoved ==
    ASSUME TypeInv, Delivery, UNCHANGED <<tcp, epoch>>,
           io' = [e \in Connections |-> IF io[e].state = "none" THEN io[e] ELSE Stopped]
    PROVE  Moved
<1>1. io \in [Connections -> IOType] /\ tcp \in [Connections -> TcpType]
  BY DEF TypeInv, TypeOK, TcpTypeOK
<1>2. \A c \in Connections : Forward(io[c], tcp[c], io'[c], tcp'[c])
  <2> TAKE c \in Connections
  <2>1. ConnInv(io[c], tcp[c]) /\ tcp'[c] = tcp[c] /\ io[c] \in IOType /\ tcp[c] \in TcpType
    BY <1>1 DEF Delivery
  <2>2. io'[c] = io[c] \/ io'[c] = Stopped
    OBVIOUS
  <2> QED BY <2>1, <2>2, ForwardStays, ForwardStops
<1>3. NoneBeyond'
  <2>1. NoIOActor.state = "none"
    BY DEF NoIOActor
  <2> QED BY <2>1 DEF Delivery, NoneBeyond
<1> QED BY <1>2, <1>3 DEF Moved

(* doSend: the requests rs, of the mailbox or of the queue, are handed to  *)
(* the IOActor of the listener.                                            *)
LEMMA SendDelivers ==
    ASSUME TypeInv, Delivery, UNCHANGED <<tcp, epoch, sent, executed>>,
           NEW rs \in Seq(Request), Once(Asked(rs)),
           Users(Asked(rs)) \subseteq Mail(lbox) \cup Users(Asked(queued)),
           NEW before, NEW q, NEW set, Send(rs, before, q, set),
           MailOnce(lbox'), Mail(lbox') \subseteq Mail(lbox),
           Mail(lbox') \cap Users(Asked(rs)) = {},
           Once(Asked(q)), Users(Asked(q)) \subseteq Users(Asked(queued)),
           Users(Asked(q)) \cap Users(Asked(rs)) = {}
    PROVE  Delivery'
<1> DEFINE g == Users(Asked(rs))
           b == Told(io[epoch], IORequests(rs))
<1>1. epoch \in Connections /\ io \in [Connections -> IOType] /\ tcp \in [Connections -> TcpType]
  BY DEF TypeInv, TypeOK, LTypeOK, TcpTypeOK
<1>2. /\ io' = [io EXCEPT ![epoch] = b] /\ queued' = q
  BY DEF Send
<1>3. /\ io'[epoch] = b /\ \A c \in Connections : c # epoch => io'[c] = io[c]
  BY <1>1, <1>2
<1>4. g \cap OnLine(io[epoch], tcp[epoch]) = {}
  BY <1>1 DEF Delivery, Separate, Lines
<1>5. ConnInv(b, tcp[epoch]) /\ OnLine(b, tcp[epoch]) \subseteq OnLine(io[epoch], tcp[epoch]) \cup g
  <2>1. io[epoch] \in IOType /\ tcp[epoch] \in TcpType /\ ConnInv(io[epoch], tcp[epoch])
    BY <1>1 DEF Delivery
  <2> QED BY <1>4, <2>1, ToldRequests
<1> HIDE DEF b
<1>6. \A c \in Connections : ConnInv(io'[c], tcp'[c])
  BY <1>1, <1>3, <1>5 DEF Delivery
<1>7. /\ Lines'[epoch] \subseteq Lines[epoch] \cup g
      /\ \A c \in Connections : c # epoch => Lines'[c] \subseteq Lines[c]
  BY <1>1, <1>3, <1>5 DEF Lines
<1>8. NoneBeyond'
  BY <1>1, <1>3 DEF Delivery, NoneBeyond, Connections
<1>9. Separate(Unsent(sent), Mail(lbox'), Users(Asked(q)), Lines', Ran(executed))
  <2> HIDE DEF g
  <2>1. g \subseteq Mail(lbox) \cup Users(Asked(queued)) /\ Mail(lbox') \cap g = {}
        /\ Users(Asked(q)) \cap g = {}
    BY DEF g
  <2>2. Separate(Unsent(sent), Mail(lbox), Users(Asked(queued)), Lines, Ran(executed))
    BY DEF Delivery
  <2> DEFINE m1 == Mail(lbox')
             q1 == Users(Asked(q))
             lines1 == Lines'
             m0 == Mail(lbox)
             q0 == Users(Asked(queued))
             un == Unsent(sent)
             x == Ran(executed)
             lines0 == Lines
             e == epoch
  <2>3. /\ HandedOver(e, m0, q0, lines0, m1, q1, lines1)
        /\ Separate(un, m0, q0, lines0, x) /\ e \in Connections
    BY <1>1, <1>7, <2>1, <2>2 DEF HandedOver
  <2> HIDE DEF m1, q1, lines1, m0, q0, un, x, lines0, e
  <2>4. Separate(un, m1, q1, lines1, x)
    BY <2>3, SeparateHanded
  <2> QED BY <2>4 DEF m1, q1, lines1, un, x
<1> QED BY <1>2, <1>6, <1>8, <1>9 DEF Delivery

(* The queue is flushed.                                                   *)
LEMMA SendAllDelivers ==
    ASSUME TypeInv, Delivery, UNCHANGED <<tcp, epoch, sent, executed>>,
           NEW before, NEW set, SendAllQueued(before, set),
           MailOnce(lbox'), Mail(lbox') \subseteq Mail(lbox)
    PROVE  Delivery'
<1>1. queued \in Seq(Request) /\ Once(Asked(queued))
  BY DEF TypeInv, TypeOK, LTypeOK, Delivery
<1>2. Mail(lbox') \cap Users(Asked(queued)) = {}
  BY DEF Delivery, Separate
<1> DEFINE none == <<>>
<1>3. Send(queued, before, none, set) /\ Once(Asked(none)) /\ Users(Asked(none)) = {}
  BY AskedEmpty, OnceEmpty DEF SendAllQueued
<1> HIDE DEF none
<1> QED BY <1>1, <1>2, <1>3, SendDelivers

(* The requests that initialise a connection are nobody's.                 *)
LEMMA InitRequestsOfNobody ==
    ASSUME settings \in SettingsType
    PROVE  /\ InitRequests(settings) \in Seq(Request)
           /\ Once(Asked(InitRequests(settings))) /\ Users(Asked(InitRequests(settings))) = {}
<1>1. \A op : \A k \in DOMAIN InitRequest(op, settings) : InitRequest(op, settings)[k].id = Internal
  BY DEF InitRequest
<1>2. \A op \in SessionOps : InitRequest(op, settings) \in Seq(Request)
  <2> TAKE op \in SessionOps
  <2>1. settings[op] \in Values
    BY DEF SettingsType
  <2>2. [id |-> Internal, op |-> op, value |-> settings[op]] \in Request
    BY <2>1 DEF Request, Ops
  <2> QED BY <2>2 DEF InitRequest
<1>3. ASSUME NEW s \in Seq(Request), NEW t \in Seq(Request),
             \A k \in DOMAIN s : s[k].id = Internal, \A k \in DOMAIN t : t[k].id = Internal
      PROVE  s \o t \in Seq(Request) /\ \A k \in DOMAIN (s \o t) : (s \o t)[k].id = Internal
  <2>1. \A k \in DOMAIN (s \o t) : \/ k \in DOMAIN s /\ (s \o t)[k] = s[k]
                                   \/ k - Len(s) \in DOMAIN t /\ (s \o t)[k] = t[k - Len(s)]
    OBVIOUS
  <2> QED BY <1>3, <2>1
<1> DEFINE a == InitRequest("auth", settings)
           b == InitRequest("select", settings)
           c == InitRequest("setName", settings)
           ab == a \o b
           rs == ab \o c
<1>4. /\ a \in Seq(Request) /\ b \in Seq(Request) /\ c \in Seq(Request)
      /\ \A k \in DOMAIN a : a[k].id = Internal
      /\ \A k \in DOMAIN b : b[k].id = Internal
      /\ \A k \in DOMAIN c : c[k].id = Internal
  BY <1>1, <1>2 DEF SessionOps
<1>5. InitRequests(settings) = rs
  BY DEF InitRequests
<1> HIDE DEF a, b, c
<1>6. ab \in Seq(Request) /\ \A k \in DOMAIN ab : ab[k].id = Internal
  BY <1>3, <1>4
<1> HIDE DEF ab
<1>7. rs \in Seq(Request) /\ \A k \in DOMAIN rs : rs[k].id = Internal
  BY <1>3, <1>4, <1>6
<1> HIDE DEF rs
<1>8. \A k \in DOMAIN Asked(rs) : Asked(rs)[k] = Internal
  BY <1>7 DEF Asked
<1>9. Once(Asked(rs)) /\ Users(Asked(rs)) = {}
  BY <1>8 DEF Once, Users
<1> QED BY <1>5, <1>7, <1>9

LEMMA OneMore ==
    ASSUME NEW S, NEW s \in Seq(S), NEW last \in S
    PROVE  /\ s \o <<last>> \in Seq(S) /\ Len(s \o <<last>>) = Len(s) + 1
           /\ (s \o <<last>>)[Len(s) + 1] = last
           /\ \A k \in 1..Len(s) : (s \o <<last>>)[k] = s[k]
OBVIOUS

(* sendReceive hands over the requests of an item, or some of them, once.  *)
LEMMA SentItem ==
    ASSUME NEW rs \in Seq(Request), Len(rs) >= 2, Once(Asked(rs)), NEW both,
           both = <<rs[1]>> \o UpToQuit(SubSeq(rs, 2, Len(rs) - 1)) \o <<rs[Len(rs)]>>
    PROVE  /\ both \in Seq(Request) /\ Once(Asked(both))
           /\ Users(Asked(both)) \subseteq Users(Asked(rs))
<1> DEFINE members == SubSeq(rs, 2, Len(rs) - 1)
           n == Cardinality({i \in DOMAIN members : \A j \in 1..i - 1 : members[j].op # "quit"})
           up == UpToQuit(members)
           len == Len(rs)
<1>1. len \in Nat /\ len >= 2 /\ DOMAIN rs = 1..len
  OBVIOUS
<1>2. /\ members \in Seq(Request) /\ Len(members) = len - 2
      /\ \A k \in 1..len - 2 : members[k] = rs[k + 1]
  <2>1. 2 \in Nat \ {0} /\ len - 1 \in Nat /\ len - 1 <= Len(rs)
    BY <1>1
  <2>2. members \in Seq(Request)
    BY <2>1, SubSeqType
  <2>3. \A k \in 2..len - 1 : rs[k] \in Request
    BY <1>1
  <2>4. /\ Len(members) = IF 2 <= len - 1 THEN len - 1 - 2 + 1 ELSE 0
        /\ \A k \in 1..len - 1 - 2 + 1 : members[k] = rs[2 + k - 1]
    BY <1>1, <2>1, <2>3, SubSeqProperties
  <2> QED BY <1>1, <2>2, <2>4
<1> HIDE DEF members
<1>3. n \in Nat /\ n <= len - 2
  BY <1>2, CutLength
<1>4. up = SubSeq(members, 1, n)
  BY DEF UpToQuit
<1> HIDE DEF n, up
<1>5. /\ up \in Seq(Request) /\ Len(up) = n
      /\ \A k \in 1..n : up[k] = rs[k + 1]
  <2>1. /\ up \in Seq(Request) /\ Len(up) = n
        /\ \A k \in 1..n : up[k] = members[k]
    BY <1>1, <1>2, <1>3, <1>4, SubSeqType
  <2>2. \A k \in 1..n : k \in 1..len - 2
    BY <1>1, <1>3
  <2> HIDE DEF len
  <2> QED BY <1>2, <2>1, <2>2
<1> DEFINE g == [k \in 1..n + 2 |-> IF k = n + 2 THEN len ELSE k]
<1>6. both = <<rs[1]>> \o up \o <<rs[len]>>
  BY DEF up, members
<1>7. rs[1] \in Request /\ rs[len] \in Request
  BY <1>1
<1>8. /\ both \in Seq(Request) /\ Len(both) = n + 2
      /\ both[1] = rs[1] /\ both[n + 2] = rs[len]
      /\ \A k \in 1..n : both[k + 1] = up[k]
  <2> DEFINE first == rs[1]
             last == rs[len]
  <2>1. first \in Request /\ last \in Request /\ both = <<first>> \o up \o <<last>>
    BY <1>6, <1>7
  <2>3. up \in Seq(Request)
    BY <1>5
  <2> HIDE DEF first, last, len, g
  <2> DEFINE front == <<first>> \o up
  <2>4. /\ front \in Seq(Request) /\ Len(front) = Len(up) + 1 /\ front[1] = first
        /\ \A k \in 1..Len(up) : front[k + 1] = up[k]
    BY <2>1, <2>3
  <2>5. both = front \o <<last>> /\ Len(up) \in Nat
    BY <2>1, <2>3
  <2> HIDE DEF front
  <2>6. /\ both \in Seq(Request) /\ Len(both) = Len(front) + 1 /\ both[Len(front) + 1] = last
        /\ \A k \in 1..Len(front) : both[k] = front[k]
    <3>1. front \in Seq(Request) /\ last \in Request
      BY <2>1, <2>4
    <3> DEFINE more == front \o <<last>>
    <3>2. /\ more \in Seq(Request) /\ Len(more) = Len(front) + 1 /\ more[Len(front) + 1] = last
          /\ \A k \in 1..Len(front) : more[k] = front[k]
      BY <3>1, OneMore
    <3>3. both = more
      BY <2>5
    <3> HIDE DEF more
    <3> QED BY <3>2, <3>3
  <2>7. 1 \in 1..Len(front) /\ \A k \in 1..Len(up) : k + 1 \in 1..Len(front)
    BY <2>4, <2>5
  <2>8. both[1] = first /\ \A k \in 1..Len(up) : both[k + 1] = up[k]
    BY <2>4, <2>6, <2>7
  <2>9. Len(both) = n + 2 /\ both[n + 2] = last
    BY <1>5, <2>4, <2>5, <2>6
  <2> QED BY <1>5, <2>6, <2>8, <2>9 DEF first, last
<1>9. \A k \in 1..n + 2 : both[k] = rs[g[k]] /\ g[k] \in 1..len
  <2> TAKE k \in 1..n + 2
  <2>1. CASE k = n + 2
    BY <1>1, <1>3, <1>8, <2>1
  <2>2. CASE k = 1
    BY <1>1, <1>3, <1>8, <2>2
  <2>3. CASE k # 1 /\ k # n + 2
    <3>1. k - 1 \in 1..n /\ g[k] = k /\ k \in 1..len /\ k - 1 + 1 = k
      BY <1>1, <1>3, <2>3
    <3>2. both[k] = up[k - 1] /\ up[k - 1] = rs[k]
      BY <1>5, <1>8, <3>1
    <3> QED BY <3>1, <3>2
  <2> QED BY <2>1, <2>2, <2>3
<1>10. \A j, k \in 1..n + 2 : g[j] = g[k] => j = k
  BY <1>1, <1>3
<1>11. /\ DOMAIN Asked(both) = 1..n + 2 /\ DOMAIN Asked(rs) = 1..len
       /\ \A k \in 1..n + 2 : Asked(both)[k] = Asked(rs)[g[k]]
  <2>1. DOMAIN both = 1..n + 2
    BY <1>3, <1>8
  <2> HIDE DEF g
  <2> QED BY <1>1, <1>9, <2>1 DEF Asked
<1> DEFINE s == Asked(rs)
           t == Asked(both)
<1>12. /\ Once(s) /\ g \in [DOMAIN t -> DOMAIN s] /\ \A k \in DOMAIN t : t[k] = s[g[k]]
  <2>1. g = [k \in 1..n + 2 |-> g[k]]
    OBVIOUS
  <2> HIDE DEF g
  <2> QED BY <1>9, <1>11, <2>1
<1>13. \A j, k \in DOMAIN t : g[j] = g[k] => j = k
  BY <1>10, <1>11
<1> HIDE DEF s, t, g
<1>14. Once(t) /\ Users(t) \subseteq Users(s)
  BY <1>12, <1>13, Picked
<1> QED BY <1>8, <1>14 DEF s, t

-----------------------------------------------------------------------------
(* The steps of the listener.                                              *)

LEMMA TakenMail ==
    ASSUME lbox \in Seq(ListenerMessage), MailOnce(lbox), NEW t, Receives(t), Consume
    PROVE  MailOnce(lbox') /\ Mail(lbox') \subseteq Mail(lbox)
BY MailTail DEF Receives, Consume

LEMMA TakenItem ==
    ASSUME lbox \in Seq(ListenerMessage), MailOnce(lbox), IsItem, Consume
    PROVE  /\ MailOnce(lbox') /\ Mail(lbox') \subseteq Mail(lbox)
           /\ Handed \in Seq(Request) /\ Len(Handed) \in Nat /\ Len(Handed) >= 1
           /\ Once(Asked(Handed)) /\ Users(Asked(Handed)) \subseteq Mail(lbox)
           /\ Users(Asked(Handed)) \cap Mail(lbox') = {}
<1>1. lbox # <<>> /\ Head(lbox).type \in {"Request", "Transaction"}
  BY DEF IsItem, Receives
<1>2. Carries(Head(lbox)) = Asked(Handed)
  BY <1>1 DEF Carries, Handed
<1>3. Handed \in Seq(Request) /\ Len(Handed) \in Nat /\ Len(Handed) >= 1
  BY HandedType
<1>4. lbox' = Tail(lbox)
  BY DEF Consume
<1> QED BY <1>1, <1>2, <1>3, <1>4, MailTail

LEMMA QueuedDelivers ==
    ASSUME TypeInv, Delivery, Moved, UNCHANGED <<sent, executed>>,
           IsItem, Consume, queued' = Enqueued
    PROVE  Delivery'
<1> DEFINE m0 == Mail(lbox)
           m1 == Mail(lbox')
           g == Users(Asked(Handed))
           q0 == Users(Asked(queued))
           q1 == Users(Asked(queued'))
           lines0 == Lines
           lines1 == Lines'
           un == Unsent(sent)
           x == Ran(executed)
<1>1. lbox \in Seq(ListenerMessage) /\ queued \in Seq(Request)
  BY DEF TypeInv, TypeOK, LTypeOK
<1>2. /\ MailOnce(lbox) /\ Once(Asked(queued)) /\ Separate(un, m0, q0, lines0, x)
      /\ RanOnce(executed)
  BY DEF Delivery
<1>3. /\ MailOnce(lbox') /\ m1 \subseteq m0 /\ Handed \in Seq(Request)
      /\ Once(Asked(Handed)) /\ g \subseteq m0 /\ g \cap m1 = {}
  BY <1>1, <1>2, TakenItem
<1>4. Asked(queued') = Asked(queued) \o Asked(Handed)
  BY <1>1, <1>3, AskedConcat DEF Enqueued
<1>5. Asked(queued) \in Seq(Idents) /\ Asked(Handed) \in Seq(Idents)
  BY <1>1, <1>3, AskedType
<1>6. q0 \cap g = {}
  BY <1>2, <1>3 DEF Separate
<1>7. Once(Asked(queued')) /\ q1 = q0 \cup g
  <2> DEFINE s == Asked(queued)
             t == Asked(Handed)
  <2>1. /\ s \in Seq(Idents) /\ t \in Seq(Idents) /\ Once(s) /\ Once(t)
        /\ Users(s) \cap Users(t) = {}
    BY <1>2, <1>3, <1>5, <1>6
  <2> HIDE DEF s, t
  <2>2. Once(s \o t) /\ Users(s \o t) = Users(s) \cup Users(t)
    BY <2>1, OnceConcat, UsersConcat
  <2> QED BY <1>4, <2>2 DEF s, t
<1>8. /\ \A c \in Connections : ConnInv(io'[c], tcp'[c])
      /\ \A c \in Connections : lines1[c] \subseteq lines0[c]
  BY MovedLines
<1>9. Separate(un, m1, q1, lines1, x)
  <2>1. m1 \subseteq m0 /\ q1 \subseteq q0 \cup (m0 \ m1)
    BY <1>3, <1>7
  <2> HIDE DEF m0, m1, g, q0, q1, lines0, lines1, un, x
  <2> QED BY <1>2, <1>8, <2>1, SeparateQueued
<1>10. Unsent(sent') = Unsent(sent) /\ Ran(executed') = Ran(executed) /\ RanOnce(executed')
  BY <1>2
<1> QED BY <1>3, <1>7, <1>8, <1>9, <1>10 DEF Delivery, Moved

LEMMA SendItemDelivers ==
    ASSUME TypeInv, Delivery, SendItem, UNCHANGED <<tcp, sent, executed>>
    PROVE  Delivery'
<1> DEFINE both == <<Handed[1]>> \o UpToQuit(SubSeq(Handed, 2, Len(Handed) - 1))
                     \o <<Handed[Len(Handed)]>>
           rs == IF Len(Handed) = 1 THEN Handed ELSE both
<1>1. IsItem /\ Consume /\ Send(rs, requests, queued, timerSet) /\ UNCHANGED epoch
  BY DEF SendItem, connecting
<1>2. lbox \in Seq(ListenerMessage) /\ MailOnce(lbox) /\ Once(Asked(queued))
  BY DEF TypeInv, TypeOK, LTypeOK, Delivery
<1>3. /\ MailOnce(lbox') /\ Mail(lbox') \subseteq Mail(lbox)
      /\ Handed \in Seq(Request) /\ Len(Handed) \in Nat /\ Len(Handed) >= 1
      /\ Once(Asked(Handed)) /\ Users(Asked(Handed)) \subseteq Mail(lbox)
      /\ Users(Asked(Handed)) \cap Mail(lbox') = {}
  BY <1>1, <1>2, TakenItem
<1>4. rs \in Seq(Request) /\ Once(Asked(rs)) /\ Users(Asked(rs)) \subseteq Users(Asked(Handed))
  <2>1. CASE Len(Handed) = 1
    BY <1>3, <2>1
  <2>2. CASE Len(Handed) # 1
    <3> DEFINE len == Len(Handed)
    <3>1. len \in Nat /\ len >= 1 /\ len # 1
      BY <1>3, <2>2
    <3> HIDE DEF len
    <3>2. len >= 2
      BY <3>1
    <3>3. Len(Handed) >= 2
      BY <3>2 DEF len
    <3>4. /\ both \in Seq(Request) /\ Once(Asked(both))
          /\ Users(Asked(both)) \subseteq Users(Asked(Handed))
      <4>1. both = <<Handed[1]>> \o UpToQuit(SubSeq(Handed, 2, Len(Handed) - 1))
                     \o <<Handed[Len(Handed)]>>
        OBVIOUS
      <4> HIDE DEF both
      <4> QED BY <1>3, <3>3, <4>1, SentItem
    <3> HIDE DEF both
    <3> QED BY <2>2, <3>4
  <2> QED BY <2>1, <2>2
<1> HIDE DEF rs
<1>5. Users(Asked(queued)) \cap Mail(lbox) = {}
  BY DEF Delivery, Separate
<1>6. /\ Users(Asked(rs)) \subseteq Mail(lbox) \cup Users(Asked(queued))
      /\ Mail(lbox') \cap Users(Asked(rs)) = {}
      /\ Users(Asked(queued)) \cap Users(Asked(rs)) = {}
  BY <1>3, <1>4, <1>5
<1> QED BY <1>1, <1>2, <1>3, <1>4, <1>6, SendDelivers

(* The requests that initialise a connection, or the queue, are sent.      *)
LEMMA InitRequestsDeliver ==
    ASSUME TypeInv, Delivery, UNCHANGED <<tcp, epoch, sent, executed>>,
           NEW before, NEW set, Send(InitRequests(settings), before, queued, set),
           MailOnce(lbox'), Mail(lbox') \subseteq Mail(lbox)
    PROVE  Delivery'
<1> DEFINE rs == InitRequests(settings)
<1>1. rs \in Seq(Request) /\ Once(Asked(rs)) /\ Users(Asked(rs)) = {}
  BY InitRequestsOfNobody DEF TypeInv, TypeOK, LTypeOK
<1>2. Send(rs, before, queued, set) /\ Once(Asked(queued))
  BY DEF Delivery
<1> HIDE DEF rs
<1> QED BY <1>1, <1>2, SendDelivers

LEMMA ListenerDelivers ==
    ASSUME TypeInv, Delivery, ListenerStep
    PROVE  Delivery'
<1>1. /\ lbox \in Seq(ListenerMessage) /\ MailOnce(lbox)
      /\ UNCHANGED <<tcp, sent, executed>>
  BY DEF TypeInv, TypeOK, LTypeOK, Delivery, ListenerStep, others, clientVars
<1>2. ASSUME NEW t, Receives(t), Consume
      PROVE  MailOnce(lbox') /\ Mail(lbox') \subseteq Mail(lbox)
  BY <1>1, <1>2, TakenMail
<1>3. ASSUME IsItem, Consume PROVE MailOnce(lbox') /\ Mail(lbox') \subseteq Mail(lbox)
  BY <1>1, <1>3, TakenItem
<1>4. ASSUME Moved, MailOnce(lbox'), Mail(lbox') \subseteq Mail(lbox), queued' \in {queued, <<>>}
      PROVE  Delivery'
  <2>1. Unsent(sent') \subseteq Unsent(sent) /\ UNCHANGED executed
    BY <1>1
  <2> QED BY <1>4, <2>1, DeliveryLess
<1>5. UNCHANGED <<io, epoch>> => Moved
  BY <1>1, NothingMoved
<1>6. ASSUME FailItem PROVE Delivery'
  <2>1. IsItem /\ Consume /\ UNCHANGED <<io, epoch, queued>>
    BY <1>6 DEF FailItem, listenerVars
  <2> QED BY <1>3, <1>4, <1>5, <2>1
<1>7. ASSUME QueueItem PROVE Delivery'
  <2>1. IsItem /\ Consume /\ UNCHANGED <<io, epoch>> /\ queued' = Enqueued
    BY <1>7 DEF QueueItem, connecting
  <2> QED BY <1>1, <1>5, <2>1, QueuedDelivers
<1>8. ASSUME SendItem PROVE Delivery'
  BY <1>1, <1>8, SendItemDelivers
<1>9. ASSUME QuitWhileConnecting PROVE Delivery'
  <2>1. Receives("Request") /\ Consume /\ UNCHANGED <<io, epoch>> /\ queued' = <<>>
    BY <1>9 DEF QuitWhileConnecting
  <2> QED BY <1>2, <1>4, <1>5, <2>1
<1>10. ASSUME ItemWhileConnecting PROVE Delivery'
  <2>1. IsItem /\ Consume /\ queued' \in {queued, Enqueued} /\ ReconnectUnlessConnecting
    BY <1>10 DEF ItemWhileConnecting
  <2>2. Moved
    BY <1>1, <1>5, <2>1, ReconnectMoved DEF ReconnectUnlessConnecting
  <2>3. CASE queued' = queued
    BY <1>3, <1>4, <2>1, <2>2, <2>3
  <2>4. CASE queued' = Enqueued
    BY <1>1, <2>1, <2>2, <2>4, QueuedDelivers
  <2> QED BY <2>1, <2>3, <2>4
<1>11. ASSUME NEW before, NEW set, SendAllQueued(before, set), UNCHANGED epoch,
              MailOnce(lbox'), Mail(lbox') \subseteq Mail(lbox)
       PROVE  Delivery'
  BY <1>1, <1>11, SendAllDelivers
<1>12. ASSUME OnConnected PROVE Delivery'
  <2>1. MailOnce(lbox') /\ Mail(lbox') \subseteq Mail(lbox) /\ UNCHANGED epoch
    BY <1>2, <1>12 DEF OnConnected
  <2>2. CASE InitRequests(settings) # <<>>
    <3>1. Send(InitRequests(settings), requests, queued, timerSet)
      BY <1>12, <2>2 DEF OnConnected
    <3> QED BY <1>1, <2>1, <3>1, InitRequestsDeliver
  <2>3. CASE InitRequests(settings) = <<>>
    <3>1. SendAllQueued(requests, timerSet)
      BY <1>12, <2>3 DEF OnConnected
    <3> QED BY <1>11, <2>1, <3>1
  <2> QED BY <2>2, <2>3
<1>13. ASSUME ReceiveInitializing PROVE Delivery'
  <2>1. MailOnce(lbox') /\ Mail(lbox') \subseteq Mail(lbox) /\ UNCHANGED epoch
    BY <1>2, <1>13 DEF ReceiveInitializing, connecting
  <2>2. CASE initCount' = 0
    <3>1. SendAllQueued(Unanswered(Head(lbox).data), FALSE)
      BY <1>13, <2>2 DEF ReceiveInitializing
    <3> QED BY <1>11, <2>1, <3>1
  <2>3. CASE initCount' # 0
    <3>1. UNCHANGED <<io, queued>>
      BY <1>13, <2>3 DEF ReceiveInitializing
    <3> QED BY <1>4, <1>5, <2>1, <3>1
  <2> QED BY <2>2, <2>3
<1>14. ASSUME OnConnectedAfterQuit \/ Receive \/ OnRemove \/ TerminatedShuttingDown \/ Ignore
              \/ TerminatedConnecting
       PROVE  Delivery'
  <2>1. \E t : Receives(t) /\ Consume
    BY <1>14 DEF OnConnectedAfterQuit, Receive, OnRemove, TerminatedShuttingDown, Ignore, Ignored,
                 TerminatedConnecting
  <2>2. UNCHANGED <<io, epoch>> /\ queued' \in {queued, <<>>}
    BY <1>14 DEF OnConnectedAfterQuit, Receive, OnRemove, TerminatedShuttingDown, Ignore,
                 TerminatedConnecting, FailQueued, connecting, sending, listenerVars
  <2> QED BY <1>2, <1>4, <1>5, <2>1, <2>2
<1>15. ASSUME TerminatedInitializing \/ TerminatedConnected PROVE Delivery'
  <2>1. Receives("Terminated") /\ Consume /\ Reconnect /\ queued' \in {queued, <<>>}
    BY <1>15 DEF TerminatedInitializing, TerminatedConnected, FailQueued
  <2> QED BY <1>1, <1>2, <1>4, <2>1, ReconnectMoved
<1>16. ASSUME HandleReceiveTimeout \/ OnAbort \/ OnShutdown PROVE Delivery'
  <2>1. PICK s \in IOSignals \ AckTypes : io' = [io EXCEPT ![epoch] = Told(@, <<Signal(s)>>)]
    BY <1>16 DEF HandleReceiveTimeout, OnAbort, OnShutdown, Acknowledge, IOSignals, AckTypes
  <2>2. (\E t : Receives(t) /\ Consume) /\ UNCHANGED <<epoch, queued>>
    BY <1>16 DEF HandleReceiveTimeout, OnAbort, OnShutdown, Acknowledge, connecting, sending
  <2>3. Moved
    BY <1>1, <2>1, <2>2, SignalMoved
  <2> QED BY <1>2, <1>4, <2>2, <2>3
<1>17. ASSUME TerminatedAwaitingDecoders PROVE Delivery'
  <2>1. UNCHANGED <<epoch, queued>>
    BY <1>17 DEF TerminatedAwaitingDecoders, sending
  <2>2. CASE decodersLeft' = 0
    <3> DEFINE none == <<>>
    <3>1. /\ lbox' = none
          /\ io' = [e \in Connections |-> IF io[e].state = "none" THEN io[e] ELSE Stopped]
      BY <1>17, <2>2 DEF TerminatedAwaitingDecoders
    <3>2. MailOnce(none) /\ Mail(none) = {}
      BY DEF MailOnce, Mail
    <3> HIDE DEF none
    <3>3. Moved
      BY <1>1, <2>1, <3>1, StopMoved
    <3> QED BY <1>4, <2>1, <3>1, <3>2, <3>3
  <2>3. CASE decodersLeft' # 0
    <3>1. Receives("Terminated") /\ Consume /\ UNCHANGED io
      BY <1>17, <2>3 DEF TerminatedAwaitingDecoders
    <3> QED BY <1>2, <1>4, <1>5, <2>1, <3>1
  <2> QED BY <2>2, <2>3
<1> QED
  BY <1>6, <1>7, <1>8, <1>9, <1>10, <1>12, <1>13, <1>14, <1>15, <1>16, <1>17
  DEF ListenerStep, LNext

-----------------------------------------------------------------------------
(* The steps of the threads.                                               *)

LEMMA UnsentLess ==
    ASSUME sent \in [Threads -> Nat], NEW t \in Threads, sent' = [sent EXCEPT ![t] = @ + 1]
    PROVE  Unsent(sent') \subseteq Unsent(sent)
<1>1. \A u \in Threads : sent[u] \in Nat /\ sent'[u] \in Nat /\ sent'[u] >= sent[u]
  OBVIOUS
<1>2. \A u \in Threads : \A k \in DOMAIN Workload[u] : k > sent'[u] => k > sent[u]
  <2> TAKE u \in Threads
  <2>1. Workload[u] \in Seq(Item)
    BY WorkloadAssumption
  <2>2. \A k \in DOMAIN Workload[u] : k \in Int
    BY <2>1
  <2> QED BY <1>1, <2>2
<1> QED BY <1>2 DEF Unsent

LEMMA CheckDelivers ==
    ASSUME TypeInv, Delivery, NEW t \in Threads, Check(t)
    PROVE  Delivery'
<1>1. UNCHANGED <<lbox, queued, io, tcp, epoch, executed>>
  BY DEF Check, listenerVars
<1>2. sent' = sent \/ sent' = [sent EXCEPT ![t] = @ + 1]
  BY DEF Check
<1>3. Unsent(sent') \subseteq Unsent(sent)
  BY <1>2, UnsentLess DEF TypeInv, TypeOK
<1>4. MailOnce(lbox') /\ Mail(lbox') \subseteq Mail(lbox)
  BY <1>1 DEF Delivery
<1> QED BY <1>1, <1>3, <1>4, NothingMoved, DeliveryLess

LEMMA PostDelivers ==
    ASSUME TypeInv, Delivery, NEW t \in Threads, Post(t)
    PROVE  Delivery'
<1> DEFINE item == NextItem(t)
           g == Users(Asked(item.reqs))
           next == sent[t] + 1
<1>1. /\ sent \in [Threads -> Nat] /\ Workload[t] \in Seq(Item) /\ sent[t] < Len(Workload[t])
      /\ lbox \in Seq(ListenerMessage)
  BY WorkloadAssumption DEF TypeInv, TypeOK, LTypeOK, AdmittedHasItem, HasItem, Post
<1>2. /\ UNCHANGED <<queued, io, tcp, epoch, executed>> /\ sent' = [sent EXCEPT ![t] = @ + 1]
      /\ lbox' = AfterTellingListener(lbox, <<item>>)
  BY DEF Post, listenerVars
<1>3. next \in DOMAIN Workload[t] /\ item = Workload[t][next] /\ next > sent[t] /\ next = sent'[t]
  BY <1>1, <1>2 DEF NextItem
<1>4. item \in Item
  BY <1>1, <1>3
<1>5. item.type \in {"Request", "Transaction"} /\ item.reqs \in Seq(Request)
  BY <1>4 DEF Item
<1> HIDE DEF item, next
<1>6. Asked(item.reqs) \in Seq(Idents) /\ DOMAIN Asked(item.reqs) = DOMAIN item.reqs
  BY <1>5, AskedType DEF Asked
<1>7. Carries(item) = Asked(item.reqs)
  BY <1>5 DEF Carries
<1>8. Once(Asked(item.reqs))
  <2> SUFFICES ASSUME NEW i \in DOMAIN item.reqs, NEW j \in DOMAIN item.reqs,
                      item.reqs[i].id = item.reqs[j].id, item.reqs[i].id # Internal
               PROVE  i = j
    BY DEF Once, Asked
  <2> QED BY <1>3, RequestsAreDistinct
<1>9. g \subseteq Ids
  BY <1>6 DEF Users, Idents
<1>10. g \subseteq Unsent(sent)
  BY <1>3, <1>9 DEF Unsent
<1>11. g \cap Unsent(sent') = {}
  <2> SUFFICES ASSUME NEW x \in g, NEW u \in Threads, NEW l \in DOMAIN Workload[u],
                      l > sent'[u], x \in Users(Asked(Workload[u][l].reqs))
               PROVE  FALSE
    BY DEF Unsent
  <2>1. PICK i \in DOMAIN item.reqs : x = item.reqs[i].id /\ x # Internal
    BY DEF Users, Asked
  <2>2. PICK j \in DOMAIN Workload[u][l].reqs : x = Workload[u][l].reqs[j].id
    BY DEF Users, Asked
  <2>3. t = u /\ next = l
    BY <1>3, <2>1, <2>2, RequestsAreDistinct
  <2>4. sent'[t] \in Nat
    BY <1>1, <1>2
  <2> QED BY <1>3, <2>3, <2>4
<1>12. Unsent(sent') \subseteq Unsent(sent)
  BY <1>1, <1>2, UnsentLess
<1> DEFINE un == Unsent(sent)
           un1 == Unsent(sent')
           m == Mail(lbox)
           m1 == Mail(lbox')
           q == Users(Asked(queued))
           lines == Lines
           x == Ran(executed)
<1>13. Separate(un, m, q, lines, x) /\ MailOnce(lbox)
  BY DEF Delivery
<1>14. Users(Carries(item)) \cap m = {}
  BY <1>7, <1>10, <1>13 DEF Separate
<1>15. MailOnce(lbox') /\ m1 \subseteq m \cup g
  BY <1>1, <1>2, <1>7, <1>8, <1>13, <1>14, MailTold
<1>16. Separate(un1, m1, q, lines, x)
  <2>1. un1 \subseteq un /\ m1 \subseteq m \cup (un \ un1)
    BY <1>10, <1>11, <1>12, <1>15
  <2> HIDE DEF un, un1, m, m1, q, lines, x
  <2> QED BY <1>13, <2>1, SeparatePosted
<1>17. Lines' = Lines /\ NoneBeyond'
  BY <1>2 DEF Lines, NoneBeyond, Delivery
<1> QED BY <1>2, <1>15, <1>16, <1>17 DEF Delivery

-----------------------------------------------------------------------------
(* The steps of the IOActors, the connections and the server.              *)

(* A step that concerns one connection, and tells the listener no item.    *)
LEMMA OneDelivers ==
    ASSUME Delivery, NEW e \in Connections, OneForward(e),
           io[e] = NoIOActor => io'[e] = NoIOActor,
           MailOnce(lbox'), Mail(lbox') \subseteq Mail(lbox),
           UNCHANGED <<epoch, queued, sent, executed>>
    PROVE  Delivery'
<1>1. Moved
  BY OneMoved
<1>2. Unsent(sent') \subseteq Unsent(sent) /\ UNCHANGED executed /\ queued' \in {queued, <<>>}
  OBVIOUS
<1> QED BY <1>1, <1>2, DeliveryLess

LEMMA SameMail ==
    ASSUME Delivery, UNCHANGED lbox
    PROVE  MailOnce(lbox') /\ Mail(lbox') \subseteq Mail(lbox)
BY DEF Delivery

LEMMA IODelivers ==
    ASSUME TypeInv, TypeInv', Delivery, NEW e \in Connections,
           \/ IONext(e) \/ IOCrash(e)
           \/ (FireConnectTimeout(e) \/ FireAbortTimeout(e)) /\ UNCHANGED tcp,
           UNCHANGED <<epoch, queued, sent, executed>>
    PROVE  Delivery'
<1>1. ConnTypes /\ lbox \in Seq(ListenerMessage)
  BY DEF TypeInv, TypeOK, LTypeOK, TcpTypeOK, ConnTypes
<1>2. OneForward(e)
  BY <1>1, IOForward DEF Delivery
<1>3. io[e] # NoIOActor
  <2>1. io[e].box # <<>> \/ io[e].connectTimer \/ io[e].abortTimer
    BY DEF IONext, IOConnected, IOConnectFailed, IORequest, IOWriteAck, IOWriteFailed,
         IOShutdown, IOTerminated, IORejectRequest, IOShutdownAck, IOAbortAck, IOAborted,
         IOAbortTimeout, IOIgnore, IOIgnored, IOCrash, IOReceives, FireConnectTimeout,
         FireAbortTimeout
  <2>2. NoIOActor.box = <<>> /\ ~NoIOActor.connectTimer /\ ~NoIOActor.abortTimer
    BY DEF NoIOActor
  <2> QED BY <2>1, <2>2
<1>4. UNCHANGED lbox \/ \E t \in ListenerSignals : Tell(t)
  BY DEF IONext, IOConnected, IOConnectFailed, IORequest, IOWriteAck, IOWriteFailed,
       IOShutdown, IOTerminated, IORejectRequest, IOShutdownAck, IOAbortAck, IOAborted,
       IOAbortTimeout, IOIgnore, IOCrash, IOStop, WritesNext, ListenerSignals,
       FireConnectTimeout, FireAbortTimeout
<1>5. MailOnce(lbox') /\ Mail(lbox') \subseteq Mail(lbox)
  BY <1>1, <1>4, MailSignal, SameMail DEF Delivery
<1> QED BY <1>2, <1>3, <1>5, OneDelivers

(* What is told to an IOActor that is not created is lost.                 *)
LEMMA ToldNobody ==
    ASSUME TypeInv, NEW c \in Connections, NEW s, TellIO(c, s), io[c] = NoIOActor
    PROVE  io'[c] = NoIOActor
<1>1. NoIOActor.state = "none"
  BY DEF NoIOActor
<1>2. io'[c] = Told(io[c], <<Signal(s)>>)
  BY DEF TellIO, TypeInv, TypeOK
<1> QED BY <1>1, <1>2 DEF Told

LEMMA ConnectionDelivers ==
    ASSUME TypeInv, TypeInv', Delivery, NEW c \in Connections,
           \/ TcpConnect(c) \/ TcpWrite(c) \/ TcpRead(c) \/ TcpAbort(c) \/ TcpQuit(c)
           \/ TcpConnectFail(c) \/ TcpWriteFail(c) \/ TcpDrop(c),
           UNCHANGED user
    PROVE  Delivery'
<1>1. ConnTypes /\ lbox \in Seq(ListenerMessage)
  BY DEF TypeInv, TypeOK, LTypeOK, TcpTypeOK, ConnTypes
<1>2. OneForward(c)
  BY <1>1, ConnectionForward DEF Delivery
<1>3. /\ UNCHANGED io \/ \E s : TellIO(c, s)
      /\ UNCHANGED lbox
           \/ \E data : lbox' = AfterTellingListener(lbox, <<[type |-> "Received", data |-> data]>>)
      /\ UNCHANGED executed
  <2>1. ASSUME Closes(c) PROVE TellIO(c, "Terminated") /\ UNCHANGED <<lbox, executed>>
    BY <2>1 DEF Closes
  <2>2. CASE TcpConnect(c)
    BY <2>2 DEF TcpConnect
  <2>3. CASE TcpWrite(c)
    BY <2>3 DEF TcpWrite
  <2>4. CASE TcpRead(c)
    <3>1. UNCHANGED <<io, executed>>
      BY <2>4 DEF TcpRead
    <3>2. \E data : lbox' = AfterTellingListener(lbox, <<[type |-> "Received", data |-> data]>>)
      BY <2>4 DEF TcpRead
    <3> QED BY <3>1, <3>2
  <2>5. CASE TcpAbort(c) \/ TcpQuit(c) \/ TcpDrop(c)
    BY <2>1, <2>5 DEF TcpAbort, TcpQuit, TcpDrop
  <2>6. CASE TcpConnectFail(c)
    BY <2>6 DEF TcpConnectFail
  <2>7. CASE TcpWriteFail(c)
    BY <2>7 DEF TcpWriteFail
  <2> QED BY <2>2, <2>3, <2>4, <2>5, <2>6, <2>7
<1>4. io[c] = NoIOActor => io'[c] = NoIOActor
  BY <1>3, ToldNobody
<1>5. UNCHANGED <<epoch, queued, sent, executed>>
  BY <1>3 DEF user, listenerVars, clientVars
<1>6. ASSUME NEW data, lbox' = AfterTellingListener(lbox, <<[type |-> "Received", data |-> data]>>)
      PROVE  MailOnce(lbox') /\ Mail(lbox') \subseteq Mail(lbox)
  <2> DEFINE m == [type |-> "Received", data |-> data]
  <2>1. m.type \notin {"Request", "Transaction"} /\ lbox' = AfterTellingListener(lbox, <<m>>)
    BY <1>6
  <2> HIDE DEF m
  <2> QED BY <1>1, <2>1, MailToldNothing DEF Delivery
<1>7. MailOnce(lbox') /\ Mail(lbox') \subseteq Mail(lbox)
  BY <1>3, <1>6, SameMail
<1> QED BY <1>2, <1>4, <1>5, <1>7, OneDelivers

LEMMA ExecuteDelivers ==
    ASSUME TypeInv, TypeInv', Delivery, NEW c \in Connections, Execute(c)
    PROVE  Delivery'
<1>1. ConnTypes /\ lbox \in Seq(ListenerMessage) /\ executed \in Seq(Execution)
  BY DEF TypeInv, TypeOK, LTypeOK, TcpTypeOK, ConnTypes
<1>2. /\ OneForward(c)
      /\ \/ UNCHANGED executed
         \/ \E x : /\ executed' = Append(executed, x) /\ Once(x.ids)
                   /\ Users(x.ids) \subseteq OnLine(io[c], tcp[c])
                   /\ Users(x.ids) \cap OnLine(io'[c], tcp'[c]) = {}
  BY <1>1, ExecuteForward DEF Delivery, Execute
<1>3. UNCHANGED <<io, lbox, epoch, queued, sent>>
  BY DEF Execute, ServerExecute, ServerSkip, user, listenerVars, clientVars
<1>4. MailOnce(lbox') /\ Mail(lbox') \subseteq Mail(lbox)
  BY <1>3, SameMail
<1>5. CASE UNCHANGED executed
  BY <1>2, <1>3, <1>4, <1>5, OneDelivers
<1>6. CASE ~UNCHANGED executed
  <2>1. PICK x : /\ executed' = Append(executed, x) /\ Once(x.ids)
                 /\ Users(x.ids) \subseteq OnLine(io[c], tcp[c])
                 /\ Users(x.ids) \cap OnLine(io'[c], tcp'[c]) = {}
    BY <1>2, <1>6
  <2>2. Moved
    BY <1>2, <1>3, OneMoved
  <2> DEFINE un == Unsent(sent)
             m == Mail(lbox)
             q == Users(Asked(queued))
             lines == Lines
             lines1 == Lines'
             ran == Ran(executed)
             ran1 == Ran(executed')
             g == Users(x.ids)
  <2>3. /\ \A d \in Connections : ConnInv(io'[d], tcp'[d])
        /\ \A d \in Connections : lines1[d] \subseteq lines[d]
    BY <2>2, MovedLines
  <2>4. Separate(un, m, q, lines, ran) /\ RanOnce(executed)
    BY DEF Delivery
  <2>5. g \subseteq lines[c] /\ g \cap lines1[c] = {}
    BY <2>1 DEF Lines
  <2>6. g \cap ran = {}
    BY <2>4, <2>5 DEF Separate
  <2>7. RanOnce(executed') /\ ran1 \subseteq ran \cup g
    BY <1>1, <2>1, <2>4, <2>6, RunsOnce
  <2>8. Separate(un, m, q, lines1, ran1)
    <3>1. ran1 \subseteq ran \cup (lines[c] \ lines1[c])
      BY <2>5, <2>7
    <3> HIDE DEF un, m, q, lines, lines1, ran, ran1, g
    <3> QED BY <2>3, <2>4, <3>1, SeparateRan
  <2> QED BY <1>3, <2>2, <2>3, <2>7, <2>8 DEF Delivery, Moved
<1> QED BY <1>5, <1>6

(* A step that only tells the listener a signal.                           *)
LEMMA SignalDelivers ==
    ASSUME TypeInv, Delivery, UNCHANGED lbox \/ \E t \in ListenerSignals : Tell(t),
           UNCHANGED <<io, tcp, epoch, queued, sent, executed>>
    PROVE  Delivery'
<1>1. MailOnce(lbox') /\ Mail(lbox') \subseteq Mail(lbox)
  BY MailSignal, SameMail DEF Delivery, TypeInv, TypeOK, LTypeOK
<1>2. Moved
  BY NothingMoved
<1>3. Unsent(sent') \subseteq Unsent(sent) /\ UNCHANGED executed /\ queued' \in {queued, <<>>}
  OBVIOUS
<1> QED BY <1>1, <1>2, <1>3, DeliveryLess

-----------------------------------------------------------------------------
LEMMA DeliveryInit == Init => Delivery
<1> SUFFICES ASSUME Init PROVE Delivery
  OBVIOUS
<1> DEFINE none == <<>>
<1>1. /\ lbox = none /\ queued = none /\ executed = none /\ epoch = 1
      /\ io = [e \in Connections |-> IF e = 1 THEN NewIOActor ELSE NoIOActor]
      /\ tcp = [c \in Connections |-> Fresh]
  BY DEF Init, LInit, TcpInit
<1>2. /\ Asked(none) = none /\ Carried(none) = none /\ Acks(none) = {}
      /\ Once(none) /\ Users(none) = {} /\ MailOnce(none) /\ Mail(none) = {}
      /\ RanOnce(none) /\ Ran(none) = {}
  BY OnceEmpty DEF Asked, Carried, Acks, MailOnce, Mail, RanOnce, Ran
<1>3. ASSUME NEW a \in {NewIOActor, NoIOActor}
      PROVE  ConnInv(a, Fresh) /\ OnLine(a, Fresh) = {}
  <2> DEFINE t == Fresh
  <2>1. /\ a.box = none /\ a.batch = none /\ a.requests = none
        /\ a.state \in {"connecting", "none"} /\ ~a.canWrite
    <3>1. /\ NewIOActor.box = none /\ NewIOActor.batch = none /\ NewIOActor.requests = none
          /\ NewIOActor.state = "connecting" /\ ~NewIOActor.canWrite
      BY DEF NewIOActor, NoIOActor
    <3>2. /\ NoIOActor.box = none /\ NoIOActor.batch = none /\ NoIOActor.requests = none
          /\ NoIOActor.state = "none" /\ ~NoIOActor.canWrite
      BY DEF NoIOActor
    <3> HIDE DEF none
    <3>3. a = NewIOActor \/ a = NoIOActor
      BY <1>3
    <3> QED BY <3>1, <3>2, <3>3
  <2>2. t.writing = none /\ t.wire = none /\ t.members = none
    BY DEF Fresh
  <2> HIDE DEF none, t
  <2>3. Failed(a) = none
    BY <2>1 DEF Failed, none
  <2>4. OneWrite(a, t)
    BY <1>2, <2>1, <2>2, <2>3 DEF OneWrite, WriteFailed, none
  <2>5. Line(a, t) /\ OnLine(a, t) = {}
    BY <1>2, <2>1, <2>2, <2>3 DEF Line, OnLine, Apart, AllOf
  <2> QED BY <2>4, <2>5 DEF ConnInv, t
<1>4. \A c \in Connections : ConnInv(io[c], tcp[c]) /\ Lines[c] = {}
  BY <1>1, <1>3 DEF Lines
<1>5. NoneBeyond
  BY <1>1 DEF NoneBeyond
<1>6. Separate(Unsent(sent), Mail(lbox), Users(Asked(queued)), Lines, Ran(executed))
  <2> HIDE DEF none
  <2> QED BY <1>1, <1>2, <1>4 DEF Separate
<1> HIDE DEF none
<1> QED BY <1>1, <1>2, <1>4, <1>5, <1>6 DEF Delivery

LEMMA DeliveryStep == TypeInv /\ TypeInv' /\ Delivery /\ [Next]_vars => Delivery'
<1> SUFFICES ASSUME TypeInv, TypeInv', Delivery, [Next]_vars PROVE Delivery'
  OBVIOUS
<1>1. ASSUME NEW item, CompleteTransaction(item) PROVE Delivery'
  BY <1>1, SignalDelivers DEF CompleteTransaction, listenerVars, others, clientVars
<1>2. ASSUME NEW d \in Decoders, DecoderStep(d) PROVE Delivery'
  <2>1. UNCHANGED lbox \/ \E t \in ListenerSignals : Tell(t)
    BY <1>2 DEF DecoderStep, DecodePartition, DecoderStop, ListenerSignals
  <2>2. UNCHANGED <<io, tcp, epoch, queued, sent, executed>>
    BY <1>2 DEF DecoderStep, listenerVars, others, clientVars
  <2> QED BY <2>1, <2>2, SignalDelivers
<1>3. ASSUME NEW e \in Connections, IOStep(e) PROVE Delivery'
  BY <1>3, IODelivers DEF IOStep, listenerVars, others, clientVars
<1>4. ASSUME Crash PROVE Delivery'
  BY <1>4, IODelivers DEF Crash, listenerVars, clientVars
<1>5. ASSUME NEW e \in Connections, ConnectTimeoutFires(e) \/ AbortTimeoutFires(e) PROVE Delivery'
  <2>1. (FireConnectTimeout(e) \/ FireAbortTimeout(e)) /\ UNCHANGED tcp
    BY <1>5 DEF ConnectTimeoutFires, AbortTimeoutFires, FireConnectTimeout, FireAbortTimeout
  <2>2. UNCHANGED <<epoch, queued, sent, executed>>
    BY <1>5 DEF ConnectTimeoutFires, AbortTimeoutFires, listenerVars, others, clientVars
  <2> QED BY <2>1, <2>2, IODelivers
<1>6. ASSUME NEW c \in Connections, TcpStep(c) PROVE Delivery'
  BY <1>6, ConnectionDelivers DEF TcpStep
<1>7. ASSUME Faulty PROVE Delivery'
  BY <1>7, ConnectionDelivers DEF Faulty
<1>8. ASSUME ReceiveTimeoutFires PROVE Delivery'
  <2>1. \E t \in ListenerSignals : Tell(t)
    BY <1>8 DEF ReceiveTimeoutFires, FireReceiveTimeout, Tell, ListenerSignals
  <2>2. UNCHANGED <<io, tcp, epoch, queued, sent, executed>>
    BY <1>8 DEF ReceiveTimeoutFires, FireReceiveTimeout, clientVars
  <2> QED BY <2>1, <2>2, SignalDelivers
<1>9. ASSUME UNCHANGED vars PROVE Delivery'
  <2>1. UNCHANGED <<lbox, io, tcp, epoch, queued, sent, executed>>
    BY <1>9 DEF vars, listenerVars, clientVars
  <2> QED BY <2>1, SignalDelivers
<1> QED
  BY <1>1, <1>2, <1>3, <1>4, <1>5, <1>6, <1>7, <1>8, <1>9, CheckDelivers, PostDelivers,
     ListenerDelivers, ExecuteDelivers DEF Next

(* A request reaches the server at most once: requeueBatch of IOActor puts *)
(* back only writes of which nothing left, and what ListenerActor forgets  *)
(* in a reconnection it fails and never sends again.                       *)
THEOREM NothingRunsTwice == Spec => []ExecutedAtMostOnce
<1>1. Delivery => ExecutedAtMostOnce
  BY DEF Delivery, RanOnce, ExecutedAtMostOnce
<1> QED BY <1>1, DeliveryInit, DeliveryStep, TypeInit, TypeStep, PTL DEF Spec

=============================================================================
