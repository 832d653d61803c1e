--------------------------- MODULE RequestsProofs ---------------------------
(***************************************************************************)
(* Sends, for any number of invocations, any command lines and any         *)
(* deadlines: what the pane has got of each, and what is said about it.    *)
(***************************************************************************)
EXTENDS Requests, DataInduction

AllLines == {<<>>} \cup UNION {LinesIn(w, c) : w \in World, c \in Client}
AllReqs == {NoRequest} \cup {Run(Words(line)) : line \in AllLines}
AllKeys == {<<>>} \cup {Commands(req) : req \in AllReqs} \cup {Tail(Commands(req)) : req \in AllReqs}
Code == {"none", "OK", "error", "runtime", "PANE_NOT_FOUND", "INVALID_KEY", "TIMEOUT"}

CliType == [pc : CliPC, line : AllLines, req : AllReqs, deadline : Nat,
            result : Code \cup {"cut", "deadline"} \cup {req.verdict : req \in AllReqs}]
ConnType == [pc : ConnPC, sent : BOOLEAN, keys : AllKeys, until : Nat, code : Code]
Sudden == {"hard", "killed", "failed"}
DaemonType == [pc : DaemonPC, open : BOOLEAN, asked : BOOLEAN, exitAt : Nat,
               end : {"none", "exit"} \cup Sudden]

Shapes ==
    /\ world \in World /\ now \in Nat /\ alive \in BOOLEAN
    /\ cli \in [Client -> CliType] /\ conn \in [Client -> ConnType] /\ daemon \in DaemonType
    /\ typed = [c \in Client |-> typed[c]]

(* The connection and the invocation at its other end. *)
JoinedAt(this, other) ==
    /\ this.pc \in {"start", "dial"} => other.pc = "none" /\ this.result = "none"
    /\ this.pc = "dial" => this.req.verdict = "call"
    /\ other.pc # "none" => this.req.verdict = "call"
    /\ this.req.verdict = "call" /\ this.result = "OK" => other.pc = "answered" /\ other.code = "OK"
    /\ this.result = "cut" => other.pc \in {"none", "cut"}

Joined == \A c \in Client : JoinedAt(cli[c], conn[c])

(* How far a send is: what has been typed of it, and what is left, the     *)
(* command at tmux included.                                               *)
Begun(own, keys, all) ==
    \/ own = <<>> /\ keys = all /\ all # <<>>
    \/ Len(all) = 2 /\ own = <<all[1]>> /\ keys = <<all[2]>>

Sent(own, keys, all) ==
    \/ own = <<all[1]>> /\ keys = all /\ all # <<>>
    \/ Len(all) = 2 /\ own = all /\ keys = <<all[2]>>

Part(own, all) == own = <<>> \/ own = all \/ (Len(all) = 2 /\ own = <<all[1]>>)

Progress(own, this, all) ==
    /\ this.pc \in {"none", "backlog", "reading", "query", "waiting"} => own = <<>>
    /\ this.pc \in {"query", "waiting"} => all = <<>>
    /\ this.pc = "typing" => Begun(own, this.keys, all)
    /\ this.pc = "typed" => Sent(own, this.keys, all)
    /\ this.pc = "answered" /\ this.code = "OK" => own = all
    /\ Part(own, all)

(* The main goroutine, its listener and its context. *)
Phase(main) ==
    /\ main.pc = "serving" => main.open
    /\ main.open => main.pc \in {"serving", "failed"}
    /\ main.pc \in {"draining", "teardown"} => main.asked
    /\ main.pc # "gone" => main.end = "none"

(* A daemon that leaves as it was asked to has nobody in service any more. *)
Leaves ==
    /\ Phase(daemon)
    /\ daemon.pc # "gone" /\ ~daemon.open => \A c \in Client : conn[c].pc # "backlog"
    /\ daemon.pc = "teardown" => \A c \in Client : conn[c].pc \notin InService
    /\ daemon.end \notin Sudden =>
          \A c \in Client : conn[c].pc = "cut" => typed[c] = <<>>

RequestsInv ==
    /\ Shapes /\ Joined /\ Leaves
    /\ \A c \in Client : Progress(typed[c], conn[c], Commands(cli[c].req))

-----------------------------------------------------------------------------
(* Sequences of one and of two commands. *)
LEMMA One ==
    ASSUME NEW a
    PROVE  /\ Len(<<a>>) = 1 /\ <<a>>[1] = a /\ <<a>> # <<>>
           /\ Head(<<a>>) = a /\ Tail(<<a>>) = <<>> /\ Append(<<>>, a) = <<a>>
<1> <<a>> \in Seq({a}) /\ <<>> \in Seq({a})  BY SMT
<1> QED  BY SMT

LEMMA Two ==
    ASSUME NEW a, NEW b
    PROVE  /\ Len(<<a, b>>) = 2 /\ <<a, b>>[1] = a /\ <<a, b>>[2] = b /\ <<a, b>> # <<>>
           /\ Head(<<a, b>>) = a /\ Tail(<<a, b>>) = <<b>>
           /\ Append(<<a>>, b) = <<a, b>> /\ <<a>> \o <<b>> = <<a, b>>
<1> DEFINE S == {a, b}
<1>1. <<a, b>> \in Seq(S) /\ <<a>> \in Seq(S) /\ <<b>> \in Seq(S)  BY SMT
<1>2. /\ Len(<<a, b>>) = 2 /\ <<a, b>>[1] = a /\ <<a, b>>[2] = b /\ <<a, b>> # <<>>
      /\ Head(<<a, b>>) = a
  BY SMT
<1>3. Tail(<<a, b>>) = <<b>>
  <2>1. Tail(<<a, b>>) \in Seq(S) /\ Len(Tail(<<a, b>>)) = 1 /\ Tail(<<a, b>>)[1] = b
    BY <1>1, <1>2, HeadTailProperties, SMT
  <2> QED  BY <1>1, <2>1, SeqEqual, SMT
<1>4. Append(<<a>>, b) = <<a, b>>
  <2>1. /\ Append(<<a>>, b) \in Seq(S) /\ Len(Append(<<a>>, b)) = 2
        /\ Append(<<a>>, b)[1] = a /\ Append(<<a>>, b)[2] = b
    BY <1>1, AppendProperties, SMT
  <2>2. \A i \in 1..2 : Append(<<a>>, b)[i] = <<a, b>>[i]
    BY <1>2, <2>1, SMT
  <2> HIDE DEF S
  <2> QED  BY <1>1, <1>2, <2>1, <2>2, SeqEqual
<1>5. <<a>> \o <<b>> = <<a, b>>
  BY <1>1, <1>4, AppendIsConcat
<1> QED  BY <1>2, <1>3, <1>4, <1>5

LEMMA PartIsPrefix ==
    ASSUME NEW all, NEW own, Part(own, all),
           all = <<>> \/ all = <<all[1]>> \/ all = <<all[1], all[2]>>
    PROVE  IsPrefix(own, all)
<1> DEFINE a == all[1]
           b == all[2]
           S == {a, b}
<1>0. <<>> \in Seq(S) /\ <<a>> \in Seq(S) /\ <<a, b>> \in Seq(S)  BY SMT
<1>1. all \in Seq(S)  BY <1>0
<1>2. own \in Seq(S)  BY <1>0, <1>1 DEF Part
<1> QED  BY <1>1, <1>2, One, Two, SubSeqProperties, SMT DEF Part, IsPrefix

(* text and key have a command or two, everything else has none. *)
LEMMA CommandsShape ==
    ASSUME NEW req
    PROVE  /\ \/ Commands(req) = <<>>
              \/ Commands(req) = <<Commands(req)[1]>>
              \/ Commands(req) = <<Commands(req)[1], Commands(req)[2]>>
           /\ Commands(req) = <<>> <=> req.op \notin {"text", "key"}
<1> DEFINE keys == [key |-> "keys", words |-> req.words]
           text == [key |-> "text", words |-> req.words]
           enter == [key |-> "Enter", words |-> <<>>]
<1>1. CASE req.op = "key"
  <2>1. Commands(req) = <<keys>>  BY <1>1 DEF Commands
  <2> QED  BY <1>1, <2>1, One
<1>2. CASE req.op = "text" /\ req.options["enter"] = <<Word("true")>>
  <2>1. Commands(req) = <<text>> \o <<enter>>  BY <1>2 DEF Commands
  <2>2. Commands(req) = <<text, enter>>
    <3> HIDE DEF text, enter
    <3> QED  BY <2>1, Two
  <2> HIDE DEF text, enter
  <2> QED  BY <1>2, <2>2, Two
<1>3. CASE req.op = "text" /\ req.options["enter"] # <<Word("true")>>
  <2>1. Commands(req) = <<text>> \o <<>>  BY <1>3 DEF Commands
  <2>2. Commands(req) = <<text>>
    <3> HIDE DEF text
    <3>1. <<text>> \in Seq({text})  BY SMT
    <3> QED  BY <2>1, <3>1, ConcatEmptySeq
  <2> HIDE DEF text
  <2> QED  BY <1>3, <2>2, One
<1>4. CASE req.op \notin {"text", "key"}
  BY <1>4 DEF Commands
<1> QED  BY <1>1, <1>2, <1>3, <1>4

Shape(all) == all = <<>> \/ all = <<all[1]>> \/ all = <<all[1], all[2]>>

(* A command is carried out, ... *)
LEMMA TypedOne ==
    ASSUME NEW own, NEW keys, NEW all, Shape(all), Begun(own, keys, all)
    PROVE  Sent(Append(own, Head(keys)), keys, all) /\ Part(Append(own, Head(keys)), all)
<1> DEFINE a == all[1]
           b == all[2]
<1>0. keys # <<>> /\ all # <<>>  BY One, SMT DEF Begun
<1>1. CASE all = <<a>>
  <2>1. own = <<>> /\ keys = <<a>>  BY <1>1, One, SMT DEF Begun
  <2>2. Append(own, Head(keys)) = <<a>>  BY <2>1, One
  <2> QED  BY <1>1, <2>1, <2>2, One DEF Sent, Part
<1>2. CASE all = <<a, b>>
  <2>1. CASE own = <<>> /\ keys = all
    <3>1. Append(own, Head(keys)) = <<a>>  BY <1>2, <2>1, One, Two
    <3> QED  BY <1>2, <2>1, <3>1, Two DEF Sent, Part
  <2>2. CASE own = <<a>> /\ keys = <<b>>
    <3>1. Append(own, Head(keys)) = <<a, b>>  BY <2>2, One, Two
    <3> QED  BY <1>2, <2>2, <3>1, Two DEF Sent, Part
  <2> QED  BY <2>1, <2>2 DEF Begun
<1> QED  BY <1>0, <1>1, <1>2 DEF Shape

(* ... and acknowledged. *)
LEMMA AckedOne ==
    ASSUME NEW own, NEW keys, NEW all, Shape(all), Sent(own, keys, all)
    PROVE  /\ Len(keys) = 1 => own = all
           /\ Len(keys) # 1 => Begun(own, Tail(keys), all) /\ Tail(keys) = Tail(all)
           /\ Part(own, all)
<1> DEFINE a == all[1]
           b == all[2]
<1>0. all # <<>>  BY Two, SMT DEF Sent
<1>1. CASE all = <<a>>  BY <1>1, One, SMT DEF Sent, Part
<1>2. CASE all = <<a, b>>
  <2>1. CASE own = <<a>> /\ keys = all
    <3>0. Len(<<a, b>>) = 2 /\ Tail(<<a, b>>) = <<b>>  BY Two, Zenon
    <3>1. Len(all) = 2 /\ Tail(keys) = <<b>>  BY <1>2, <2>1, <3>0
    <3> QED  BY <2>1, <3>1 DEF Begun, Part
  <2>2. CASE own = all /\ keys = <<b>>  BY <1>2, <2>2, One DEF Part
  <2> QED  BY <2>1, <2>2 DEF Sent
<1> QED  BY <1>0, <1>1, <1>2 DEF Shape

-----------------------------------------------------------------------------
LEMMA RequestsInvInit == RequestsInit => RequestsInv
<1> SUFFICES ASSUME RequestsInit PROVE RequestsInv  OBVIOUS
<1>1. Shapes
  BY SMT DEF RequestsInit, Shapes, CliType, CliPC, ConnType, ConnPC, DaemonType, DaemonPC, IdleConn, Code,
             AllLines, AllReqs, AllKeys
<1>2. Joined  BY SMT DEF RequestsInit, Joined, JoinedAt, NoRequest, IdleConn
<1>3. Leaves  BY SMT DEF RequestsInit, Leaves, Phase, IdleConn, InService
<1>4. \A c \in Client : Progress(typed[c], conn[c], Commands(cli[c].req))
  BY SMT DEF RequestsInit, Progress, IdleConn, Part
<1> QED  BY <1>1, <1>2, <1>3, <1>4 DEF RequestsInv

LEMMA StillAFunction ==
    ASSUME NEW S, NEW f, NEW g, NEW x \in S, NEW e, f = [y \in S |-> f[y]], g = [f EXCEPT ![x] = e]
    PROVE  g = [y \in S |-> g[y]]
BY SMT

(* What a handler does with its own connection. *)
LEMMA ConnChange ==
    ASSUME RequestsInv, NEW c \in Client, NEW own,
           UNCHANGED <<world, cli, daemon, alive, now>>,
           conn' \in [Client -> ConnType], \A d \in Client : d # c => conn'[d] = conn[d],
           typed' = [typed EXCEPT ![c] = own],
           conn[c].pc \in {"backlog"} \cup InService, conn'[c].pc \in InService \cup {"answered", "cut"},
           conn[c].pc = "backlog" => daemon.pc = "serving",
           conn'[c].pc = "cut" => own = <<>>,
           Progress(own, conn'[c], Commands(cli[c].req))
    PROVE  RequestsInv'
<1>0. Shapes /\ DOMAIN typed = Client  BY SMT DEF RequestsInv, Shapes
<1>1. Shapes'
  <2>1. (typed = [d \in Client |-> typed[d]])'
    <3>1. typed = [d \in Client |-> typed[d]]  BY <1>0 DEF Shapes
    <3> QED  BY <3>1, StillAFunction, Zenon
  <2> QED  BY <1>0, <2>1 DEF Shapes
<1>2. \A d \in Client : typed'[d] = IF d = c THEN own ELSE typed[d]
  BY <1>0, SMT DEF Shapes
<1>3. Joined'  BY <1>2, SMT DEF RequestsInv, Joined, JoinedAt, InService
<1>4. Leaves'  BY <1>2, SMT DEF RequestsInv, Leaves, Phase, InService
<1>5. \A d \in Client : Progress(typed[d], conn[d], Commands(cli[d].req))'
  BY <1>2 DEF RequestsInv
<1> QED  BY <1>1, <1>3, <1>4, <1>5 DEF RequestsInv

(* The answer to a request. *)
LEMMA Answer ==
    ASSUME RequestsInv, NEW c \in Client, NEW code \in Code, Respond(c, code),
           UNCHANGED <<world, cli, daemon, typed, alive, now>>, conn[c].pc \in InService,
           code = "OK" => typed[c] = Commands(cli[c].req)
    PROVE  RequestsInv'
<1> DEFINE new == [IdleConn EXCEPT !.pc = "answered", !.code = code]
<1>0. Shapes  BY DEF RequestsInv
<1>1. new \in ConnType /\ new.pc = "answered" /\ new.code = code
  <2>1. <<>> \in AllKeys  BY DEF AllKeys
  <2>2. IdleConn \in ConnType  BY <2>1, SMT DEF IdleConn, ConnType, ConnPC, Code
  <2> DEFINE mid == [IdleConn EXCEPT !.pc = "answered"]
  <2>3. mid \in ConnType /\ mid.pc = "answered"  BY <2>2, SMT DEF ConnType, ConnPC
  <2>4. new = [mid EXCEPT !.code = code]  BY <2>2, SMT DEF ConnType
  <2> HIDE DEF mid, new
  <2> QED  BY <2>3, <2>4, SMT DEF ConnType
<1>2. typed' = [typed EXCEPT ![c] = typed[c]]  BY <1>0, SMT DEF Shapes
<1>3. conn' = [conn EXCEPT ![c] = new]  BY DEF Respond
<1> HIDE DEF new
<1>4. /\ conn' \in [Client -> ConnType] /\ conn'[c] = new
      /\ \A d \in Client : d # c => conn'[d] = conn[d]
  BY <1>0, <1>1, <1>3, SMT DEF Shapes
<1>5. Progress(typed[c], conn'[c], Commands(cli[c].req))
  BY <1>1, <1>4, SMT DEF RequestsInv, Progress
<1>6. /\ conn[c].pc \in {"backlog"} \cup InService /\ conn[c].pc # "backlog"
      /\ conn'[c].pc \in InService \cup {"answered", "cut"} /\ conn'[c].pc # "cut"
  BY <1>1, <1>4, SMT DEF InService
<1> QED  BY <1>2, <1>4, <1>5, <1>6, ConnChange, Zenon

(* One step of a handler. *)
LEMMA Handler ==
    ASSUME RequestsInv, NEW c \in Client,
           Accept(c) \/ ReadRequest(c) \/ Query(c) \/ Type(c) \/ TypeFails(c) \/ Acknowledge(c)
           \/ WaitAnswers(c) \/ WaitExpires(c)
    PROVE  RequestsInv'
<1> DEFINE all == Commands(cli[c].req)
           own == typed[c]
<1>0. /\ Shapes /\ conn \in [Client -> ConnType] /\ conn[c].pc \in ConnPC /\ Shape(all)
      /\ Progress(own, conn[c], all) /\ typed = [typed EXCEPT ![c] = own]
  BY CommandsShape, SMT DEF RequestsInv, Shapes, ConnType, Shape
<1>1. CASE Accept(c)
  <2>1. /\ conn' \in [Client -> ConnType] /\ \A d \in Client : d # c => conn'[d] = conn[d]
        /\ conn[c].pc = "backlog" /\ conn'[c].pc = "reading" /\ daemon.pc = "serving"
    BY <1>0, <1>1, SMT DEF Accept, ConnAt, Handle, ConnType, ConnPC
  <2>2. Progress(own, conn'[c], all)  BY <1>0, <2>1, SMT DEF Progress
  <2>3. UNCHANGED <<world, cli, daemon, typed, alive, now>>  BY <1>1 DEF Accept
  <2>4. /\ conn[c].pc \in {"backlog"} \cup InService /\ conn'[c].pc # "cut"
        /\ conn'[c].pc \in InService \cup {"answered", "cut"}
    BY <2>1 DEF InService
  <2> QED  BY <1>0, <2>1, <2>2, <2>3, <2>4, ConnChange, Zenon
<1>2. CASE ReadRequest(c)
  <2>0. conn[c].pc = "reading" /\ own = <<>>
    BY <1>0, <1>2, SMT DEF ReadRequest, ConnAt, Progress
  <2>1. CASE Dispatch(c, cli[c].req)
    <3> DEFINE op == cli[c].req.op
    <3>1. all \in AllKeys  BY <1>0, SMT DEF Shapes, CliType, AllKeys
    <3>2. /\ conn' \in [Client -> ConnType] /\ \A d \in Client : d # c => conn'[d] = conn[d]
          /\ conn'[c].keys = all
          /\ conn'[c].pc = CASE op = "wait" -> "waiting"
                             [] op \in {"text", "key"} -> "typing"
                             [] OTHER -> "query"
      <4> DEFINE at == CASE op = "wait" -> "waiting"
                         [] op \in {"text", "key"} -> "typing"
                         [] OTHER -> "query"
                 until == IF op = "wait" THEN now + WaitTimeout ELSE 0
                 mid == [conn EXCEPT ![c].pc = at]
                 midd == [mid EXCEPT ![c].keys = all]
      <4>1. at \in ConnPC  BY SMT DEF ConnPC
      <4>2. until \in Nat  BY <1>0, RequestsAssumption, SMT DEF Shapes
      <4>3. conn' = [conn EXCEPT ![c].pc = at, ![c].keys = all, ![c].until = until]
        BY <2>1, Zenon DEF Dispatch
      <4> HIDE DEF at, until, all
      <4>4. conn' = [midd EXCEPT ![c].until = until]  BY <1>0, <4>3, SMT DEF ConnType
      <4>5. /\ mid \in [Client -> ConnType] /\ mid[c].pc = at
            /\ \A d \in Client : d # c => mid[d] = conn[d]
        BY <1>0, <4>1, SMT DEF ConnType
      <4> HIDE DEF mid
      <4>6. /\ midd \in [Client -> ConnType] /\ midd[c].pc = at /\ midd[c].keys = all
            /\ \A d \in Client : d # c => midd[d] = conn[d]
        BY <3>1, <4>5, SMT DEF ConnType
      <4> HIDE DEF midd
      <4>7. /\ conn' \in [Client -> ConnType] /\ conn'[c].pc = at /\ conn'[c].keys = all
            /\ \A d \in Client : d # c => conn'[d] = conn[d]
        BY <4>2, <4>4, <4>6, SMT DEF ConnType
      <4> QED  BY <4>7 DEF at
    <3>3. Progress(own, conn'[c], all)
      BY <2>0, <3>2, CommandsShape, SMT DEF Progress, Begun, Part
    <3>4. UNCHANGED <<world, cli, daemon, typed, alive, now>>  BY <1>2 DEF ReadRequest
    <3>5. /\ conn[c].pc \in {"backlog"} \cup InService /\ conn[c].pc # "backlog"
          /\ conn'[c].pc \in InService \cup {"answered", "cut"} /\ conn'[c].pc # "cut"
      BY <2>0, <3>2, SMT DEF InService
    <3> QED  BY <1>0, <3>2, <3>3, <3>4, <3>5, ConnChange, Zenon
  <2>2. CASE Handle(c, "cut")
    <3>1. /\ conn' \in [Client -> ConnType] /\ \A d \in Client : d # c => conn'[d] = conn[d]
          /\ conn'[c].pc = "cut"
      BY <1>0, <2>2, SMT DEF Handle, ConnType, ConnPC
    <3>2. Progress(own, conn'[c], all)  BY <2>0, <3>1, SMT DEF Progress, Part
    <3>3. UNCHANGED <<world, cli, daemon, typed, alive, now>>  BY <1>2 DEF ReadRequest
    <3>4. /\ conn[c].pc \in {"backlog"} \cup InService /\ conn[c].pc # "backlog"
          /\ conn'[c].pc \in InService \cup {"answered", "cut"}
      BY <2>0, <3>1 DEF InService
    <3> QED  BY <1>0, <2>0, <3>1, <3>2, <3>3, <3>4, ConnChange, Zenon
  <2> QED  BY <1>2, <2>1, <2>2 DEF ReadRequest
<1>3. CASE Query(c)
  <2>1. PICK code \in {"OK", "error", "runtime"} : Respond(c, code)  BY <1>3 DEF Query
  <2>2. conn[c].pc \in InService /\ own = all
    BY <1>0, <1>3, SMT DEF Query, ConnAt, InService, Progress
  <2>3. UNCHANGED <<world, cli, daemon, typed, alive, now>>  BY <1>3 DEF Query
  <2> QED  BY <2>1, <2>2, <2>3, Answer DEF Code
<1>4. CASE Type(c)
  <2> DEFINE keys == conn[c].keys
  <2>1. /\ conn' \in [Client -> ConnType] /\ \A d \in Client : d # c => conn'[d] = conn[d]
        /\ conn[c].pc = "typing" /\ conn'[c].pc = "typed" /\ conn'[c].keys = keys
    BY <1>0, <1>4, SMTT(40) DEF Type, ConnAt, Handle, ConnType, ConnPC
  <2>2. typed' = [typed EXCEPT ![c] = Append(own, Head(keys))]  BY <1>4 DEF Type
  <2>3. Begun(own, keys, all)  BY <1>0, <2>1 DEF Progress
  <2>4. Sent(Append(own, Head(keys)), keys, all) /\ Part(Append(own, Head(keys)), all)
    BY <1>0, <2>3, TypedOne
  <2>5. Progress(Append(own, Head(keys)), conn'[c], all)  BY <2>1, <2>4, SMT DEF Progress
  <2>6. UNCHANGED <<world, cli, daemon, alive, now>>  BY <1>4 DEF Type
  <2>7. /\ conn[c].pc \in {"backlog"} \cup InService /\ conn[c].pc # "backlog"
        /\ conn'[c].pc \in InService \cup {"answered", "cut"} /\ conn'[c].pc # "cut"
    BY <2>1 DEF InService
  <2> QED  BY <2>1, <2>2, <2>5, <2>6, <2>7, ConnChange, Zenon
<1>5. CASE TypeFails(c)
  <2>1. PICK code \in {"PANE_NOT_FOUND", "INVALID_KEY", "runtime"} : Respond(c, code)
    BY <1>5 DEF TypeFails, Fails
  <2>2. conn[c].pc \in InService  BY <1>5 DEF TypeFails, ConnAt, InService
  <2>3. UNCHANGED <<world, cli, daemon, typed, alive, now>>  BY <1>5 DEF TypeFails
  <2> QED  BY <2>1, <2>2, <2>3, Answer DEF Code
<1>6. CASE Acknowledge(c)
  <2> DEFINE keys == conn[c].keys
  <2>0. conn[c].pc = "typed" /\ Sent(own, keys, all)
    BY <1>0, <1>6, SMT DEF Acknowledge, ConnAt, Progress
  <2>1. UNCHANGED <<world, cli, daemon, typed, alive, now>>  BY <1>6 DEF Acknowledge
  <2>2. CASE Len(keys) = 1
    <3>1. own = all  BY <1>0, <2>0, <2>2, AckedOne
    <3>2. Respond(c, "OK")  BY <1>6, <2>2 DEF Acknowledge
    <3> QED  BY <2>0, <2>1, <3>1, <3>2, Answer DEF Code, InService
  <2>3. CASE Len(keys) # 1
    <3>1. Begun(own, Tail(keys), all) /\ Tail(keys) = Tail(all) /\ Part(own, all)
      BY <1>0, <2>0, <2>3, AckedOne
    <3>2. Tail(keys) \in AllKeys  BY <1>0, <3>1, SMTT(40) DEF Shapes, CliType, AllKeys
    <3>3. conn' = [conn EXCEPT ![c].pc = "typing", ![c].keys = Tail(@)]
      BY <1>6, <2>3 DEF Acknowledge
    <3>4. /\ conn' \in [Client -> ConnType] /\ \A d \in Client : d # c => conn'[d] = conn[d]
          /\ conn'[c].pc = "typing" /\ conn'[c].keys = Tail(keys)
      <4> DEFINE mid == [conn EXCEPT ![c].pc = "typing"]
                 left == Tail(keys)
      <4>1. /\ mid \in [Client -> ConnType] /\ mid[c].pc = "typing"
            /\ \A d \in Client : d # c => mid[d] = conn[d]
        BY <1>0, SMT DEF ConnType, ConnPC
      <4>2. conn' = [mid EXCEPT ![c].keys = left]  BY <1>0, <3>3, SMT DEF ConnType
      <4> HIDE DEF mid, left
      <4>3. left \in AllKeys  BY <3>2 DEF left
      <4>4. /\ conn' \in [Client -> ConnType] /\ conn'[c].pc = "typing" /\ conn'[c].keys = left
            /\ \A d \in Client : d # c => conn'[d] = conn[d]
        BY <4>1, <4>2, <4>3, SMT DEF ConnType
      <4> QED  BY <4>4 DEF left
    <3>5. Progress(own, conn'[c], all)  BY <3>1, <3>4, SMT DEF Progress
    <3>6. /\ conn[c].pc \in {"backlog"} \cup InService /\ conn[c].pc # "backlog"
          /\ conn'[c].pc \in InService \cup {"answered", "cut"} /\ conn'[c].pc # "cut"
      BY <2>0, <3>4 DEF InService
    <3> QED  BY <1>0, <2>1, <3>4, <3>5, <3>6, ConnChange, Zenon
  <2> QED  BY <2>2, <2>3
<1>7. CASE WaitAnswers(c)
  <2>1. PICK code \in {"OK", "error"} : Respond(c, code)  BY <1>7 DEF WaitAnswers
  <2>2. conn[c].pc \in InService /\ own = all
    BY <1>0, <1>7, SMT DEF WaitAnswers, ConnAt, InService, Progress
  <2>3. UNCHANGED <<world, cli, daemon, typed, alive, now>>  BY <1>7 DEF WaitAnswers
  <2> QED  BY <2>1, <2>2, <2>3, Answer DEF Code
<1>8. CASE WaitExpires(c)
  <2>1. PICK code \in {"TIMEOUT", "runtime"} : Respond(c, code)  BY <1>8 DEF WaitExpires
  <2>2. conn[c].pc \in InService  BY <1>8 DEF WaitExpires, ConnAt, InService
  <2>3. UNCHANGED <<world, cli, daemon, typed, alive, now>>  BY <1>8 DEF WaitExpires
  <2> QED  BY <2>1, <2>2, <2>3, Answer DEF Code
<1> QED  BY <1>1, <1>2, <1>3, <1>4, <1>5, <1>6, <1>7, <1>8

(* What an invocation does with itself and its connection. *)
LEMMA CliChange ==
    ASSUME RequestsInv, NEW c \in Client,
           UNCHANGED <<world, daemon, typed, alive, now>>,
           cli' \in [Client -> CliType], \A d \in Client : d # c => cli'[d] = cli[d],
           conn' \in [Client -> ConnType], \A d \in Client : d # c => conn'[d] = conn[d],
           JoinedAt(cli'[c], conn'[c]),
           Progress(typed[c], conn'[c], Commands(cli'[c].req)),
           \/ conn'[c].pc = conn[c].pc
           \/ conn'[c].pc = "backlog" /\ daemon.open
    PROVE  RequestsInv'
<1>1. Shapes'  BY DEF RequestsInv, Shapes
<1>2. Joined'
  <2> SUFFICES ASSUME NEW d \in Client PROVE JoinedAt(cli[d], conn[d])'  BY DEF Joined
  <2> QED  BY DEF RequestsInv, Joined
<1>3. Leaves'  BY SMT DEF RequestsInv, Leaves, Phase, InService
<1>4. \A d \in Client : Progress(typed[d], conn[d], Commands(cli[d].req))'  BY DEF RequestsInv
<1> QED  BY <1>1, <1>2, <1>3, <1>4 DEF RequestsInv

(* The end of an invocation. *)
LEMMA Finishes ==
    ASSUME RequestsInv, NEW c \in Client, NEW result \in Code \cup {"cut", "deadline"},
           Finish(c, result), UNCHANGED <<world, conn, daemon, typed, alive, now>>,
           result = "OK" => conn[c].pc = "answered" /\ conn[c].code = "OK",
           result = "cut" => conn[c].pc = "cut"
    PROVE  RequestsInv'
<1>0. /\ cli \in [Client -> CliType] /\ conn \in [Client -> ConnType]
      /\ JoinedAt(cli[c], conn[c]) /\ Progress(typed[c], conn[c], Commands(cli[c].req))
  BY DEF RequestsInv, Shapes, Joined
<1> DEFINE mid == [cli EXCEPT ![c].pc = "done"]
           midd == [mid EXCEPT ![c].result = result]
<1>1. cli' = [midd EXCEPT ![c].deadline = 0]  BY <1>0, SMT DEF Finish, CliType
<1>2. /\ mid \in [Client -> CliType] /\ mid[c].pc = "done" /\ mid[c].req = cli[c].req
      /\ \A d \in Client : d # c => mid[d] = cli[d]
  BY <1>0, SMT DEF CliType, CliPC
<1> HIDE DEF mid
<1>3. /\ midd \in [Client -> CliType] /\ midd[c].pc = "done" /\ midd[c].req = cli[c].req
      /\ midd[c].result = result /\ \A d \in Client : d # c => midd[d] = cli[d]
  BY <1>2, SMT DEF CliType
<1> HIDE DEF midd
<1>4. /\ cli' \in [Client -> CliType] /\ cli'[c].pc = "done" /\ cli'[c].req = cli[c].req
      /\ cli'[c].result = result /\ \A d \in Client : d # c => cli'[d] = cli[d]
  BY <1>1, <1>3, SMT DEF CliType
<1>5. JoinedAt(cli'[c], conn[c])  BY <1>0, <1>4, SMT DEF JoinedAt
<1> QED  BY <1>0, <1>4, <1>5, CliChange, Zenon

LEMMA Invocation ==
    ASSUME RequestsInv, NEW c \in Client,
           Invoke(c) \/ Freeze(c) \/ Dial(c) \/ WriteRequest(c) \/ Receive(c) \/ GiveUp(c)
    PROVE  RequestsInv'
<1>0. /\ cli \in [Client -> CliType] /\ conn \in [Client -> ConnType] /\ world \in World /\ now \in Nat
      /\ JoinedAt(cli[c], conn[c]) /\ Progress(typed[c], conn[c], Commands(cli[c].req))
  BY DEF RequestsInv, Shapes, Joined
<1>1. CASE Invoke(c)
  <2>1. PICK line \in LinesIn(world, c) :
           LET req == Run(Words(line)) IN
           cli' = [cli EXCEPT ![c].line = line,
                              ![c].pc = IF req.verdict = "call" THEN "dial" ELSE "done",
                              ![c].req = req,
                              ![c].result = IF req.verdict = "call" THEN "none" ELSE req.verdict]
    BY <1>1 DEF Invoke
  <2> DEFINE req == Run(Words(line))
             at == IF req.verdict = "call" THEN "dial" ELSE "done"
             result == IF req.verdict = "call" THEN "none" ELSE req.verdict
             a == [cli EXCEPT ![c].line = line]
             b == [a EXCEPT ![c].pc = at]
             e == [b EXCEPT ![c].req = req]
  <2>2. line \in AllLines /\ req \in AllReqs /\ at \in CliPC
    BY <1>0, <2>1, SMT DEF AllLines, AllReqs, CliPC
  <2>3. result \in Code \cup {r.verdict : r \in AllReqs}  BY <2>2, SMT DEF Code
  <2>4. cli[c].pc = "start" /\ UNCHANGED <<world, conn, daemon, typed, alive, now>>
    BY <1>1 DEF Invoke, CliAt
  <2>5. conn[c].pc = "none" /\ typed[c] = <<>>  BY <1>0, <2>4, SMT DEF JoinedAt, Progress
  <2>6. Progress(typed[c], conn[c], Commands(req))  BY <2>5, SMT DEF Progress, Part
  <2>7. /\ req.verdict = "call" => at = "dial" /\ result = "none"
        /\ req.verdict # "call" => at = "done"
    OBVIOUS
  <2>8. cli' = [cli EXCEPT ![c].line = line, ![c].pc = at, ![c].req = req, ![c].result = result]
    BY <2>1, Zenon
  <2> HIDE DEF req, at, result
  <2>9. cli' = [e EXCEPT ![c].result = result]  BY <1>0, <2>8, SMT DEF CliType
  <2>10. a \in [Client -> CliType] /\ \A d \in Client : d # c => a[d] = cli[d]
    BY <1>0, <2>2, SMT DEF CliType
  <2> HIDE DEF a
  <2>11. b \in [Client -> CliType] /\ b[c].pc = at /\ \A d \in Client : d # c => b[d] = cli[d]
    BY <2>2, <2>10, SMT DEF CliType
  <2> HIDE DEF b
  <2>12. /\ e \in [Client -> CliType] /\ e[c].pc = at /\ e[c].req = req
         /\ \A d \in Client : d # c => e[d] = cli[d]
    BY <2>2, <2>11, SMT DEF CliType
  <2> HIDE DEF e
  <2>13. /\ cli' \in [Client -> CliType] /\ cli'[c].pc = at /\ cli'[c].req = req
         /\ cli'[c].result = result /\ \A d \in Client : d # c => cli'[d] = cli[d]
    BY <2>3, <2>9, <2>12, SMT DEF CliType
  <2>14. JoinedAt(cli'[c], conn[c])  BY <2>5, <2>7, <2>13, SMT DEF JoinedAt
  <2> QED  BY <1>0, <2>4, <2>6, <2>13, <2>14, CliChange, Zenon
<1>2. CASE Freeze(c)
  <2>1. UNCHANGED <<world, conn, daemon, typed, alive, now>>  BY <1>2 DEF Freeze
  <2>2. /\ cli' \in [Client -> CliType] /\ \A d \in Client : d # c => cli'[d] = cli[d]
        /\ cli'[c].pc = "frozen" /\ cli'[c].req = cli[c].req /\ cli'[c].result = cli[c].result
    BY <1>0, <1>2, SMTT(40) DEF Freeze, CliType, CliPC
  <2>3. JoinedAt(cli'[c], conn[c])  BY <1>0, <2>2, SMT DEF JoinedAt
  <2> QED  BY <1>0, <2>1, <2>2, <2>3, CliChange, Zenon
<1>3. CASE Dial(c)
  <2>0. cli[c].pc = "dial" /\ UNCHANGED <<world, daemon, typed, alive, now>>
    BY <1>3 DEF Dial, CliAt
  <2>1. CASE Listening
    <3> DEFINE due == Deadline(cli[c].req.op)
               mid == [cli EXCEPT ![c].pc = "write"]
               midd == [mid EXCEPT ![c].line = <<>>]
    <3>1. due \in Nat  BY <1>0, RequestsAssumption, SMT DEF Deadline
    <3>2. /\ cli' = [cli EXCEPT ![c].pc = "write", ![c].line = <<>>, ![c].deadline = due]
          /\ conn' = [conn EXCEPT ![c].pc = "backlog"]
      BY <1>3, <2>1, Zenon DEF Dial
    <3> HIDE DEF due
    <3>3. cli' = [midd EXCEPT ![c].deadline = due]  BY <1>0, <3>2, SMT DEF CliType
    <3>4. /\ mid \in [Client -> CliType] /\ mid[c].pc = "write" /\ mid[c].req = cli[c].req
          /\ mid[c].result = cli[c].result /\ \A d \in Client : d # c => mid[d] = cli[d]
      BY <1>0, SMT DEF CliType, CliPC
    <3> HIDE DEF mid
    <3>5. <<>> \in AllLines  BY DEF AllLines
    <3>6. /\ midd \in [Client -> CliType] /\ midd[c].pc = "write" /\ midd[c].req = cli[c].req
          /\ midd[c].result = cli[c].result /\ \A d \in Client : d # c => midd[d] = cli[d]
      BY <3>4, <3>5, SMT DEF CliType
    <3> HIDE DEF midd
    <3>7. /\ cli' \in [Client -> CliType] /\ cli'[c].pc = "write" /\ cli'[c].req = cli[c].req
          /\ cli'[c].result = cli[c].result /\ \A d \in Client : d # c => cli'[d] = cli[d]
      BY <3>1, <3>3, <3>6, SMT DEF CliType
    <3>8. /\ conn' \in [Client -> ConnType] /\ conn'[c].pc = "backlog"
          /\ \A d \in Client : d # c => conn'[d] = conn[d]
      <4>1. conn' = [conn EXCEPT ![c].pc = "backlog"]  BY <3>2
      <4>2. conn \in [Client -> ConnType]  BY <1>0
      <4> QED  BY ONLY <4>1, <4>2, SMT DEF ConnType, ConnPC
    <3>9. JoinedAt(cli'[c], conn'[c])  BY <1>0, <2>0, <3>7, <3>8, SMT DEF JoinedAt
    <3>10. Progress(typed[c], conn'[c], Commands(cli'[c].req))
      <4>1. typed[c] = <<>>  BY <1>0, <2>0, SMT DEF JoinedAt, Progress
      <4> QED  BY <4>1, <3>8, SMT DEF Progress, Part
    <3>11. daemon.open  BY <2>1 DEF Listening
    <3> QED  BY <2>0, <3>7, <3>8, <3>9, <3>10, <3>11, CliChange, Zenon
  <2>2. CASE ~Listening
    <3>1. Finish(c, "runtime") /\ UNCHANGED conn  BY <1>3, <2>2, Zenon DEF Dial
    <3> QED  BY <2>0, <3>1, Finishes DEF Code
  <2> QED  BY <2>1, <2>2
<1>4. CASE WriteRequest(c)
  <2>1. UNCHANGED <<world, daemon, typed, alive, now>> /\ cli[c].pc = "write"
    BY <1>4 DEF WriteRequest, CliAt
  <2>2. /\ cli' \in [Client -> CliType] /\ \A d \in Client : d # c => cli'[d] = cli[d]
        /\ cli'[c].pc = "await" /\ cli'[c].req = cli[c].req /\ cli'[c].result = cli[c].result
    BY <1>0, <1>4, SMT DEF WriteRequest, CliType, CliPC
  <2>3. /\ conn' \in [Client -> ConnType] /\ \A d \in Client : d # c => conn'[d] = conn[d]
        /\ conn'[c].pc = conn[c].pc /\ conn'[c].keys = conn[c].keys /\ conn'[c].code = conn[c].code
    <3> DEFINE written == TRUE
               B == BOOLEAN
    <3>1. conn' = [conn EXCEPT ![c].sent = written]  BY <1>4 DEF WriteRequest
    <3>2. conn \in [Client -> [pc : ConnPC, sent : B, keys : AllKeys, until : Nat, code : Code]]
      BY <1>0 DEF ConnType
    <3>3. written \in B  OBVIOUS
    <3> HIDE DEF written, B
    <3>4. /\ conn' \in [Client -> [pc : ConnPC, sent : B, keys : AllKeys, until : Nat, code : Code]]
          /\ \A d \in Client : d # c => conn'[d] = conn[d]
          /\ conn'[c].pc = conn[c].pc /\ conn'[c].keys = conn[c].keys /\ conn'[c].code = conn[c].code
      BY <3>1, <3>2, <3>3, SMT
    <3> QED  BY <3>4 DEF ConnType, B
  <2>4. JoinedAt(cli'[c], conn'[c])  BY <1>0, <2>2, <2>3, SMT DEF JoinedAt
  <2>5. Progress(typed[c], conn'[c], Commands(cli'[c].req))  BY <1>0, <2>2, <2>3, SMT DEF Progress
  <2> QED  BY <2>1, <2>2, <2>3, <2>4, <2>5, CliChange, Zenon
<1>5. CASE Receive(c)
  <2>1. UNCHANGED <<world, conn, daemon, typed, alive, now>>  BY <1>5 DEF Receive
  <2>2. CASE conn[c].pc = "answered" /\ Finish(c, conn[c].code)
    <3>1. conn[c].code \in Code  BY <1>0, SMT DEF ConnType
    <3>2. conn[c].code # "cut"  BY <3>1 DEF Code
    <3> QED  BY <2>1, <2>2, <3>1, <3>2, Finishes, Zenon
  <2>3. CASE conn[c].pc = "cut" /\ Finish(c, "cut")  BY <2>1, <2>3, Finishes DEF Code
  <2> QED  BY <1>5, <2>2, <2>3 DEF Receive, ConnAt
<1>6. CASE GiveUp(c)
  <2>1. UNCHANGED <<world, conn, daemon, typed, alive, now>> /\ Finish(c, "deadline")
    BY <1>6 DEF GiveUp
  <2> QED  BY <2>1, Finishes
<1> QED  BY <1>1, <1>2, <1>3, <1>4, <1>5, <1>6

(* A flag of the main goroutine changes. *)
LEMMA FlagChange ==
    ASSUME NEW d \in DaemonType, NEW flag \in BOOLEAN
    PROVE  LET asked == [d EXCEPT !.asked = flag]
               open == [d EXCEPT !.open = flag]
           IN  /\ asked \in DaemonType /\ asked.asked = flag
               /\ asked.pc = d.pc /\ asked.open = d.open /\ asked.end = d.end
               /\ open \in DaemonType /\ open.open = flag
               /\ open.pc = d.pc /\ open.asked = d.asked /\ open.end = d.end
<1> DEFINE B == BOOLEAN
<1>1. flag \in B  OBVIOUS
<1>2. DaemonType = [pc : DaemonPC, open : B, asked : B, exitAt : Nat, end : {"none", "exit"} \cup Sudden]
  BY DEF DaemonType
<1> HIDE DEF B
<1> QED  BY <1>1, <1>2, SMT

(* What the main goroutine does with the connections, when it cuts those   *)
(* that are at pcs.                                                        *)
Leaving(pcs) ==
    /\ daemon'.pc # "gone" /\ ~daemon'.open =>
          \A c \in Client : conn[c].pc = "backlog" => conn[c].pc \in pcs
    /\ daemon'.pc = "teardown" => \A c \in Client : conn[c].pc \in InService => conn[c].pc \in pcs
    /\ daemon'.end \notin Sudden => /\ daemon.end \notin Sudden
                                    /\ \A c \in Client : conn[c].pc \in pcs => typed[c] = <<>>

LEMMA DaemonChange ==
    ASSUME RequestsInv, NEW pcs, pcs \subseteq {"backlog"} \cup InService,
           conn' = CutOff(pcs), daemon' \in DaemonType, UNCHANGED <<world, cli, typed, alive, now>>,
           Phase(daemon'), Leaving(pcs)
    PROVE  RequestsInv'
<1> DEFINE cut == [IdleConn EXCEPT !.pc = "cut"]
<1>1. cut \in ConnType /\ cut.pc = "cut"
  <2>1. <<>> \in AllKeys  BY DEF AllKeys
  <2>2. IdleConn \in ConnType  BY <2>1, SMT DEF IdleConn, ConnType, ConnPC, Code
  <2> QED  BY <2>2, SMT DEF ConnType, ConnPC
<1>2. conn' = [c \in Client |-> IF conn[c].pc \in pcs THEN cut ELSE conn[c]]  BY DEF CutOff
<1> HIDE DEF cut
<1>3. conn \in [Client -> ConnType]  BY DEF RequestsInv, Shapes
<1>4. conn' \in [Client -> ConnType]  BY <1>1, <1>2, <1>3, SMT
<1>5. \A c \in Client : /\ conn[c].pc \in pcs => conn'[c].pc = "cut"
                        /\ conn[c].pc \notin pcs => conn'[c] = conn[c]
  BY <1>1, <1>2, SMT
<1>6. Shapes'  BY <1>4 DEF RequestsInv, Shapes
<1>7. Joined'  BY <1>5, SMT DEF RequestsInv, Joined, JoinedAt, InService
<1>8. Leaves'  BY <1>5, SMT DEF RequestsInv, Leaves, Leaving, InService
<1>9. ASSUME NEW c \in Client PROVE Progress(typed[c], conn[c], Commands(cli[c].req))'
  BY <1>5, SMT DEF RequestsInv, Progress
<1> QED  BY <1>6, <1>7, <1>8, <1>9 DEF RequestsInv

LEMMA MainGoroutine ==
    ASSUME RequestsInv, RequestStop \/ DaemonStep \/ AcceptFails \/ Exit \/ Kill
    PROVE  RequestsInv'
<1>0. /\ conn \in [Client -> ConnType] /\ daemon \in DaemonType /\ now \in Nat /\ Leaves /\ Phase(daemon)
      /\ \A c \in Client : Progress(typed[c], conn[c], Commands(cli[c].req))
  BY DEF RequestsInv, Shapes, Leaves
<1>1. conn = CutOff({}) /\ {} \subseteq {"backlog"} \cup InService  BY <1>0, SMT DEF CutOff
<1>2. CASE RequestStop
  <2> DEFINE mid == [daemon EXCEPT !.asked = TRUE]
             due == now + HardExitTime
  <2>0. due \in Nat  BY <1>0, RequestsAssumption, SMT
  <2>1. daemon' = [daemon EXCEPT !.asked = TRUE, !.exitAt = due]  BY <1>2 DEF RequestStop
  <2> HIDE DEF due
  <2>2. daemon' = [mid EXCEPT !.exitAt = due]  BY <1>0, <2>1, SMT DEF DaemonType
  <2>3. /\ mid \in DaemonType /\ mid.asked
        /\ mid.pc = daemon.pc /\ mid.open = daemon.open /\ mid.end = daemon.end
    BY <1>0, FlagChange
  <2> HIDE DEF mid
  <2>4. /\ daemon' \in DaemonType /\ daemon'.asked
        /\ daemon'.pc = daemon.pc /\ daemon'.open = daemon.open /\ daemon'.end = daemon.end
    BY <2>0, <2>2, <2>3, SMT DEF DaemonType
  <2>5. UNCHANGED <<world, cli, conn, typed, alive, now>>  BY <1>2 DEF RequestStop
  <2>6. Phase(daemon')  BY <1>0, <2>4 DEF Phase
  <2>7. Leaving({})  BY <1>0, <2>4, SMT DEF Leaves, Leaving
  <2> QED  BY <1>1, <2>4, <2>5, <2>6, <2>7, DaemonChange, Zenon
<1>3. CASE CloseListener
  <2> DEFINE at == IF daemon.pc = "serving" THEN "draining" ELSE daemon.pc
             mid == [daemon EXCEPT !.open = FALSE]
             pcs == {"backlog"}
  <2>1. /\ daemon.asked /\ daemon.open /\ conn' = CutOff(pcs)
        /\ UNCHANGED <<world, cli, typed, alive, now>>
        /\ daemon' = [daemon EXCEPT !.open = FALSE, !.pc = at]
    BY <1>3 DEF CloseListener
  <2>2. at \in DaemonPC /\ at \in {"draining", "failed"}
    BY <1>0, <2>1, SMT DEF Phase, DaemonPC
  <2> HIDE DEF at
  <2>3. daemon' = [mid EXCEPT !.pc = at]  BY <1>0, <2>1, SMT DEF DaemonType
  <2>4. mid \in DaemonType /\ ~mid.open /\ mid.asked = daemon.asked /\ mid.end = daemon.end
    BY <1>0, FlagChange
  <2> HIDE DEF mid
  <2>5. /\ daemon' \in DaemonType /\ daemon'.pc = at
        /\ ~daemon'.open /\ daemon'.asked = daemon.asked /\ daemon'.end = daemon.end
    BY <2>2, <2>3, <2>4, SMT DEF DaemonType
  <2>6. daemon.end = "none"  BY <1>0, <2>1 DEF Phase
  <2>7. Phase(daemon')  BY <2>1, <2>2, <2>5, <2>6, SMT DEF Phase
  <2>8. \A c \in Client : conn[c].pc \in pcs => typed[c] = <<>>  BY <1>0, SMT DEF Progress
  <2>9. Leaving(pcs)
    <3>1. /\ daemon'.pc # "teardown" /\ daemon.end \notin Sudden
          /\ \A c \in Client : conn[c].pc = "backlog" => conn[c].pc \in pcs
      BY <2>2, <2>5, <2>6, SMT DEF Sudden
    <3> HIDE DEF pcs
    <3> QED  BY <2>8, <3>1 DEF Leaving
  <2>10. pcs \subseteq {"backlog"} \cup InService  OBVIOUS
  <2> HIDE DEF pcs
  <2> QED  BY <2>1, <2>5, <2>7, <2>9, <2>10, DaemonChange, Zenon
<1>4. CASE ServeReturns \/ AcceptFails
  <2> DEFINE at == IF ServeReturns THEN "teardown" ELSE "failed"
  <2>1. /\ daemon' = [daemon EXCEPT !.pc = at] /\ UNCHANGED <<world, cli, conn, typed, alive, now>>
        /\ at = "teardown" => daemon.pc = "draining" /\ Drained
        /\ at = "failed" => daemon.pc = "serving"
    BY <1>4, SMT DEF ServeReturns, AcceptFails
  <2>2. at \in {"teardown", "failed"}  OBVIOUS
  <2> HIDE DEF at
  <2>3. /\ daemon' \in DaemonType /\ daemon'.pc = at /\ daemon'.asked = daemon.asked
        /\ daemon'.open = daemon.open /\ daemon'.end = daemon.end
    BY <1>0, <2>1, <2>2, SMT DEF DaemonType, DaemonPC
  <2>4. Phase(daemon')  BY <1>0, <2>1, <2>2, <2>3 DEF Phase
  <2>5. Leaving({})
    <3>1. daemon.pc # "gone" /\ daemon.end = "none"  BY <1>0, <2>1, <2>2 DEF Phase
    <3> QED  BY <1>0, <2>1, <2>3, <3>1, SMT DEF Leaves, Leaving, Drained, Sudden
  <2> QED  BY <1>1, <2>1, <2>3, <2>4, <2>5, DaemonChange, Zenon
<1>5. ASSUME NEW how \in {"exit"} \cup Sudden, Ends(how), daemon.pc # "gone",
             how = "exit" => daemon.pc = "teardown"
      PROVE  RequestsInv'
  <2> DEFINE mid == [daemon EXCEPT !.pc = "gone"]
             midd == [mid EXCEPT !.open = FALSE]
             pcs == {"backlog"} \cup InService
  <2>1. daemon' = [daemon EXCEPT !.pc = "gone", !.open = FALSE, !.end = how]  BY <1>5 DEF Ends
  <2>2. daemon' = [midd EXCEPT !.end = how]  BY <1>0, <2>1, SMT DEF DaemonType
  <2>3. mid \in DaemonType /\ mid.pc = "gone"  BY <1>0, SMT DEF DaemonType, DaemonPC
  <2> HIDE DEF mid
  <2>4. midd \in DaemonType /\ midd.pc = "gone" /\ ~midd.open  BY <2>3, FlagChange
  <2> HIDE DEF midd
  <2>5. daemon' \in DaemonType /\ daemon'.pc = "gone" /\ ~daemon'.open /\ daemon'.end = how
    BY <1>5, <2>2, <2>4, SMT DEF DaemonType
  <2>6. daemon.end = "none"  BY <1>0, <1>5 DEF Phase
  <2>7. ASSUME how = "exit", NEW c \in Client PROVE conn[c].pc \notin pcs
    <3>1. daemon.pc = "teardown" /\ ~daemon.open  BY <1>0, <1>5, <2>7 DEF Phase
    <3> QED  BY <1>0, <3>1 DEF Leaves
  <2>8. pcs \subseteq {"backlog"} \cup InService /\ conn' = CutOff(pcs)
        /\ UNCHANGED <<world, cli, typed, alive, now>>
    BY <1>5 DEF Ends
  <2>9. how = "exit" \/ how \in Sudden  BY <1>5
  <2> HIDE DEF pcs
  <2>10. Phase(daemon')  BY <2>5 DEF Phase
  <2>11. Leaving(pcs)
    <3>1. daemon.end \notin Sudden  BY <2>6 DEF Sudden
    <3> QED  BY <2>5, <2>7, <2>9, <3>1 DEF Leaving
  <2> QED  BY <2>5, <2>8, <2>10, <2>11, DaemonChange, Zenon
<1>6. CASE Exit  BY <1>5, <1>6 DEF Exit, Sudden
<1>7. CASE HardExit  BY <1>5, <1>7 DEF HardExit, Sudden
<1>8. CASE Kill  BY <1>5, <1>8 DEF Kill, Sudden
<1> QED  BY <1>2, <1>3, <1>4, <1>6, <1>7, <1>8 DEF DaemonStep

-----------------------------------------------------------------------------
LEMMA RequestsInvNext ==
    ASSUME RequestsInv, [RequestsNext]_requestsVars
    PROVE  RequestsInv'
<1>1. ASSUME NEW c \in Client,
             Invoke(c) \/ Freeze(c) \/ ClientStep(c) \/ HandlerStep(c) \/ TmuxStep(c) \/ WaitAnswers(c)
      PROVE  RequestsInv'
  BY <1>1, Invocation, Handler DEF ClientStep, HandlerStep, TmuxStep
<1>2. CASE KillPane \/ Tick
  <2>1. UNCHANGED <<world, cli, conn, daemon, typed>> /\ alive' \in BOOLEAN /\ now' \in Nat
    <3>1. now \in Nat /\ alive \in BOOLEAN  BY DEF RequestsInv, Shapes
    <3>2. CASE KillPane  BY <3>1, <3>2 DEF KillPane
    <3>3. CASE Tick  BY <3>1, <3>3, now + 1 \in Nat DEF Tick
    <3> QED  BY <1>2, <3>2, <3>3
  <2> QED  BY <2>1 DEF RequestsInv, Shapes, Joined, Leaves
<1>3. CASE UNCHANGED requestsVars
  BY <1>3 DEF requestsVars, RequestsInv, Shapes, Joined, Leaves
<1> QED  BY <1>1, <1>2, <1>3, MainGoroutine DEF RequestsNext

LEMMA RequestsInvAlways == RequestsSpec => []RequestsInv
BY RequestsInvInit, RequestsInvNext, PTL DEF RequestsSpec

(* Types; a connection exists only for a line that was accepted, and tmux  *)
(* is only ever at work on a command.                                      *)
THEOREM RequestsTypeCorrect == RequestsSpec => []RequestsTypeOK
<1>1. ASSUME RequestsInv PROVE RequestsTypeOK
  <2>1. ASSUME NEW c \in Client PROVE /\ cli[c].pc \in CliPC /\ cli[c].deadline \in Nat
                                      /\ conn[c].pc \in ConnPC /\ conn[c].until \in Nat
    BY <1>1, SMT DEF RequestsInv, Shapes, CliType, ConnType
  <2>2. ASSUME NEW c \in Client, conn[c].pc \in {"typing", "typed"} PROVE conn[c].keys # <<>>
    <3>1. Progress(typed[c], conn[c], Commands(cli[c].req))  BY <1>1 DEF RequestsInv
    <3>2. \A a : <<a>> # <<>>  BY One, Zenon
    <3> QED  BY <2>2, <3>1, <3>2, Zenon DEF Progress, Begun, Sent
  <2>3. \A c \in Client : conn[c].pc # "none" => cli[c].req.verdict = "call"
    BY <1>1 DEF RequestsInv, Joined, JoinedAt
  <2>4. /\ daemon.pc \in DaemonPC /\ alive \in BOOLEAN
        /\ daemon.open => daemon.pc \in {"serving", "failed"}
        /\ daemon.pc \in {"draining", "teardown"} => daemon.asked
    BY <1>1, SMT DEF RequestsInv, Shapes, DaemonType, Leaves, Phase
  <2> QED  BY <2>1, <2>2, <2>3, <2>4 DEF RequestsTypeOK
<1> QED  BY <1>1, RequestsInvAlways, PTL

(* What is typed of a send is a prefix of it, and all of it once the       *)
(* invocation reports success.                                             *)
THEOREM SendsAreWhole == RequestsSpec => []SendsAreWholeWhenAcknowledged
<1>1. ASSUME RequestsInv, NEW c \in Client, cli[c].req.verdict = "call"
      PROVE  /\ IsPrefix(typed[c], Commands(cli[c].req))
             /\ cli[c].result = "OK" => typed[c] = Commands(cli[c].req)
  <2>1. /\ JoinedAt(cli[c], conn[c])
        /\ Progress(typed[c], conn[c], Commands(cli[c].req))
    BY <1>1 DEF RequestsInv, Joined
  <2>2. IsPrefix(typed[c], Commands(cli[c].req))
    BY <2>1, CommandsShape, PartIsPrefix DEF Progress
  <2> QED  BY <1>1, <2>1, <2>2 DEF JoinedAt, Progress
<1>2. RequestsInv => SendsAreWholeWhenAcknowledged  BY <1>1 DEF SendsAreWholeWhenAcknowledged
<1> QED  BY <1>2, RequestsInvAlways, PTL

(* A connection that ends without an answer has typed nothing, unless the  *)
(* daemon came to a sudden end: killed, by its hard-exit deadline, or upon *)
(* an Accept that failed.                                                  *)
THEOREM CutIsClean == RequestsSpec => []CutMeansNotRun
<1>1. ASSUME RequestsInv, NEW c \in Client, cli[c].result = "cut", daemon.end \notin Sudden
      PROVE  typed[c] = <<>>
  <2>1. conn[c].pc \in {"none", "cut"}  BY <1>1 DEF RequestsInv, Joined, JoinedAt
  <2>2. CASE conn[c].pc = "none"  BY <1>1, <2>2, SMT DEF RequestsInv, Progress
  <2>3. CASE conn[c].pc = "cut"  BY <1>1, <2>3 DEF RequestsInv, Leaves
  <2> QED  BY <2>1, <2>2, <2>3
<1>2. RequestsInv => CutMeansNotRun  BY <1>1 DEF CutMeansNotRun, Sudden
<1> QED  BY <1>2, RequestsInvAlways, PTL

-----------------------------------------------------------------------------
(* The command line's loops, as what they compute at each position from    *)
(* what they compute behind it.                                            *)
ScanAt(scan, args, i) ==
    IF i <= Len(args) /\ IsHelp(args[i]) THEN [scan[i + 1] EXCEPT !.help = TRUE]
    ELSE IF i <= Len(args) /\ IsVersion(args[i]) THEN [scan[i + 1] EXCEPT !.version = TRUE]
    ELSE IF i <= Len(args) /\ IsGlobal(args[i])
         THEN LET next == i + HoistGlobal(args, i) IN
              [scan[next] EXCEPT !.globals = SubSeq(args, i, next - 1) \o @]
    ELSE [globals |-> <<>>, help |-> FALSE, version |-> FALSE, rest |-> From(args, i)]

PartAt(part, args, bools, i) ==
    IF i > Len(args) THEN [flags |-> <<>>, words |-> <<>>]
    ELSE IF args[i] = End THEN [flags |-> <<>>, words |-> From(args, i + 1)]
    ELSE IF args[i].dashes = 2 /\ TakesNext(args, i, bools)
         THEN [part[i + 2] EXCEPT !.flags = SubSeq(args, i, i + 1) \o @]
    ELSE IF args[i].dashes > 0 THEN [part[i + 1] EXCEPT !.flags = Put(args[i], @)]
    ELSE [part[i + 1] EXCEPT !.words = Put(args[i], @)]

Done(error, words) == [error |-> error, set |-> <<>>, words |-> words]
Also(parsed, name, arg) == [parsed EXCEPT !.set = Put([name |-> name, arg |-> arg], @)]

ParseAt(parse, fs, args, i) ==
    IF i > Len(args) \/ args[i].dashes = 0 THEN Done(None, From(args, i))
    ELSE IF args[i] = End THEN Done(None, From(args, i + 1))
    ELSE IF args[i].name \in Help THEN Done("help", <<>>)
    ELSE IF args[i].name \notin DOMAIN fs THEN Done("usage", <<>>)
    ELSE IF args[i].value # None
         THEN IF Fits(args[i].value, fs[args[i].name])
              THEN Also(parse[i + 1], args[i].name, ValueOf(args[i].value, fs[args[i].name]))
              ELSE Done("usage", <<>>)
    ELSE IF fs[args[i].name] THEN Also(parse[i + 1], args[i].name, Word("true"))
    ELSE IF i = Len(args) THEN Done("usage", <<>>)
    ELSE Also(parse[i + 2], args[i].name, args[i + 1])

(* extractGlobals: the leading globals are scanned up to the first word. *)
LEMMA ScanDef ==
    ASSUME NEW args, Len(args) \in Nat
    PROVE  \E f : (\A i \in 1..(Len(args) + 2) : f[i] = ScanAt(f, args, i)) /\ ExtractGlobals(args) = f[1]
<1> DEFINE n == Len(args) + 2
           B(g, i) == ScanAt(g, args, i)
<1>n. n \in Nat /\ n >= 1  BY LenProperties
<1>1. \A g, h, i : i \in 1..n /\ (\A j \in (i + 1)..n : g[j] = h[j]) => B(g, i) = B(h, i)
  <2> SUFFICES ASSUME NEW g, NEW h, NEW i \in 1..n, \A j \in (i + 1)..n : g[j] = h[j]
               PROVE  ScanAt(g, args, i) = ScanAt(h, args, i)
    OBVIOUS
  <2> DEFINE next == i + HoistGlobal(args, i)
  <2>1. i <= Len(args) => g[i + 1] = h[i + 1] /\ g[next] = h[next]  BY DEF HoistGlobal
  <2> HIDE DEF next
  <2>2. CASE i > Len(args)  BY <1>n, <2>2 DEF ScanAt
  <2>3. CASE i <= Len(args)  BY <2>1, <2>3 DEF ScanAt, next
  <2> QED  BY <1>n, <2>2, <2>3
<1> DEFINE D == {k \in Nat : \E g : \A i \in 1..n : i + k > n => g[i] = B(g, i)}
<1> HIDE DEF n, B
<1>2. 0 \in D  BY <1>n
<1>3. ASSUME NEW k \in Nat, k \in D PROVE k + 1 \in D
  <2>1. PICK g : \A i \in 1..n : i + k > n => g[i] = B(g, i)  BY <1>3
  <2> DEFINE h == [i \in 1..n |-> IF i + k = n THEN B(g, i) ELSE g[i]]
  <2>2. ASSUME NEW i \in 1..n, i + (k + 1) > n PROVE h[i] = B(h, i)
    <3>1. \A j \in (i + 1)..n : h[j] = g[j]  BY <2>2, <1>n
    <3>2. B(h, i) = B(g, i)
      <4> HIDE DEF h
      <4> QED  BY <1>1, <3>1
    <3>3. h[i] = IF i + k = n THEN B(g, i) ELSE g[i]  OBVIOUS
    <3> HIDE DEF h
    <3> QED  BY <1>n, <2>1, <2>2, <3>2, <3>3
  <2> HIDE DEF h
  <2> QED  BY <2>2
<1>4. n \in D
  <2> HIDE DEF D
  <2> QED  BY <1>n, <1>2, <1>3, Induct
<1>5. PICK g : \A i \in 1..n : g[i] = B(g, i)
  <2>1. \A i \in 1..n : i + n > n  BY <1>n
  <2> QED  BY <1>4, <2>1
<1> DEFINE h == [i \in 1..n |-> g[i]]
<1>6. h = [i \in 1..n |-> B(h, i)]
  <2>1. ASSUME NEW i \in 1..n PROVE h[i] = B(h, i)
    <3>1. \A j \in (i + 1)..n : h[j] = g[j]  BY <1>n
    <3>2. h[i] = g[i]  OBVIOUS
    <3> HIDE DEF h
    <3> QED  BY <1>1, <1>5, <3>1, <3>2
  <2>2. h = [i \in 1..n |-> h[i]]  OBVIOUS
  <2> HIDE DEF h
  <2> QED  BY <2>1, <2>2
<1> DEFINE f == CHOOSE g_1 : g_1 = [i \in 1..n |-> B(g_1, i)]
<1>7. f = [i \in 1..n |-> B(f, i)]
  <2> HIDE DEF h
  <2> QED  BY <1>6
<1>8. \A i \in 1..n : f[i] = B(f, i)
  <2> HIDE DEF f
  <2> QED  BY <1>7
<1>9. ExtractGlobals(args) = f[1]  BY DEF n, B, ScanAt, ExtractGlobals
<1> HIDE DEF f
<1> QED  BY <1>8, <1>9 DEF n, B

(* reorderArgs. *)
LEMMA PartDef ==
    ASSUME NEW args, NEW bools, Len(args) \in Nat
    PROVE  \E f : (\A i \in 1..(Len(args) + 1) : f[i] = PartAt(f, args, bools, i)) /\ Partition(args, bools) = f[1]
<1> DEFINE n == Len(args) + 1
           B(g, i) == PartAt(g, args, bools, i)
<1>n. n \in Nat /\ n >= 1  BY LenProperties
<1>1. \A g, h, i : i \in 1..n /\ (\A j \in (i + 1)..n : g[j] = h[j]) => B(g, i) = B(h, i)
  <2> SUFFICES ASSUME NEW g, NEW h, NEW i \in 1..n, \A j \in (i + 1)..n : g[j] = h[j]
               PROVE  PartAt(g, args, bools, i) = PartAt(h, args, bools, i)
    OBVIOUS
  <2>1. i <= Len(args) => g[i + 1] = h[i + 1]  OBVIOUS
  <2>2. i <= Len(args) /\ TakesNext(args, i, bools) => g[i + 2] = h[i + 2]  BY <1>n DEF TakesNext
  <2>3. CASE i > Len(args)  BY <1>n, <2>3 DEF PartAt
  <2>4. CASE i <= Len(args) /\ TakesNext(args, i, bools)
    <3> HIDE DEF n
    <3> QED  BY <1>n, <2>1, <2>2, <2>4 DEF PartAt
  <2>5. CASE i <= Len(args) /\ ~TakesNext(args, i, bools)
    <3> HIDE DEF n
    <3> QED  BY <1>n, <2>1, <2>5 DEF PartAt
  <2> QED  BY <1>n, <2>3, <2>4, <2>5
<1> DEFINE D == {k \in Nat : \E g : \A i \in 1..n : i + k > n => g[i] = B(g, i)}
<1> HIDE DEF n, B
<1>2. 0 \in D  BY <1>n
<1>3. ASSUME NEW k \in Nat, k \in D PROVE k + 1 \in D
  <2>1. PICK g : \A i \in 1..n : i + k > n => g[i] = B(g, i)  BY <1>3
  <2> DEFINE h == [i \in 1..n |-> IF i + k = n THEN B(g, i) ELSE g[i]]
  <2>2. ASSUME NEW i \in 1..n, i + (k + 1) > n PROVE h[i] = B(h, i)
    <3>1. \A j \in (i + 1)..n : h[j] = g[j]  BY <2>2, <1>n
    <3>2. B(h, i) = B(g, i)
      <4> HIDE DEF h
      <4> QED  BY <1>1, <3>1
    <3>3. h[i] = IF i + k = n THEN B(g, i) ELSE g[i]  OBVIOUS
    <3> HIDE DEF h
    <3> QED  BY <1>n, <2>1, <2>2, <3>2, <3>3
  <2> HIDE DEF h
  <2> QED  BY <2>2
<1>4. n \in D
  <2> HIDE DEF D
  <2> QED  BY <1>n, <1>2, <1>3, Induct
<1>5. PICK g : \A i \in 1..n : g[i] = B(g, i)
  <2>1. \A i \in 1..n : i + n > n  BY <1>n
  <2> QED  BY <1>4, <2>1
<1> DEFINE h == [i \in 1..n |-> g[i]]
<1>6. h = [i \in 1..n |-> B(h, i)]
  <2>1. ASSUME NEW i \in 1..n PROVE h[i] = B(h, i)
    <3>1. \A j \in (i + 1)..n : h[j] = g[j]  BY <1>n
    <3>2. h[i] = g[i]  OBVIOUS
    <3> HIDE DEF h
    <3> QED  BY <1>1, <1>5, <3>1, <3>2
  <2>2. h = [i \in 1..n |-> h[i]]  OBVIOUS
  <2> HIDE DEF h
  <2> QED  BY <2>1, <2>2
<1> DEFINE f == CHOOSE g_1 : g_1 = [i \in 1..n |-> B(g_1, i)]
<1>7. f = [i \in 1..n |-> B(f, i)]
  <2> HIDE DEF h
  <2> QED  BY <1>6
<1>8. \A i \in 1..n : f[i] = B(f, i)
  <2> HIDE DEF f
  <2> QED  BY <1>7
<1>9. Partition(args, bools) = f[1]  BY DEF n, B, PartAt, Partition
<1> HIDE DEF f
<1> QED  BY <1>8, <1>9 DEF n, B

(* flag.FlagSet.Parse. *)
LEMMA ParseDef ==
    ASSUME NEW args, NEW fs, Len(args) \in Nat
    PROVE  \E f : (\A i \in 1..(Len(args) + 1) : f[i] = ParseAt(f, fs, args, i)) /\ FlagParse(fs, args) = f[1]
<1> DEFINE n == Len(args) + 1
           B(g, i) == ParseAt(g, fs, args, i)
<1>n. n \in Nat /\ n >= 1  BY LenProperties
<1>1. \A g, h, i : i \in 1..n /\ (\A j \in (i + 1)..n : g[j] = h[j]) => B(g, i) = B(h, i)
  BY DEF ParseAt
<1> DEFINE D == {k \in Nat : \E g : \A i \in 1..n : i + k > n => g[i] = B(g, i)}
<1> HIDE DEF n, B
<1>2. 0 \in D  BY <1>n
<1>3. ASSUME NEW k \in Nat, k \in D PROVE k + 1 \in D
  <2>1. PICK g : \A i \in 1..n : i + k > n => g[i] = B(g, i)  BY <1>3
  <2> DEFINE h == [i \in 1..n |-> IF i + k = n THEN B(g, i) ELSE g[i]]
  <2>2. ASSUME NEW i \in 1..n, i + (k + 1) > n PROVE h[i] = B(h, i)
    <3>1. \A j \in (i + 1)..n : h[j] = g[j]  BY <2>2, <1>n
    <3>2. B(h, i) = B(g, i)
      <4> HIDE DEF h
      <4> QED  BY <1>1, <3>1
    <3>3. h[i] = IF i + k = n THEN B(g, i) ELSE g[i]  OBVIOUS
    <3> HIDE DEF h
    <3> QED  BY <1>n, <2>1, <2>2, <3>2, <3>3
  <2> HIDE DEF h
  <2> QED  BY <2>2
<1>4. n \in D
  <2> HIDE DEF D
  <2> QED  BY <1>n, <1>2, <1>3, Induct
<1>5. PICK g : \A i \in 1..n : g[i] = B(g, i)
  <2>1. \A i \in 1..n : i + n > n  BY <1>n
  <2> QED  BY <1>4, <2>1
<1> DEFINE h == [i \in 1..n |-> g[i]]
<1>6. h = [i \in 1..n |-> B(h, i)]
  <2>1. ASSUME NEW i \in 1..n PROVE h[i] = B(h, i)
    <3>1. \A j \in (i + 1)..n : h[j] = g[j]  BY <1>n
    <3>2. h[i] = g[i]  OBVIOUS
    <3> HIDE DEF h
    <3> QED  BY <1>1, <1>5, <3>1, <3>2
  <2>2. h = [i \in 1..n |-> h[i]]  OBVIOUS
  <2> HIDE DEF h
  <2> QED  BY <2>1, <2>2
<1> DEFINE f == CHOOSE g_1 : g_1 = [i \in 1..n |-> B(g_1, i)]
<1>7. f = [i \in 1..n |-> B(f, i)]
  <2> HIDE DEF h
  <2> QED  BY <1>6
<1>8. \A i \in 1..n : f[i] = B(f, i)
  <2> HIDE DEF f
  <2> QED  BY <1>7
<1>9. FlagParse(fs, args) = f[1]  BY DEF n, B, ParseAt, Done, Also, FlagParse
<1> HIDE DEF f
<1> QED  BY <1>8, <1>9 DEF n, B

-----------------------------------------------------------------------------
(* What the loops keep: the pieces of a line are sequences of its          *)
(* arguments, and no line is answered like a deadline.                     *)
Refusal == {None, "help", "usage"}
Verdict == {"version", "invalid", "help", "usage", "call"}

LEMMA FromType ==
    ASSUME NEW S, NEW args \in Seq(S), NEW i \in 1..(Len(args) + 2)
    PROVE  From(args, i) \in Seq(S)
BY SubSeqProperties DEF From

LEMMA GlobalsType ==
    ASSUME NEW Arguments, NEW args \in Seq(Arguments)
    PROVE  LET line == ExtractGlobals(args) IN
           /\ line = [globals |-> line.globals, help |-> line.help, version |-> line.version, rest |-> line.rest]
           /\ line.globals \in Seq(Arguments) /\ line.rest \in Seq(Arguments)
<1> DEFINE n == Len(args) + 2
           OK(r) == /\ r = [globals |-> r.globals, help |-> r.help, version |-> r.version, rest |-> r.rest]
                    /\ r.globals \in Seq(Arguments) /\ r.rest \in Seq(Arguments)
<1>n. n \in Nat /\ n >= 2 /\ Len(args) \in Nat  BY LenProperties
<1>1. PICK f : (\A i \in 1..n : f[i] = ScanAt(f, args, i)) /\ ExtractGlobals(args) = f[1]
  BY <1>n, ScanDef
<1> DEFINE D == {k \in Nat : \A i \in 1..n : i + k > n => OK(f[i])}
<1>2. 0 \in D  OBVIOUS
<1>3. ASSUME NEW k \in Nat, k \in D PROVE k + 1 \in D
  <2> SUFFICES ASSUME NEW i \in 1..n, i + (k + 1) > n PROVE OK(f[i])  OBVIOUS
  <2>1. \A j \in (i + 1)..n : OK(f[j])  BY <1>3
  <2>2. f[i] = ScanAt(f, args, i)  BY <1>1
  <2> HIDE DEF D
  <2>3. CASE i <= Len(args) /\ (IsHelp(args[i]) \/ IsVersion(args[i]))
    <3>1. OK(f[i + 1])  BY <1>n, <2>1, <2>3
    <3>2. f[i] = [f[i + 1] EXCEPT !.help = TRUE] \/ f[i] = [f[i + 1] EXCEPT !.version = TRUE]
      BY <2>2, <2>3 DEF ScanAt
    <3> QED  BY <3>1, <3>2
  <2>4. CASE i <= Len(args) /\ ~IsHelp(args[i]) /\ ~IsVersion(args[i]) /\ IsGlobal(args[i])
    <3> DEFINE next == i + HoistGlobal(args, i)
    <3>0. next \in (i + 1)..n /\ next - 1 \in i..Len(args)  BY <1>n, <2>4 DEF HoistGlobal
    <3>1. OK(f[next])  BY <2>1, <3>0
    <3>2. f[i] = [f[next] EXCEPT !.globals = SubSeq(args, i, next - 1) \o @]
      BY <2>2, <2>4 DEF ScanAt
    <3>3. SubSeq(args, i, next - 1) \in Seq(Arguments)  BY <2>4, <3>0, SubSeqProperties
    <3> HIDE DEF next
    <3>4. SubSeq(args, i, next - 1) \o f[next].globals \in Seq(Arguments)
      BY <3>1, <3>3, ConcatProperties
    <3> QED  BY <3>1, <3>2, <3>4
  <2>5. CASE ~(i <= Len(args) /\ (IsHelp(args[i]) \/ IsVersion(args[i]) \/ IsGlobal(args[i])))
    <3>1. f[i] = [globals |-> <<>>, help |-> FALSE, version |-> FALSE, rest |-> From(args, i)]
      BY <2>2, <2>5 DEF ScanAt
    <3>2. From(args, i) \in Seq(Arguments) /\ <<>> \in Seq(Arguments)  BY FromType
    <3> QED  BY <3>1, <3>2
  <2> QED  BY <2>3, <2>4, <2>5
<1>4. n \in D
  <2> HIDE DEF D, n
  <2> QED  BY <1>n, <1>2, <1>3, Induct
<1>5. OK(f[1])  BY <1>n, <1>4
<1> QED  BY <1>1, <1>5

LEMMA PartitionType ==
    ASSUME NEW Arguments, NEW args \in Seq(Arguments), NEW bools
    PROVE  LET parts == Partition(args, bools) IN
           /\ parts = [flags |-> parts.flags, words |-> parts.words]
           /\ parts.flags \in Seq(Arguments) /\ parts.words \in Seq(Arguments)
<1> DEFINE n == Len(args) + 1
           OK(r) == /\ r = [flags |-> r.flags, words |-> r.words] /\ r.flags \in Seq(Arguments) /\ r.words \in Seq(Arguments)
<1>n. n \in Nat /\ n >= 1 /\ Len(args) \in Nat  BY LenProperties
<1>1. PICK f : (\A i \in 1..n : f[i] = PartAt(f, args, bools, i)) /\ Partition(args, bools) = f[1]
  BY <1>n, PartDef
<1>e. \A i \in 1..Len(args) : args[i] \in Arguments  BY ElementOfSeq
<1>p. \A a \in Arguments, s \in Seq(Arguments) : Put(a, s) \in Seq(Arguments)
  BY ConcatProperties DEF Put
<1> DEFINE D == {k \in Nat : \A i \in 1..n : i + k > n => OK(f[i])}
<1>2. 0 \in D  OBVIOUS
<1>3. ASSUME NEW k \in Nat, k \in D PROVE k + 1 \in D
  <2> SUFFICES ASSUME NEW i \in 1..n, i + (k + 1) > n PROVE OK(f[i])  OBVIOUS
  <2>1. \A j \in (i + 1)..n : OK(f[j])  BY <1>3
  <2>2. f[i] = PartAt(f, args, bools, i)  BY <1>1
  <2> HIDE DEF D
  <2>3. CASE i > Len(args)  BY <2>2, <2>3 DEF PartAt
  <2>4. CASE i <= Len(args) /\ args[i] = End
    <3>1. From(args, i + 1) \in Seq(Arguments)  BY <1>n, <2>4, FromType
    <3> QED  BY <1>n, <2>2, <2>4, <3>1 DEF PartAt
  <2>5. CASE i <= Len(args) /\ args[i] # End /\ args[i].dashes = 2 /\ TakesNext(args, i, bools)
    <3>1. i + 2 \in (i + 1)..n  BY <1>n, <2>5 DEF TakesNext
    <3>2. OK(f[i + 2])  BY <2>1, <3>1
    <3>3. f[i] = [f[i + 2] EXCEPT !.flags = SubSeq(args, i, i + 1) \o @]
      BY <1>n, <2>2, <2>5 DEF PartAt
    <3>4. SubSeq(args, i, i + 1) \in Seq(Arguments)  BY <1>n, <2>5, <3>1, SubSeqProperties
    <3>5. SubSeq(args, i, i + 1) \o f[i + 2].flags \in Seq(Arguments)
      BY <3>2, <3>4, ConcatProperties
    <3> QED  BY <3>2, <3>3, <3>5
  <2>6. CASE i <= Len(args) /\ args[i] # End /\ ~(args[i].dashes = 2 /\ TakesNext(args, i, bools))
    <3>1. OK(f[i + 1]) /\ args[i] \in Arguments  BY <1>n, <1>e, <2>1, <2>6
    <3>2. \/ f[i] = [f[i + 1] EXCEPT !.flags = Put(args[i], @)]
          \/ f[i] = [f[i + 1] EXCEPT !.words = Put(args[i], @)]
      BY <1>n, <2>2, <2>6 DEF PartAt
    <3>3. Put(args[i], f[i + 1].flags) \in Seq(Arguments) /\ Put(args[i], f[i + 1].words) \in Seq(Arguments)
      BY <1>p, <3>1
    <3> QED  BY <3>1, <3>2, <3>3
  <2> QED  BY <1>n, <2>3, <2>4, <2>5, <2>6
<1>4. n \in D
  <2> HIDE DEF D, n
  <2> QED  BY <1>n, <1>2, <1>3, Induct
<1>5. OK(f[1])  BY <1>n, <1>4
<1> QED  BY <1>1, <1>5

LEMMA ReorderType ==
    ASSUME NEW Arguments, NEW args \in Seq(Arguments), NEW bools, End \in Arguments
    PROVE  ReorderArgs(args, bools) \in Seq(Arguments)
<1>p. PICK parts : parts = Partition(args, bools)  OBVIOUS
<1>1. parts.flags \in Seq(Arguments) /\ parts.words \in Seq(Arguments)  BY <1>p, PartitionType
<1>2. <<End>> \in Seq(Arguments)  OBVIOUS
<1>3. parts.flags \o <<End>> \in Seq(Arguments)  BY <1>1, <1>2, ConcatProperties
<1> QED  BY <1>p, <1>1, <1>3, ConcatProperties DEF ReorderArgs, Separate

LEMMA ParseRefuses ==
    ASSUME NEW fs, NEW Arguments, NEW args \in Seq(Arguments)
    PROVE  FlagParse(fs, args).error \in Refusal
<1> DEFINE n == Len(args) + 1
           OK(r) == "error" \in DOMAIN r /\ r.error \in Refusal
<1>n. n \in Nat /\ n >= 1 /\ Len(args) \in Nat  BY LenProperties
<1>1. PICK f : (\A i \in 1..n : f[i] = ParseAt(f, fs, args, i)) /\ FlagParse(fs, args) = f[1]
  BY <1>n, ParseDef
<1> DEFINE D == {k \in Nat : \A i \in 1..n : i + k > n => OK(f[i])}
<1>2. 0 \in D  OBVIOUS
<1>3. ASSUME NEW k \in Nat, k \in D PROVE k + 1 \in D
  <2> SUFFICES ASSUME NEW i \in 1..n, i + (k + 1) > n PROVE OK(f[i])  OBVIOUS
  <2>1. f[i] = ParseAt(f, fs, args, i)  BY <1>1
  <2>2. \A j \in (i + 1)..n : OK(f[j])  BY <1>3
  <2> HIDE DEF D
  <2>3. ASSUME NEW r, NEW name, NEW arg, OK(r) PROVE OK(Also(r, name, arg))
    BY <2>3 DEF Also
  <2>4. ASSUME NEW error \in Refusal, NEW words PROVE OK(Done(error, words))
    BY <2>4 DEF Done
  <2>5. {None, "help", "usage"} \subseteq Refusal  BY DEF Refusal
  <2>6. i <= Len(args) => OK(f[i + 1])  BY <1>n, <2>2
  <2>7. i < Len(args) => OK(f[i + 2])  BY <1>n, <2>2
  <2> HIDE DEF OK
  <2>8. CASE i > Len(args)  BY <2>1, <2>4, <2>5, <2>8 DEF ParseAt
  <2>9. CASE i <= Len(args)
    <3> DEFINE a == args[i]
    <3>1. \/ \E error \in {None, "help", "usage"} : \E words : f[i] = Done(error, words)
          \/ \E name, arg : f[i] = Also(f[i + 1], name, arg)
          \/ i < Len(args) /\ f[i] = Also(f[i + 2], a.name, args[i + 1])
      <4>1. CASE a.dashes = 0 \/ a = End \/ a.name \in Help \/ a.name \notin DOMAIN fs
        BY <1>n, <2>1, <2>9, <4>1 DEF ParseAt
      <4>2. CASE ~(a.dashes = 0 \/ a = End \/ a.name \in Help \/ a.name \notin DOMAIN fs)
        BY <1>n, <2>1, <2>9, <4>2 DEF ParseAt
      <4> QED  BY <4>1, <4>2
    <3> QED  BY <2>3, <2>4, <2>5, <2>6, <2>7, <2>9, <3>1
  <2> QED  BY <1>n, <2>8, <2>9
<1>4. n \in D
  <2> HIDE DEF D, n
  <2> QED  BY <1>n, <1>2, <1>3, Induct
<1> QED  BY <1>n, <1>1, <1>4

LEMMA RunVerdict ==
    ASSUME NEW Arguments, NEW args \in Seq(Arguments)
    PROVE  Run(args).verdict \in Verdict
<1> DEFINE line == ExtractGlobals(args)
           sub == line.rest[1].name
           own == line.globals \o Tail(line.rest)
           All == Arguments \cup {End}
<1>1. CASE line.version \/ line.help \/ line.rest = <<>>  BY <1>1 DEF Run, Refuse, Verdict
<1>2. CASE ~line.version /\ ~line.help /\ line.rest # <<>>
  <2>1. line.globals \in Seq(Arguments) /\ line.rest \in Seq(Arguments)  BY GlobalsType
  <2>2. own \in Seq(Arguments)
    <3>1. Tail(line.rest) \in Seq(Arguments)  BY <1>2, <2>1, HeadTailProperties
    <3> HIDE DEF line
    <3> QED  BY <2>1, <3>1, ConcatProperties
  <2>3. \/ line.rest[1] \in {Word("help"), Word("version")} /\ Run(args) = Refuse(sub)
        \/ Run(args) = Refuse("usage")
        \/ Run(args) = Submit(sub, own)
    BY <1>2 DEF Run
  <2>4. line.rest[1] \in {Word("help"), Word("version")} => sub \in {"help", "version"}  BY DEF Word
  <2>5. Submit(sub, own).verdict \in Verdict
    <3>0. own \in Seq(All) /\ End \in All  BY <2>2
    <3> HIDE DEF own, sub, All
    <3> DEFINE bools == Help \cup (IF sub = "text" THEN {"enter"} ELSE {})
               fs == [f \in OwnFlags(sub) \cup Global |-> f \in bools]
               all == IF sub = "list" THEN own ELSE ReorderArgs(own, bools)
               parsed == FlagParse(fs, all)
    <3>1. all \in Seq(All)  BY <3>0, ReorderType
    <3>2. parsed.error \in Refusal
      <4> HIDE DEF fs, all
      <4> QED  BY <3>1, ParseRefuses
    <3>3. \/ parsed.error # None /\ Submit(sub, own).verdict = parsed.error
          \/ Submit(sub, own).verdict \in {"invalid", "call"}
      <4> HIDE DEF Server, Option
      <4> QED  BY DEF Submit, Refuse
    <3> HIDE DEF parsed
    <3> QED  BY <3>2, <3>3 DEF Refusal, Verdict
  <2> HIDE DEF sub, own, line
  <2> QED  BY <2>3, <2>4, <2>5 DEF Refuse, Verdict
<1> QED  BY <1>1, <1>2

-----------------------------------------------------------------------------
(* Time.  On a prompt machine the clock stands still while anybody can do  *)
(* something, so a deadline is as far away as when it was set, up to the   *)
(* moment at which a wait waits; and of the two timers of a wait the       *)
(* daemon's is the shorter.                                                *)
InTime(this, other) ==
    /\ this.result # "deadline"
    /\ this.pc \in {"write", "await"} =>
          /\ now < this.deadline /\ other.pc # "none"
          /\ other.pc \in {"backlog", "reading"} => this.deadline = Deadline(this.req.op)
          /\ other.pc = "waiting" => now <= other.until /\ other.until < this.deadline

StopInTime == daemon.end # "hard"
              /\ (daemon.asked /\ daemon.pc # "gone" => now < daemon.exitAt)

(* Nobody talks to a process that is gone. *)
GoneIsEmpty == daemon.pc = "gone" => \A c \in Client : conn[c].pc \notin {"backlog"} \cup InService

TimeInv == /\ GoneIsEmpty
           /\ Prompt => (\A c \in Client : InTime(cli[c], conn[c])) /\ StopInTime

LEMMA TimeInvInit == RequestsInit => TimeInv
BY SMT DEF RequestsInit, TimeInv, GoneIsEmpty, InTime, StopInTime, IdleConn

(* A step of one invocation or of its handler. *)
LEMMA TimeChange ==
    ASSUME TimeInv, NEW c \in Client, UNCHANGED <<world, daemon, now>>,
           \A d \in Client : d # c => cli'[d] = cli[d] /\ conn'[d] = conn[d],
           daemon.pc = "gone" => conn'[c].pc \notin {"backlog"} \cup InService,
           Prompt => InTime(cli'[c], conn'[c])
    PROVE  TimeInv'
<1>1. GoneIsEmpty'  BY DEF TimeInv, GoneIsEmpty
<1>2. ASSUME Prompt', NEW d \in Client PROVE InTime(cli[d], conn[d])'
  <2>1. Prompt  BY <1>2 DEF Prompt
  <2>2. InTime(cli'[d], conn'[d])  BY <2>1 DEF TimeInv
  <2> QED  BY <2>2 DEF InTime, Deadline
<1>3. ASSUME Prompt' PROVE StopInTime'  BY <1>3 DEF Prompt, TimeInv, StopInTime
<1> QED  BY <1>1, <1>2, <1>3 DEF TimeInv

LEMMA TimeHandler ==
    ASSUME RequestsInv, TimeInv, NEW c \in Client,
           Accept(c) \/ ReadRequest(c) \/ Query(c) \/ Type(c) \/ TypeFails(c) \/ Acknowledge(c)
           \/ WaitAnswers(c) \/ WaitExpires(c)
    PROVE  TimeInv'
<1>0. /\ conn \in [Client -> ConnType] /\ now \in Nat
      /\ UNCHANGED <<world, cli, daemon, now>>
      /\ conn[c].pc \in {"backlog"} \cup InService
  BY DEF RequestsInv, Shapes, Accept, ReadRequest, Query, Type, TypeFails, Acknowledge, WaitAnswers,
         WaitExpires, ConnAt, InService
<1>1. daemon.pc # "gone"  BY <1>0 DEF TimeInv, GoneIsEmpty
<1>2. Prompt => InTime(cli[c], conn[c])  BY DEF TimeInv
<1>3. ASSUME NEW pc \in {"answered", "cut", "typing", "typed"}, conn'[c].pc = pc,
             \A d \in Client : d # c => conn'[d] = conn[d]
      PROVE  TimeInv'
  <2>1. Prompt => InTime(cli'[c], conn'[c])  BY <1>0, <1>2, <1>3 DEF InTime
  <2> QED  BY <1>0, <1>1, <1>3, <2>1, TimeChange
<1>4. ASSUME NEW code, Respond(c, code) PROVE TimeInv'
  <2>1. conn'[c].pc = "answered" /\ \A d \in Client : d # c => conn'[d] = conn[d]
    BY <1>0, <1>4, SMT DEF Respond, IdleConn
  <2> QED  BY <1>3, <2>1
<1>5. ASSUME NEW pc, Handle(c, pc)
      PROVE  conn'[c].pc = pc /\ \A d \in Client : d # c => conn'[d] = conn[d]
  BY <1>0, <1>5, SMT DEF Handle, ConnType
<1>6. CASE Accept(c)
  <2>1. conn[c].pc = "backlog" /\ conn'[c].pc = "reading" /\ \A d \in Client : d # c => conn'[d] = conn[d]
    BY <1>5, <1>6 DEF Accept, ConnAt
  <2>2. Prompt => InTime(cli'[c], conn'[c])  BY <1>0, <1>2, <2>1 DEF InTime
  <2> QED  BY <1>0, <1>1, <2>1, <2>2, TimeChange
<1>7. CASE ReadRequest(c)
  <2>1. CASE Dispatch(c, cli[c].req)
    <3> DEFINE op == cli[c].req.op
               at == CASE op = "wait" -> "waiting"
                       [] op \in {"text", "key"} -> "typing"
                       [] OTHER -> "query"
               until == IF op = "wait" THEN now + WaitTimeout ELSE 0
               all == Commands(cli[c].req)
               mid == [conn EXCEPT ![c].pc = at]
               midd == [mid EXCEPT ![c].keys = all]
    <3>1. conn' = [conn EXCEPT ![c].pc = at, ![c].keys = all, ![c].until = until]
      BY <2>1, Zenon DEF Dispatch
    <3>2. at \in {"waiting", "typing", "query"} /\ (at = "waiting" => op = "wait")  BY SMT
    <3> HIDE DEF at, until, all
    <3>3. conn' = [midd EXCEPT ![c].until = until]  BY <1>0, <3>1, SMT DEF ConnType
    <3>4. /\ DOMAIN mid = Client /\ DOMAIN mid[c] = DOMAIN conn[c] /\ mid[c].pc = at
          /\ \A d \in Client : d # c => mid[d] = conn[d]
      BY <1>0, SMT DEF ConnType
    <3> HIDE DEF mid
    <3>5. /\ DOMAIN midd = Client /\ DOMAIN midd[c] = DOMAIN conn[c] /\ midd[c].pc = at
          /\ \A d \in Client : d # c => midd[d] = conn[d]
      BY <3>4, SMT
    <3> HIDE DEF midd
    <3>6. "until" \in DOMAIN conn[c]  BY <1>0, SMT DEF ConnType
    <3>7. conn'[c].pc = at /\ conn'[c].until = until /\ \A d \in Client : d # c => conn'[d] = conn[d]
      BY <3>3, <3>5, <3>6, SMT
    <3>8. conn[c].pc = "reading"  BY <1>7 DEF ReadRequest, ConnAt
    <3>9. Prompt => InTime(cli'[c], conn'[c])
      <4>1. op = "wait" => until = now + WaitTimeout /\ Deadline(op) = now + (WaitTimeout + Grace)
        BY DEF until, Deadline
      <4>2. now <= now + WaitTimeout /\ now + WaitTimeout < now + (WaitTimeout + Grace)
        BY <1>0, RequestsAssumption
      <4> QED  BY <1>0, <1>2, <3>2, <3>7, <3>8, <4>1, <4>2 DEF InTime
    <3> QED  BY <1>0, <1>1, <3>7, <3>9, TimeChange
  <2>2. CASE Handle(c, "cut")  BY <1>3, <1>5, <2>2
  <2> QED  BY <1>7, <2>1, <2>2 DEF ReadRequest
<1>8. CASE Query(c)  BY <1>4, <1>8 DEF Query
<1>9. CASE Type(c)  BY <1>3, <1>5, <1>9 DEF Type
<1>10. CASE TypeFails(c)  BY <1>4, <1>10 DEF TypeFails, Fails
<1>11. CASE Acknowledge(c)
  <2>1. CASE Respond(c, "OK")  BY <1>4, <2>1
  <2>2. CASE conn' = [conn EXCEPT ![c].pc = "typing", ![c].keys = Tail(@)]
    <3> DEFINE mid == [conn EXCEPT ![c].pc = "typing"]
               left == Tail(conn[c].keys)
    <3>1. conn' = [mid EXCEPT ![c].keys = left]  BY <1>0, <2>2, SMT DEF ConnType
    <3>2. DOMAIN mid = Client /\ mid[c].pc = "typing" /\ \A d \in Client : d # c => mid[d] = conn[d]
      BY <1>0, SMT DEF ConnType
    <3> HIDE DEF mid, left
    <3>3. conn'[c].pc = "typing" /\ \A d \in Client : d # c => conn'[d] = conn[d]
      BY <3>1, <3>2, SMT
    <3> QED  BY <1>3, <3>3
  <2> QED  BY <1>11, <2>1, <2>2 DEF Acknowledge
<1>12. CASE WaitAnswers(c)  BY <1>4, <1>12 DEF WaitAnswers
<1>13. CASE WaitExpires(c)  BY <1>4, <1>13 DEF WaitExpires
<1> QED  BY <1>6, <1>7, <1>8, <1>9, <1>10, <1>11, <1>12, <1>13

LEMMA TimeFinish ==
    ASSUME RequestsInv, TimeInv, NEW c \in Client, NEW result, Finish(c, result),
           Prompt => result # "deadline", UNCHANGED <<world, conn, daemon, now>>
    PROVE  TimeInv'
<1>0. cli \in [Client -> CliType]  BY DEF RequestsInv, Shapes
<1> DEFINE mid == [cli EXCEPT ![c].pc = "done"]
           midd == [mid EXCEPT ![c].result = result]
<1>1. cli' = [midd EXCEPT ![c].deadline = 0]  BY <1>0, SMT DEF Finish, CliType
<1>2. /\ DOMAIN mid = Client /\ mid[c].pc = "done" /\ DOMAIN mid[c] = DOMAIN cli[c]
      /\ \A d \in Client : d # c => mid[d] = cli[d]
  BY <1>0, SMT DEF CliType
<1>3. "result" \in DOMAIN cli[c]  BY <1>0, SMT DEF CliType
<1> HIDE DEF mid
<1>4. /\ DOMAIN midd = Client /\ midd[c].pc = "done" /\ midd[c].result = result
      /\ \A d \in Client : d # c => midd[d] = cli[d]
  BY <1>2, <1>3, SMT
<1> HIDE DEF midd
<1>5. /\ cli'[c].pc = "done" /\ cli'[c].result = result
      /\ \A d \in Client : d # c => cli'[d] = cli[d]
  BY <1>1, <1>4, SMT
<1>6. Prompt => InTime(cli'[c], conn'[c])  BY <1>5 DEF InTime
<1>7. daemon.pc = "gone" => conn'[c].pc \notin {"backlog"} \cup InService
  BY DEF TimeInv, GoneIsEmpty
<1> QED  BY <1>5, <1>6, <1>7, TimeChange

LEMMA TimeInvocation ==
    ASSUME RequestsInv, TimeInv, NEW c \in Client,
           Invoke(c) \/ Freeze(c) \/ Dial(c) \/ WriteRequest(c) \/ Receive(c) \/ GiveUp(c)
    PROVE  TimeInv'
<1>0. /\ cli \in [Client -> CliType] /\ conn \in [Client -> ConnType] /\ world \in World /\ now \in Nat
      /\ UNCHANGED <<world, daemon, now>>
  BY DEF RequestsInv, Shapes, Invoke, Freeze, Dial, WriteRequest, Receive, GiveUp, Finish
<1>1. GoneIsEmpty /\ (Prompt => InTime(cli[c], conn[c]))  BY DEF TimeInv
<1>2. daemon.pc = "gone" => conn[c].pc \notin {"backlog"} \cup InService  BY <1>1 DEF GoneIsEmpty
<1>3. CASE Invoke(c)
  <2>1. PICK line \in LinesIn(world, c) :
           LET req == Run(Words(line)) IN
           cli' = [cli EXCEPT ![c].line = line,
                              ![c].pc = IF req.verdict = "call" THEN "dial" ELSE "done",
                              ![c].req = req,
                              ![c].result = IF req.verdict = "call" THEN "none" ELSE req.verdict]
    BY <1>3 DEF Invoke
  <2> DEFINE req == Run(Words(line))
             at == IF req.verdict = "call" THEN "dial" ELSE "done"
             result == IF req.verdict = "call" THEN "none" ELSE req.verdict
             a == [cli EXCEPT ![c].line = line]
             b == [a EXCEPT ![c].pc = at]
             e == [b EXCEPT ![c].req = req]
             All == Argument
  <2>2. result # "deadline"
    <3>1. line \in Seq(Seq(All))  BY <1>0, RequestsAssumption
    <3> HIDE DEF All
    <3>2. Words(line) \in Seq(All)  BY <3>1, FlattenType DEF Words
    <3>3. req.verdict \in Verdict
      <4> HIDE DEF Words
      <4> QED  BY <3>2, RunVerdict
    <3> HIDE DEF req
    <3> QED  BY <3>3 DEF Verdict
  <2>3. at \in {"dial", "done"}  OBVIOUS
  <2>4. cli' = [cli EXCEPT ![c].line = line, ![c].pc = at, ![c].req = req, ![c].result = result]
    BY <2>1, Zenon
  <2> HIDE DEF req, at, result, All
  <2>5. cli' = [e EXCEPT ![c].result = result]  BY <1>0, <2>4, SMT DEF CliType
  <2>6. /\ DOMAIN a = Client /\ DOMAIN a[c] = DOMAIN cli[c] /\ \A d \in Client : d # c => a[d] = cli[d]
    BY <1>0, SMT
  <2> HIDE DEF a
  <2>7. {"pc", "result"} \subseteq DOMAIN cli[c]  BY <1>0, SMT DEF CliType
  <2>8. /\ DOMAIN b = Client /\ DOMAIN b[c] = DOMAIN cli[c] /\ b[c].pc = at
        /\ \A d \in Client : d # c => b[d] = cli[d]
    BY <2>6, <2>7, SMT
  <2> HIDE DEF b
  <2>9. /\ DOMAIN e = Client /\ DOMAIN e[c] = DOMAIN cli[c] /\ e[c].pc = at
        /\ \A d \in Client : d # c => e[d] = cli[d]
    BY <2>7, <2>8, SMT
  <2> HIDE DEF e
  <2>10. cli'[c].pc = at /\ cli'[c].result = result /\ \A d \in Client : d # c => cli'[d] = cli[d]
    BY <2>5, <2>7, <2>9, SMT
  <2>11. conn' = conn  BY <1>3 DEF Invoke
  <2>12. Prompt => InTime(cli'[c], conn'[c])  BY <2>2, <2>3, <2>10, <2>11 DEF InTime
  <2> QED  BY <1>0, <1>2, <2>10, <2>11, <2>12, TimeChange, SMTT(40)
<1>4. CASE Freeze(c)
  <2>1. conn' = conn /\ ~Prompt /\ \A d \in Client : d # c => cli'[d] = cli[d]
    BY <1>0, <1>4 DEF Freeze
  <2> QED  BY <1>0, <1>2, <2>1, TimeChange
<1>5. CASE Dial(c)
  <2>1. CASE Listening
    <3> DEFINE due == Deadline(cli[c].req.op)
               mid == [cli EXCEPT ![c].pc = "write"]
               midd == [mid EXCEPT ![c].line = <<>>]
    <3>1. now < due  BY <1>0, RequestsAssumption DEF Deadline
    <3>2. /\ cli' = [cli EXCEPT ![c].pc = "write", ![c].line = <<>>, ![c].deadline = due]
          /\ conn' = [conn EXCEPT ![c].pc = "backlog"]
      BY <1>5, <2>1, Zenon DEF Dial
    <3>d. due = Deadline(cli[c].req.op)  OBVIOUS
    <3> HIDE DEF due
    <3>3. cli' = [midd EXCEPT ![c].deadline = due]  BY <1>0, <3>2, SMT DEF CliType
    <3>4. /\ DOMAIN mid = Client /\ mid[c].pc = "write" /\ mid[c].req = cli[c].req
          /\ mid[c].result = cli[c].result /\ DOMAIN mid[c] = DOMAIN cli[c]
          /\ \A d \in Client : d # c => mid[d] = cli[d]
      BY <1>0, SMT DEF CliType
    <3> HIDE DEF mid
    <3>5. /\ DOMAIN midd = Client /\ midd[c].pc = "write" /\ midd[c].req = cli[c].req
          /\ midd[c].result = cli[c].result /\ DOMAIN midd[c] = DOMAIN cli[c]
          /\ \A d \in Client : d # c => midd[d] = cli[d]
      BY <3>4, SMT
    <3> HIDE DEF midd
    <3>6. "deadline" \in DOMAIN cli[c]  BY <1>0, SMT DEF CliType
    <3>7. /\ cli'[c].pc = "write" /\ cli'[c].req = cli[c].req /\ cli'[c].deadline = due
          /\ cli'[c].result = cli[c].result /\ \A d \in Client : d # c => cli'[d] = cli[d]
      BY <3>3, <3>5, <3>6, SMT
    <3>8. conn'[c].pc = "backlog" /\ \A d \in Client : d # c => conn'[d] = conn[d]
      BY <1>0, <3>2, SMT DEF ConnType
    <3>9. daemon.pc # "gone"  BY <2>1 DEF Listening, RequestsInv, Leaves, Phase
    <3>10. Prompt => InTime(cli'[c], conn'[c])  BY <1>1, <3>1, <3>d, <3>7, <3>8 DEF InTime
    <3> QED  BY <1>0, <3>7, <3>8, <3>9, <3>10, TimeChange
  <2>2. CASE ~Listening
    <3>1. Finish(c, "runtime") /\ UNCHANGED conn  BY <1>5, <2>2, Zenon DEF Dial
    <3> QED  BY <1>0, <3>1, TimeFinish
  <2> QED  BY <2>1, <2>2
<1>6. CASE WriteRequest(c)
  <2>1. /\ cli[c].pc = "write" /\ cli'[c].pc = "await" /\ cli'[c].req = cli[c].req
        /\ cli'[c].result = cli[c].result /\ cli'[c].deadline = cli[c].deadline
        /\ \A d \in Client : d # c => cli'[d] = cli[d]
    BY <1>0, <1>6, SMT DEF WriteRequest, CliAt, CliType
  <2>2. /\ conn'[c].pc = conn[c].pc /\ conn'[c].until = conn[c].until
        /\ \A d \in Client : d # c => conn'[d] = conn[d]
    <3> DEFINE written == TRUE
    <3>1. conn' = [conn EXCEPT ![c].sent = written]  BY <1>6 DEF WriteRequest
    <3> HIDE DEF written
    <3> QED  BY <1>0, <3>1, SMT
  <2>3. Prompt => InTime(cli'[c], conn'[c])  BY <1>1, <2>1, <2>2 DEF InTime
  <2> QED  BY <1>0, <1>2, <2>1, <2>2, <2>3, TimeChange
<1>7. CASE Receive(c)
  <2>1. UNCHANGED <<world, conn, daemon, now>>  BY <1>7 DEF Receive
  <2>2. conn[c].code \in Code  BY <1>0, SMT DEF ConnType
  <2>3. conn[c].code # "deadline"  BY <2>2 DEF Code
  <2> QED  BY <1>7, <2>1, <2>3, TimeFinish DEF Receive
<1>8. CASE GiveUp(c)
  <2>1. cli[c].pc \in {"write", "await"} /\ now >= cli[c].deadline /\ cli[c].deadline \in Nat
    BY <1>0, <1>8, SMT DEF GiveUp, CliType
  <2>2. ~Prompt  BY <1>0, <1>1, <2>1 DEF InTime
  <2> QED  BY <1>8, <2>2, TimeFinish DEF GiveUp
<1> QED  BY <1>3, <1>4, <1>5, <1>6, <1>7, <1>8, SMTT(40)

(* The main goroutine: a stop on a prompt machine needs no hard exit. *)
LEMMA TimeMain ==
    ASSUME RequestsInv, TimeInv, RequestStop \/ DaemonStep \/ AcceptFails \/ Exit \/ Kill
    PROVE  TimeInv'
<1>0. /\ conn \in [Client -> ConnType] /\ daemon \in DaemonType /\ now \in Nat
      /\ UNCHANGED <<world, cli, now>> /\ Phase(daemon)
  BY DEF RequestsInv, Shapes, Leaves, RequestStop, DaemonStep, CloseListener, ServeReturns, AcceptFails,
         HardExit, Exit, Kill, Ends
<1>1. ASSUME NEW pcs, conn' = CutOff(pcs)
      PROVE  /\ \A c \in Client : conn'[c].pc = "cut" \/ conn'[c] = conn[c]
             /\ \A c \in Client : conn[c].pc \in pcs => conn'[c].pc = "cut"
  BY <1>1, SMT DEF CutOff, IdleConn
<1>2. ASSUME \A c \in Client : conn'[c].pc = "cut" \/ conn'[c] = conn[c], Prompt', NEW c \in Client
      PROVE  InTime(cli[c], conn[c])'
  <2>1. Prompt /\ InTime(cli[c], conn[c])  BY <1>0, <1>2 DEF Prompt, TimeInv
  <2>2. CASE conn'[c] = conn[c]  BY <1>0, <2>1, <2>2 DEF InTime, Deadline
  <2>3. CASE conn'[c].pc = "cut"  BY <1>0, <2>1, <2>3 DEF InTime, Deadline
  <2> QED  BY <1>2, <2>2, <2>3
<1>3. Prompt => StopInTime  BY DEF TimeInv
<1>4. CASE RequestStop
  <2> DEFINE due == now + HardExitTime
             mid == [daemon EXCEPT !.asked = TRUE]
  <2>1. now < due  BY <1>0, RequestsAssumption
  <2>2. /\ daemon' = [daemon EXCEPT !.asked = TRUE, !.exitAt = due] /\ conn' = conn
        /\ daemon.pc # "gone"
    BY <1>4 DEF RequestStop
  <2> HIDE DEF due
  <2>3. daemon' = [mid EXCEPT !.exitAt = due]  BY <1>0, <2>2, SMT DEF DaemonType
  <2>4. mid.pc = daemon.pc /\ mid.end = daemon.end /\ "exitAt" \in DOMAIN mid
    BY <1>0, SMT DEF DaemonType
  <2> HIDE DEF mid
  <2>5. daemon'.pc = daemon.pc /\ daemon'.end = daemon.end /\ daemon'.exitAt = due
    BY <2>3, <2>4, SMT
  <2>6. Prompt' => StopInTime'  BY <1>0, <1>3, <2>1, <2>5 DEF StopInTime, Prompt
  <2>7. GoneIsEmpty'  BY <2>2, <2>5 DEF GoneIsEmpty
  <2> QED  BY <1>2, <2>2, <2>6, <2>7 DEF TimeInv
<1>5. CASE CloseListener \/ ServeReturns \/ AcceptFails
  <2>1. /\ daemon.pc # "gone" /\ daemon'.pc # "gone"
        /\ daemon'.exitAt = daemon.exitAt /\ daemon'.end = daemon.end /\ daemon'.asked = daemon.asked
    <3>1. CASE CloseListener
      <4> DEFINE at == IF daemon.pc = "serving" THEN "draining" ELSE daemon.pc
                 mid == [daemon EXCEPT !.open = FALSE]
      <4>1. daemon.pc # "gone"  BY <1>0, <3>1 DEF CloseListener, Phase
      <4>2. at # "gone"  BY <4>1
      <4>3. daemon' = [daemon EXCEPT !.open = FALSE, !.pc = at]  BY <3>1 DEF CloseListener
      <4> HIDE DEF at
      <4>4. daemon' = [mid EXCEPT !.pc = at]  BY <1>0, <4>3, SMT DEF DaemonType
      <4>5. /\ "pc" \in DOMAIN mid /\ mid.exitAt = daemon.exitAt /\ mid.end = daemon.end
            /\ mid.asked = daemon.asked
        BY <1>0, SMT DEF DaemonType
      <4> HIDE DEF mid
      <4> QED  BY <4>1, <4>2, <4>4, <4>5, SMT
    <3>2. CASE ServeReturns \/ AcceptFails
      BY <1>0, <3>2, SMT DEF ServeReturns, AcceptFails, DaemonType
    <3> QED  BY <1>5, <3>1, <3>2
  <2>2. \A c \in Client : conn'[c].pc = "cut" \/ conn'[c] = conn[c]
    BY <1>1, <1>5 DEF CloseListener, ServeReturns, AcceptFails
  <2>3. Prompt' => StopInTime'  BY <1>0, <1>3, <2>1 DEF StopInTime, Prompt
  <2>4. GoneIsEmpty'  BY <2>1 DEF GoneIsEmpty
  <2> QED  BY <1>2, <2>2, <2>3, <2>4 DEF TimeInv
<1>6. ASSUME NEW how, Ends(how), Prompt => how # "hard" PROVE TimeInv'
  <2> DEFINE mid == [daemon EXCEPT !.pc = "gone"]
             midd == [mid EXCEPT !.open = FALSE]
  <2>1. daemon' = [midd EXCEPT !.end = how]  BY <1>0, <1>6, SMT DEF Ends, DaemonType
  <2>2. mid.pc = "gone" /\ {"open", "end"} \subseteq DOMAIN mid  BY <1>0, SMT DEF DaemonType
  <2> HIDE DEF mid
  <2>3. midd.pc = "gone" /\ "end" \in DOMAIN midd  BY <2>2, SMT
  <2> HIDE DEF midd
  <2>e. daemon'.pc = "gone" /\ daemon'.end = how  BY <2>1, <2>3, SMT
  <2>4. Prompt' => StopInTime'  BY <1>0, <1>6, <2>e DEF StopInTime, Prompt
  <2> DEFINE pcs == {"backlog"} \cup InService
  <2>5. conn' = CutOff(pcs)  BY <1>6 DEF Ends
  <2>6. "cut" \notin pcs  BY DEF InService
  <2> HIDE DEF pcs
  <2>7. /\ \A c \in Client : conn'[c].pc = "cut" \/ conn'[c] = conn[c]
        /\ \A c \in Client : conn'[c].pc \notin pcs
    BY <1>1, <2>5, <2>6
  <2>8. GoneIsEmpty'  BY <2>7 DEF GoneIsEmpty, pcs
  <2> QED  BY <1>2, <2>4, <2>7, <2>8 DEF TimeInv
<1>7. CASE Exit  BY <1>6, <1>7 DEF Exit
<1>8. CASE HardExit
  <2>1. ~Prompt
    <3>1. daemon.exitAt \in Nat  BY <1>0, SMT DEF DaemonType
    <3> QED  BY <1>0, <1>3, <1>8, <3>1 DEF HardExit, StopInTime
  <2> QED  BY <1>6, <1>8, <2>1 DEF HardExit
<1>9. CASE Kill  BY <1>6, <1>9 DEF Kill
<1> QED  BY <1>4, <1>5, <1>7, <1>8, <1>9 DEF DaemonStep

(* The clock goes on when all that is left is to wait. *)
LEMMA TimeTick ==
    ASSUME RequestsInv, TimeInv, Tick
    PROVE  TimeInv'
<1>0. /\ cli \in [Client -> CliType] /\ conn \in [Client -> ConnType] /\ daemon \in DaemonType /\ now \in Nat
      /\ now' = now + 1 /\ UNCHANGED <<world, cli, conn, daemon>> /\ (Prompt => ~Busy) /\ Leaves
  BY DEF RequestsInv, Shapes, Tick
<1>1. GoneIsEmpty'  BY <1>0 DEF TimeInv, GoneIsEmpty
<1>2. ASSUME Prompt, NEW c \in Client PROVE InTime(cli[c], conn[c])'
  <2>1. InTime(cli[c], conn[c])  BY <1>2 DEF TimeInv
  <2>2. ~Busy  BY <1>0, <1>2
  <2>3. ASSUME cli[c].pc \in {"write", "await"} PROVE conn[c].pc = "waiting" /\ now < conn[c].until
    <3>1. cli[c].pc = "await" /\ conn[c].pc \notin {"answered", "cut"}
      BY <2>2, <2>3 DEF Busy, CliAt
    <3>2. conn[c].pc \notin InService \ {"waiting"}  BY <2>2 DEF Busy
    <3>3. conn[c].pc # "none" /\ conn[c].pc \in ConnPC
      BY <1>0, <2>1, <2>3, SMT DEF InTime, ConnType
    <3>4. conn[c].pc # "backlog"
      <4>1. CASE Listening
        <5>1. daemon.pc \in {"serving", "failed"}  BY <1>0, <4>1 DEF Listening, Leaves, Phase
        <5> QED  BY <2>2, <5>1 DEF Busy, ConnAt
      <4>2. CASE ~Listening
        <5> QED  BY <1>0, <4>2 DEF Listening, Leaves, TimeInv, GoneIsEmpty
      <4> QED  BY <4>1, <4>2
    <3>5. conn[c].pc = "waiting"  BY <3>1, <3>2, <3>3, <3>4 DEF InService, ConnPC
    <3>6. conn[c].until \in Nat  BY <1>0, SMT DEF ConnType
    <3> QED  BY <1>0, <2>2, <3>5, <3>6 DEF Busy, ConnAt
  <2>4. cli[c].deadline \in Nat /\ conn[c].until \in Nat  BY <1>0, SMT DEF CliType, ConnType
  <2> QED  BY <1>0, <2>1, <2>3, <2>4 DEF InTime, Deadline
<1>3. ASSUME Prompt PROVE StopInTime'
  <2>1. ASSUME daemon.asked, daemon.pc # "gone" PROVE FALSE
    <3>1. ~Busy /\ ContextDone /\ daemon.pc \in DaemonPC /\ Phase(daemon)
      BY <1>0, <1>3, <2>1, SMT DEF ContextDone, DaemonType, Leaves
    <3>2. ~daemon.open /\ daemon.pc \notin {"teardown", "failed"}  BY <2>1, <3>1 DEF Busy
    <3>3. daemon.pc = "draining"  BY <2>1, <3>1, <3>2, SMT DEF Phase, DaemonPC
    <3>4. PICK c \in Client : conn[c].pc \in InService  BY <3>1, <3>3 DEF Busy, Drained
    <3> QED  BY <3>1, <3>4 DEF Busy, ConnAt
  <2> QED  BY <1>0, <1>3, <2>1 DEF TimeInv, StopInTime
<1> QED  BY <1>0, <1>1, <1>2, <1>3 DEF TimeInv, Prompt

LEMMA TimeInvNext ==
    ASSUME RequestsInv, TimeInv, [RequestsNext]_requestsVars
    PROVE  TimeInv'
<1>1. ASSUME NEW c \in Client,
             Invoke(c) \/ Freeze(c) \/ ClientStep(c) \/ HandlerStep(c) \/ TmuxStep(c) \/ WaitAnswers(c)
      PROVE  TimeInv'
  BY <1>1, TimeInvocation, TimeHandler DEF ClientStep, HandlerStep, TmuxStep
<1>2. CASE KillPane \/ UNCHANGED requestsVars
  <2>1. UNCHANGED <<world, cli, conn, daemon, now>>  BY <1>2 DEF KillPane, requestsVars
  <2> QED  BY <2>1 DEF TimeInv, GoneIsEmpty, Prompt, InTime, Deadline, StopInTime
<1> QED  BY <1>1, <1>2, TimeMain, TimeTick DEF RequestsNext

(* No deadline strikes on a prompt machine: neither the client's nor, upon *)
(* a stop, the daemon's own.                                               *)
THEOREM PromptIsInTime == RequestsSpec => []PromptMeansInTime
<1>1. TimeInv => PromptMeansInTime  BY DEF TimeInv, InTime, StopInTime, PromptMeansInTime
<1> QED  BY <1>1, RequestsInvInit, RequestsInvNext, TimeInvInit, TimeInvNext, PTL DEF RequestsSpec

-----------------------------------------------------------------------------
(* The arguments of a line, and those that the properties put into it. *)
Arg == Argument \cup {End, Flag("help"), Flag("tmux-socket"), Word("sock")}

(* Lines of arguments, cut in two. *)
LEMMA SliceOfConcat ==
    ASSUME NEW S, NEW x \in Seq(S), NEW z \in Seq(S), NEW i \in Nat, NEW j \in Nat, 1 <= i, j <= Len(z)
    PROVE  SubSeq(x \o z, Len(x) + i, Len(x) + j) = SubSeq(z, i, j)
<1>n. PICK m \in Nat, n \in Nat, xz \in Seq(S) : m = Len(x) /\ n = Len(z) /\ xz = x \o z
  BY LenProperties, ConcatProperties
<1>1. Len(xz) = m + n /\ \A k \in 1..n : xz[m + k] = z[k]
  <2>1. Len(xz) = m + n /\ \A k \in 1..(m + n) : xz[k] = IF k <= m THEN x[k] ELSE z[k - m]
    BY <1>n, ConcatProperties
  <2>2. ASSUME NEW k \in 1..n PROVE xz[m + k] = z[k]
    <3>1. m + k \in 1..(m + n) /\ ~(m + k <= m) /\ (m + k) - m = k  OBVIOUS
    <3> QED  BY <2>1, <3>1
  <2> QED  BY <2>1, <2>2
<1>s. PICK a, b : a = SubSeq(xz, m + i, m + j) /\ b = SubSeq(z, i, j)  OBVIOUS
<1>2. /\ a \in Seq(S) /\ Len(a) = (IF m + i <= m + j THEN (m + j) - (m + i) + 1 ELSE 0)
      /\ \A k \in 1..((m + j) - (m + i) + 1) : a[k] = xz[(m + i) + k - 1]
  <2>1. \A k \in (m + i)..(m + j) : xz[k] \in S
    <3>1. \A k \in 1..Len(xz) : xz[k] \in S  BY ElementOfSeq
    <3> QED  BY <1>n, <1>1, <3>1
  <2>2. PICK g \in Int, h \in Int : g = m + i /\ h = m + j  OBVIOUS
  <2>3. \A k \in g..h : xz[k] \in S  BY <2>1, <2>2
  <2>4. /\ SubSeq(xz, g, h) \in Seq(S)
        /\ Len(SubSeq(xz, g, h)) = IF g <= h THEN h - g + 1 ELSE 0
        /\ \A k \in 1..(h - g + 1) : SubSeq(xz, g, h)[k] = xz[g + k - 1]
    BY <2>3, SubSeqProperties
  <2> QED  BY <1>s, <2>2, <2>4, Zenon
<1>3. /\ b \in Seq(S) /\ Len(b) = (IF i <= j THEN j - i + 1 ELSE 0)
      /\ \A k \in 1..(j - i + 1) : b[k] = z[i + k - 1]
  <2>1. \A k \in i..j : z[k] \in S
    <3>1. \A k \in 1..Len(z) : z[k] \in S  BY ElementOfSeq
    <3> QED  BY <1>n, <3>1
  <2> QED  BY <1>s, <2>1, SubSeqProperties
<1>4. Len(a) = Len(b)  BY <1>2, <1>3
<1>5. ASSUME NEW k \in 1..Len(a) PROVE a[k] = b[k]
  <2>1. k \in 1..(j - i + 1) /\ k \in 1..((m + j) - (m + i) + 1)  BY <1>2, <1>5
  <2>2. a[k] = xz[(m + i) + k - 1] /\ b[k] = z[i + k - 1]  BY <1>2, <1>3, <2>1
  <2>3. i + k - 1 \in 1..n /\ (m + i) + k - 1 = m + (i + k - 1)  BY <1>n, <2>1
  <2>4. xz[m + (i + k - 1)] = z[i + k - 1]  BY <1>1, <2>3
  <2> QED  BY <2>2, <2>3, <2>4
<1>6. a = b  BY <1>2, <1>3, <1>4, <1>5, SeqEqual
<1> QED  BY <1>n, <1>s, <1>6

LEMMA ConcatAt ==
    ASSUME NEW S, NEW x \in Seq(S), NEW z \in Seq(S)
    PROVE  /\ x \o z \in Seq(S) /\ Len(x \o z) = Len(x) + Len(z)
           /\ \A i \in 1..Len(z) : (x \o z)[Len(x) + i] = z[i]
           /\ \A i \in 1..(Len(z) + 2) : From(x \o z, Len(x) + i) = From(z, i)
<1>n. PICK m \in Nat, n \in Nat, xz \in Seq(S) : m = Len(x) /\ n = Len(z) /\ xz = x \o z
  BY LenProperties, ConcatProperties
<1>1. Len(xz) = m + n /\ \A k \in 1..(m + n) : xz[k] = IF k <= m THEN x[k] ELSE z[k - m]
  BY <1>n, ConcatProperties
<1>2. ASSUME NEW k \in 1..n PROVE xz[m + k] = z[k]
  <2>1. m + k \in 1..(m + n) /\ ~(m + k <= m) /\ (m + k) - m = k  OBVIOUS
  <2> QED  BY <1>1, <2>1
<1>3. ASSUME NEW i \in 1..(n + 2) PROVE SubSeq(xz, m + i, m + n) = SubSeq(z, i, n)
  <2>1. i \in Nat /\ 1 <= i /\ n <= n  BY <1>3
  <2>2. SubSeq(x \o z, Len(x) + i, Len(x) + n) = SubSeq(z, i, n)  BY <1>n, <2>1, SliceOfConcat
  <2> QED  BY <1>n, <2>2
<1> QED  BY <1>n, <1>1, <1>2, <1>3 DEF From

(* One step of a loop from what it sees and what stands behind it. *)
Takes(args, i, bools) == IF TakesNext(args, i, bools) THEN 1 ELSE 0

PartStep(a, takes, rest, pair, one, two) ==
    IF a = End THEN [flags |-> <<>>, words |-> rest]
    ELSE IF a.dashes = 2 /\ takes = 1 THEN [two EXCEPT !.flags = pair \o @]
    ELSE IF a.dashes > 0 THEN [one EXCEPT !.flags = Put(a, @)]
    ELSE [one EXCEPT !.words = Put(a, @)]

LEMMA PartAtStep ==
    ASSUME NEW f, NEW args, NEW bools, NEW i, ~(i > Len(args))
    PROVE  PartAt(f, args, bools, i) =
              PartStep(args[i], Takes(args, i, bools), From(args, i + 1), SubSeq(args, i, i + 1), f[i + 1], f[i + 2])
BY DEF PartAt, PartStep, Takes

(* What a loop computes behind a part of the line is what it computes of   *)
(* the rest alone.                                                         *)
PartLoop(f, args, bools) == \A i \in 1..(Len(args) + 1) : f[i] = PartAt(f, args, bools, i)

LEMMA PartitionShift ==
    ASSUME NEW x \in Seq(Arg), NEW z \in Seq(Arg), NEW bools, NEW f, PartLoop(f, x \o z, bools)
    PROVE  f[Len(x) + 1] = Partition(z, bools)
<1>n. PICK m \in Nat, n \in Nat, xz \in Seq(Arg) : m = Len(x) /\ n = Len(z) /\ xz = x \o z
  BY LenProperties, ConcatProperties
<1>1. /\ Len(xz) = m + n /\ \A i \in 1..n : xz[m + i] = z[i]
      /\ \A i \in 1..(n + 2) : From(xz, m + i) = From(z, i)
  BY <1>n, ConcatAt
<1>2. \A i \in 1..(m + n + 1) : f[i] = PartAt(f, xz, bools, i)  BY <1>n, <1>1 DEF PartLoop
<1>3. PICK g : (\A i \in 1..(n + 1) : g[i] = PartAt(g, z, bools, i)) /\ Partition(z, bools) = g[1]
  BY <1>n, PartDef
<1> DEFINE D == {k \in Nat : \A i \in 1..(n + 1) : i + k > n + 1 => f[m + i] = g[i]}
<1>4. 0 \in D  OBVIOUS
<1>5. ASSUME NEW k \in Nat, k \in D PROVE k + 1 \in D
  <2> SUFFICES ASSUME NEW i \in 1..(n + 1), i + (k + 1) > n + 1 PROVE f[m + i] = g[i]  OBVIOUS
  <2>1. ASSUME NEW j \in (i + 1)..(n + 1) PROVE f[m + j] = g[j]
    <3>1. j \in 1..(n + 1) /\ j + k > n + 1  OBVIOUS
    <3> QED  BY <1>5, <3>1
  <2> HIDE DEF D
  <2>2. m + i \in 1..(m + n + 1) /\ (m + i > m + n <=> i > n) /\ (m + i < m + n <=> i < n)
        /\ (m + i) + 1 = m + (i + 1) /\ (m + i) + 2 = m + (i + 2)
    OBVIOUS
  <2>3. f[m + i] = PartAt(f, xz, bools, m + i) /\ g[i] = PartAt(g, z, bools, i)
    BY <1>2, <1>3, <2>2
  <2>4. CASE i > n  BY <1>n, <1>1, <2>2, <2>3, <2>4 DEF PartAt
  <2>5. CASE i <= n
    <3>1. xz[m + i] = z[i] /\ f[m + (i + 1)] = g[i + 1] /\ From(xz, m + (i + 1)) = From(z, i + 1)
      BY <1>1, <2>1, <2>5
    <3>2. TakesNext(xz, m + i, bools) <=> TakesNext(z, i, bools)
      BY <1>n, <1>1, <2>2, <3>1 DEF TakesNext
    <3>t. Takes(xz, m + i, bools) = Takes(z, i, bools)  BY <3>2 DEF Takes
    <3>3. TakesNext(z, i, bools) =>
            /\ f[m + (i + 2)] = g[i + 2]
            /\ SubSeq(xz, m + i, m + (i + 1)) = SubSeq(z, i, i + 1)
      <4> SUFFICES ASSUME TakesNext(z, i, bools)
                   PROVE  /\ f[m + (i + 2)] = g[i + 2]
                          /\ SubSeq(xz, m + i, m + (i + 1)) = SubSeq(z, i, i + 1)
        OBVIOUS
      <4>1. i < n  BY <1>n DEF TakesNext
      <4>2. f[m + (i + 2)] = g[i + 2]  BY <2>1, <4>1
      <4>3. i \in Nat /\ i + 1 \in Nat /\ 1 <= i /\ i + 1 <= Len(z)  BY <1>n, <4>1
      <4>4. SubSeq(x \o z, Len(x) + i, Len(x) + (i + 1)) = SubSeq(z, i, i + 1)
        BY <4>3, SliceOfConcat
      <4> QED  BY <1>n, <4>2, <4>4
    <3>a. ~(m + i > Len(xz)) /\ ~(i > Len(z))  BY <1>n, <1>1, <2>2, <2>5
    <3>b. f[m + i] = PartStep(xz[m + i], Takes(xz, m + i, bools), From(xz, (m + i) + 1),
                              SubSeq(xz, m + i, (m + i) + 1), f[(m + i) + 1], f[(m + i) + 2])
      BY <2>3, <3>a, PartAtStep, Zenon
    <3>c. g[i] = PartStep(z[i], Takes(z, i, bools), From(z, i + 1), SubSeq(z, i, i + 1), g[i + 1], g[i + 2])
      BY <2>3, <3>a, PartAtStep, Zenon
    <3>4. f[m + i] = PartStep(z[i], Takes(z, i, bools), From(z, i + 1),
                              SubSeq(xz, m + i, m + (i + 1)), g[i + 1], f[m + (i + 2)])
      BY <2>2, <3>1, <3>t, <3>b
    <3>5. CASE TakesNext(z, i, bools)  BY <3>3, <3>4, <3>5, <3>c
    <3>6. CASE ~TakesNext(z, i, bools)  BY <3>4, <3>6, <3>c DEF PartStep, Takes
    <3> QED  BY <3>5, <3>6
  <2> QED  BY <2>4, <2>5
<1>6. Nat \subseteq D
  <2> HIDE DEF D
  <2> QED  BY <1>4, <1>5, Induct
<1>7. f[m + 1] = g[1]
  <2>1. n + 1 \in Nat /\ 1 \in 1..(n + 1) /\ 1 + (n + 1) > n + 1  OBVIOUS
  <2>2. n + 1 \in D
    <3> HIDE DEF D
    <3> QED  BY <1>6, <2>1
  <2> QED  BY <2>1, <2>2
<1> QED  BY <1>n, <1>3, <1>7

LastAt(args, i) == IF i = Len(args) THEN 1 ELSE 0

ParseStep(fs, a, last, here, rest, next, one, two) ==
    IF a.dashes = 0 THEN Done(None, here)
    ELSE IF a = End THEN Done(None, rest)
    ELSE IF a.name \in Help THEN Done("help", <<>>)
    ELSE IF a.name \notin DOMAIN fs THEN Done("usage", <<>>)
    ELSE IF a.value # None
         THEN IF Fits(a.value, fs[a.name]) THEN Also(one, a.name, ValueOf(a.value, fs[a.name]))
              ELSE Done("usage", <<>>)
    ELSE IF fs[a.name] THEN Also(one, a.name, Word("true"))
    ELSE IF last = 1 THEN Done("usage", <<>>)
    ELSE Also(two, a.name, next)

LEMMA ParseAtStep ==
    ASSUME NEW f, NEW args, NEW fs, NEW i, ~(i > Len(args))
    PROVE  ParseAt(f, fs, args, i) =
              ParseStep(fs, args[i], LastAt(args, i), From(args, i), From(args, i + 1), args[i + 1], f[i + 1], f[i + 2])
<1>1. CASE i = Len(args)  BY <1>1 DEF ParseAt, ParseStep, LastAt
<1>2. CASE i # Len(args)  BY <1>2 DEF ParseAt, ParseStep, LastAt
<1> QED  BY <1>1, <1>2

ParseLoop(f, fs, args) == \A i \in 1..(Len(args) + 1) : f[i] = ParseAt(f, fs, args, i)

LEMMA ParseShift ==
    ASSUME NEW x \in Seq(Arg), NEW z \in Seq(Arg), NEW fs, NEW f, ParseLoop(f, fs, x \o z)
    PROVE  f[Len(x) + 1] = FlagParse(fs, z)
<1>n. PICK m \in Nat, n \in Nat, xz \in Seq(Arg) : m = Len(x) /\ n = Len(z) /\ xz = x \o z
  BY LenProperties, ConcatProperties
<1>1. /\ Len(xz) = m + n /\ \A i \in 1..n : xz[m + i] = z[i]
      /\ \A i \in 1..(n + 2) : From(xz, m + i) = From(z, i)
  BY <1>n, ConcatAt
<1>2. \A i \in 1..(m + n + 1) : f[i] = ParseAt(f, fs, xz, i)  BY <1>n, <1>1 DEF ParseLoop
<1>3. PICK g : (\A i \in 1..(n + 1) : g[i] = ParseAt(g, fs, z, i)) /\ FlagParse(fs, z) = g[1]
  BY <1>n, ParseDef
<1> DEFINE D == {k \in Nat : \A i \in 1..(n + 1) : i + k > n + 1 => f[m + i] = g[i]}
<1>4. 0 \in D  OBVIOUS
<1>5. ASSUME NEW k \in Nat, k \in D PROVE k + 1 \in D
  <2> SUFFICES ASSUME NEW i \in 1..(n + 1), i + (k + 1) > n + 1 PROVE f[m + i] = g[i]  OBVIOUS
  <2>1. ASSUME NEW j \in (i + 1)..(n + 1) PROVE f[m + j] = g[j]
    <3>1. j \in 1..(n + 1) /\ j + k > n + 1  OBVIOUS
    <3> QED  BY <1>5, <3>1
  <2> HIDE DEF D
  <2>2. m + i \in 1..(m + n + 1) /\ (m + i > m + n <=> i > n) /\ (m + i = m + n <=> i = n)
        /\ (m + i) + 1 = m + (i + 1) /\ (m + i) + 2 = m + (i + 2)
    OBVIOUS
  <2>3. f[m + i] = ParseAt(f, fs, xz, m + i) /\ g[i] = ParseAt(g, fs, z, i)
    BY <1>2, <1>3, <2>2
  <2>4. CASE i > n
    <3>1. From(xz, m + i) = From(z, i)  BY <1>1
    <3> QED  BY <1>n, <1>1, <2>2, <2>3, <2>4, <3>1 DEF ParseAt
  <2>5. CASE i <= n
    <3>1. /\ xz[m + i] = z[i] /\ f[m + (i + 1)] = g[i + 1]
          /\ From(xz, m + i) = From(z, i) /\ From(xz, m + (i + 1)) = From(z, i + 1)
      <4>1. /\ i \in 1..n /\ i + 1 \in (i + 1)..(n + 1)
            /\ i \in 1..(n + 2) /\ i + 1 \in 1..(n + 2)
        BY <2>5
      <4> QED  BY <1>1, <2>1, <4>1, Zenon
    <3>t. LastAt(xz, m + i) = LastAt(z, i)  BY <1>n, <1>1, <2>2 DEF LastAt
    <3>2. i # n => f[m + (i + 2)] = g[i + 2] /\ xz[m + (i + 1)] = z[i + 1]
      <4> SUFFICES ASSUME i # n PROVE f[m + (i + 2)] = g[i + 2] /\ xz[m + (i + 1)] = z[i + 1]  OBVIOUS
      <4>1. i + 1 \in 1..n /\ i + 2 \in (i + 1)..(n + 1)  BY <2>5
      <4> QED  BY <1>1, <2>1, <4>1
    <3>a. ~(m + i > Len(xz)) /\ ~(i > Len(z))  BY <1>n, <1>1, <2>2, <2>5
    <3>b. f[m + i] = ParseStep(fs, xz[m + i], LastAt(xz, m + i), From(xz, m + i), From(xz, (m + i) + 1),
                               xz[(m + i) + 1], f[(m + i) + 1], f[(m + i) + 2])
      BY <2>3, <3>a, ParseAtStep, Zenon
    <3>c. g[i] = ParseStep(fs, z[i], LastAt(z, i), From(z, i), From(z, i + 1), z[i + 1], g[i + 1], g[i + 2])
      BY <2>3, <3>a, ParseAtStep, Zenon
    <3>4. f[m + i] = ParseStep(fs, z[i], LastAt(z, i), From(z, i), From(z, i + 1),
                               xz[m + (i + 1)], g[i + 1], f[m + (i + 2)])
      BY <2>2, <3>1, <3>t, <3>b
    <3>5. CASE i # n  BY <3>2, <3>4, <3>5, <3>c
    <3>6. CASE i = n
      <4>1. LastAt(z, i) = 1  BY <1>n, <3>6 DEF LastAt
      <4> QED  BY <3>4, <4>1, <3>c DEF ParseStep
    <3> QED  BY <3>5, <3>6
  <2> QED  BY <2>4, <2>5
<1>6. Nat \subseteq D
  <2> HIDE DEF D
  <2> QED  BY <1>4, <1>5, Induct
<1>7. f[m + 1] = g[1]
  <2>1. n + 1 \in Nat /\ 1 \in 1..(n + 1) /\ 1 + (n + 1) > n + 1  OBVIOUS
  <2>2. n + 1 \in D
    <3> HIDE DEF D
    <3> QED  BY <1>6, <2>1
  <2> QED  BY <2>1, <2>2
<1> QED  BY <1>n, <1>3, <1>7

ScanStep(a, here, piece, one, next) ==
    IF IsHelp(a) THEN [one EXCEPT !.help = TRUE]
    ELSE IF IsVersion(a) THEN [one EXCEPT !.version = TRUE]
    ELSE IF IsGlobal(a) THEN [next EXCEPT !.globals = piece \o @]
    ELSE [globals |-> <<>>, help |-> FALSE, version |-> FALSE, rest |-> here]

LEMMA ScanAtStep ==
    ASSUME NEW f, NEW args, NEW i, i <= Len(args)
    PROVE  ScanAt(f, args, i) = ScanStep(args[i], From(args, i), SubSeq(args, i, (i + HoistGlobal(args, i)) - 1),
                                         f[i + 1], f[i + HoistGlobal(args, i)])
BY Zenon DEF ScanAt, ScanStep

ScanLoop(f, args) == \A i \in 1..(Len(args) + 2) : f[i] = ScanAt(f, args, i)

LEMMA ScanShift ==
    ASSUME NEW x \in Seq(Arg), NEW z \in Seq(Arg), NEW f, ScanLoop(f, x \o z)
    PROVE  f[Len(x) + 1] = ExtractGlobals(z)
<1>n. PICK m \in Nat, n \in Nat, xz \in Seq(Arg) : m = Len(x) /\ n = Len(z) /\ xz = x \o z
  BY LenProperties, ConcatProperties
<1>1. /\ Len(xz) = m + n /\ \A i \in 1..n : xz[m + i] = z[i]
      /\ \A i \in 1..(n + 2) : From(xz, m + i) = From(z, i)
  BY <1>n, ConcatAt, ZenonT(60)
<1>2. \A i \in 1..(m + n + 2) : f[i] = ScanAt(f, xz, i)  BY <1>n, <1>1 DEF ScanLoop
<1>3. PICK g : (\A i \in 1..(n + 2) : g[i] = ScanAt(g, z, i)) /\ ExtractGlobals(z) = g[1]
  BY <1>n, ScanDef
<1> DEFINE D == {k \in Nat : \A i \in 1..(n + 2) : i + k > n + 2 => f[m + i] = g[i]}
<1>4. 0 \in D  OBVIOUS
<1>5. ASSUME NEW k \in Nat, k \in D PROVE k + 1 \in D
  <2> SUFFICES ASSUME NEW i \in 1..(n + 2), i + (k + 1) > n + 2 PROVE f[m + i] = g[i]  OBVIOUS
  <2>1. ASSUME NEW j \in (i + 1)..(n + 2) PROVE f[m + j] = g[j]
    <3>1. j \in 1..(n + 2) /\ j + k > n + 2  OBVIOUS
    <3> QED  BY <1>5, <3>1
  <2> HIDE DEF D
  <2>2. m + i \in 1..(m + n + 2) /\ (m + i <= m + n <=> i <= n) /\ (m + i < m + n <=> i < n)
        /\ (m + i) + 1 = m + (i + 1) /\ (m + i) + 2 = m + (i + 2)
    OBVIOUS
  <2>3. f[m + i] = ScanAt(f, xz, m + i) /\ g[i] = ScanAt(g, z, i) /\ From(xz, m + i) = From(z, i)
    BY <1>1, <1>2, <1>3, <2>2
  <2>4. CASE ~(i <= n)
    <3>1. ~(m + i <= Len(xz)) /\ ~(i <= Len(z))  BY <1>n, <1>1, <2>2, <2>4
    <3> QED  BY <2>3, <3>1, Zenon DEF ScanAt
  <2>5. CASE i <= n
    <3>1. xz[m + i] = z[i] /\ f[m + (i + 1)] = g[i + 1]
      <4>1. i \in 1..n /\ i + 1 \in (i + 1)..(n + 2)  BY <2>5
      <4> QED  BY <1>1, <2>1, <4>1
    <3>t. HoistGlobal(xz, m + i) = HoistGlobal(z, i)  BY <1>n, <1>1, <2>2, <3>1 DEF HoistGlobal
    <3>h. PICK h \in 1..2 : h = HoistGlobal(z, i) /\ i + h - 1 <= n
      <4>1. HoistGlobal(z, i) \in 1..2 /\ i + HoistGlobal(z, i) - 1 <= n
        BY <1>n, <2>5 DEF HoistGlobal
      <4> QED  BY <4>1
    <3>2. f[m + (i + h)] = g[i + h]
      <4>1. i + h \in (i + 1)..(n + 2)  BY <3>h
      <4> QED  BY <2>1, <4>1, Zenon
    <3>3. SubSeq(xz, m + i, m + (i + h - 1)) = SubSeq(z, i, i + h - 1)
      <4>1. i \in Nat /\ i + h - 1 \in Nat /\ 1 <= i /\ i + h - 1 <= Len(z)  BY <1>n, <3>h
      <4>j. PICK j \in Nat : j = i + h - 1  BY <4>1
      <4>2. SubSeq(x \o z, Len(x) + i, Len(x) + j) = SubSeq(z, i, j)  BY <4>1, <4>j, SliceOfConcat
      <4> QED  BY <1>n, <4>j, <4>2
    <3>a. m + i <= Len(xz) /\ i <= Len(z)  BY <1>n, <1>1, <2>2, <2>5
    <3>b. f[m + i] = ScanStep(xz[m + i], From(xz, m + i),
                              SubSeq(xz, m + i, ((m + i) + HoistGlobal(xz, m + i)) - 1), f[(m + i) + 1],
                              f[(m + i) + HoistGlobal(xz, m + i)])
      BY <2>3, <3>a, ScanAtStep, Zenon
    <3>c. g[i] = ScanStep(z[i], From(z, i), SubSeq(z, i, (i + HoistGlobal(z, i)) - 1), g[i + 1],
                          g[i + HoistGlobal(z, i)])
      BY <2>3, <3>a, ScanAtStep, Zenon
    <3>d. ((m + i) + h) - 1 = m + (i + h - 1) /\ i + h - 1 = (i + h) - 1 /\ (m + i) + h = m + (i + h)  OBVIOUS
    <3> QED  BY <2>2, <2>3, <3>1, <3>2, <3>3, <3>t, <3>h, <3>b, <3>c, <3>d
  <2> QED  BY <2>4, <2>5
<1>6. Nat \subseteq D
  <2> HIDE DEF D
  <2> QED  BY <1>4, <1>5, Induct
<1>7. f[m + 1] = g[1]
  <2>1. n + 2 \in Nat /\ 1 \in 1..(n + 2) /\ 1 + (n + 2) > n + 2  OBVIOUS
  <2>2. n + 2 \in D
    <3> HIDE DEF D
    <3> QED  BY <1>6, <2>1
  <2> QED  BY <2>1, <2>2
<1> QED  BY <1>n, <1>3, <1>7

-----------------------------------------------------------------------------
(* Each loop at the head of a line: a word, a flag by itself, a flag with  *)
(* its value, the --.                                                      *)
LEMMA EndIsArg == End \in Arg /\ End.dashes = 2 /\ End.value = None
<1>1. End.dashes = 2 /\ End.value = None  BY Zenon DEF End, Flag
<1>2. End \in Arg  BY Zenon DEF Arg
<1> QED  BY <1>1, <1>2, Zenon

LEMMA WordIsNotEnd ==
    ASSUME NEW a, a.dashes = 0
    PROVE  a # End
<1> SUFFICES ASSUME a = End PROVE FALSE  OBVIOUS
<1>1. a.dashes = 2  BY EndIsArg
<1> QED  BY <1>1

LEMMA HeadOfLine ==
    ASSUME NEW S, NEW a \in S, NEW z \in Seq(S)
    PROVE  /\ <<a>> \in Seq(S) /\ Len(<<a>>) = 1 /\ <<a>> \o z \in Seq(S)
           /\ Len(<<a>> \o z) = Len(z) + 1 /\ (<<a>> \o z)[1] = a /\ From(<<a>> \o z, 2) = z
           /\ From(<<a>> \o z, 1) = <<a>> \o z
           /\ z # <<>> => SubSeq(<<a>> \o z, 1, 2) = <<a, z[1]>> /\ (<<a>> \o z)[2] = z[1]
<1>1. <<a>> \in Seq(S) /\ Len(<<a>>) = 1 /\ <<a>>[1] = a  BY One, SMT
<1>n. PICK n \in Nat, az \in Seq(S) : n = Len(z) /\ az = <<a>> \o z
  BY <1>1, LenProperties, ConcatProperties
<1>2. Len(az) = 1 + n /\ \A i \in 1..(1 + n) : az[i] = IF i <= 1 THEN <<a>>[i] ELSE z[i - 1]
  BY <1>1, <1>n, ConcatProperties
<1>3. az[1] = a /\ \A i \in 2..(n + 1) : az[i] = z[i - 1]  BY <1>1, <1>2
<1>4. From(az, 1) = az  BY SubSeqFull DEF From
<1>5. From(az, 2) = z
  <2>0. \A i \in 1..Len(z) : z[i] \in S  BY ElementOfSeq
  <2>x. PICK x \in Seq(S) : x = <<a>>  BY <1>1
  <2>a. 1 \in 1..(Len(z) + 2)  BY <1>n
  <2>b. \A i \in 1..(Len(z) + 2) : From(x \o z, Len(x) + i) = From(z, i)  BY ConcatAt
  <2>1. From(x \o z, Len(x) + 1) = From(z, 1)  BY <2>a, <2>b, Zenon
  <2>2. From(z, 1) = z  BY SubSeqFull DEF From
  <2> QED  BY <1>1, <1>n, <2>x, <2>1, <2>2
<1>6. ASSUME z # <<>> PROVE SubSeq(az, 1, 2) = <<a, z[1]>> /\ az[2] = z[1]
  <2>1. n >= 1  BY <1>6, <1>n, EmptySeq
  <2>2. az[2] = z[1]  BY <1>3, <2>1
  <2>b. PICK b \in S : b = z[1]  BY <1>n, <2>1, ElementOfSeq
  <2>3. SubSeq(az, 1, 2) = <<az[1]>> \o SubSeq(az, 1 + 1, 2)
    <3>1. 1 \in 1..Len(az) /\ 2 \in 1..Len(az)  BY <1>2, <2>1
    <3> QED  BY <3>1, SubSeqRecursiveFirst
  <2>4. SubSeq(az, 2, 2) = <<az[2]>> \o SubSeq(az, 2 + 1, 2)
    <3>1. 2 \in 1..Len(az) /\ 2 \in 2..Len(az)  BY <1>2, <2>1
    <3> QED  BY <3>1, SubSeqRecursiveFirst
  <2>5. SubSeq(az, 2 + 1, 2) = <<>>  BY SubSeqEmpty
  <2>6. <<b>> \o <<>> = <<b>>
    <3>1. <<b>> \in Seq(S)  BY SMT
    <3> QED  BY <3>1, ConcatEmptySeq
  <2>7. SubSeq(az, 2, 2) = <<b>>  BY <2>2, <2>b, <2>4, <2>5, <2>6
  <2>c. 1 + 1 = 2  OBVIOUS
  <2>8. SubSeq(az, 1, 2) = <<a>> \o <<b>>  BY <1>3, <2>c, <2>3, <2>7, Zenon
  <2>9. SubSeq(az, 1, 2) = <<a, b>>  BY <2>8, Two
  <2> QED  BY <2>2, <2>b, <2>9
<1> QED  BY <1>1, <1>n, <1>2, <1>3, <1>4, <1>5, <1>6, SMTT(40)

LEMMA PartitionEmpty ==
    ASSUME NEW bools
    PROVE  Partition(<<>>, bools) = [flags |-> <<>>, words |-> <<>>]
<1>1. Len(<<>>) = 0  BY EmptySeq
<1>2. PICK f : (\A i \in 1..(0 + 1) : f[i] = PartAt(f, <<>>, bools, i)) /\ Partition(<<>>, bools) = f[1]
  BY <1>1, PartDef
<1>3. f[1] = PartAt(f, <<>>, bools, 1)  BY <1>2
<1> QED  BY <1>1, <1>2, <1>3 DEF PartAt

LEMMA PartitionHead ==
    ASSUME NEW a \in Arg, NEW z \in Seq(Arg), NEW bools
    PROVE  LET all == Partition(<<a>> \o z, bools)
               parts == Partition(z, bools)
           IN /\ a = End => all = [flags |-> <<>>, words |-> z]
              /\ a.dashes = 0 => all = [flags |-> parts.flags, words |-> <<a>> \o parts.words]
              /\ a # End /\ a.dashes \in Nat \ {0} /\ (a.value # None \/ a.name \in bools) =>
                    all = [flags |-> <<a>> \o parts.flags, words |-> parts.words]
              /\ a # End /\ a.dashes \in Nat \ {0} =>
                    \E rest \in Seq(Arg) : all.flags = <<a>> \o rest
<1>a. PICK az \in Seq(Arg) : az = <<a>> \o z  BY HeadOfLine
<1>1. /\ Len(az) = Len(z) + 1 /\ az[1] = a /\ From(az, 2) = z /\ Len(<<a>>) = 1 /\ <<a>> \in Seq(Arg)
      /\ z # <<>> => SubSeq(az, 1, 2) = <<a, z[1]>>
  BY <1>a, HeadOfLine
<1>n. PICK n \in Nat : n = Len(z)  BY LenProperties
<1>2. PICK f : PartLoop(f, az, bools) /\ Partition(az, bools) = f[1]
  BY <1>n, <1>1, PartDef DEF PartLoop
<1>3. f[2] = Partition(z, bools)
  <2>x. PICK x \in Seq(Arg) : x = <<a>>  BY <1>1
  <2>0. PartLoop(f, x \o z, bools)  BY <1>a, <1>2, <2>x
  <2>1. f[Len(x) + 1] = Partition(z, bools)  BY <2>0, PartitionShift
  <2> QED  BY <1>1, <2>x, <2>1
<1>4. f[1] = PartStep(a, Takes(az, 1, bools), z, SubSeq(az, 1, 2), f[2], f[3])
  <2>1. 1 \in 1..(Len(az) + 1) /\ ~(1 > Len(az)) /\ 1 + 1 = 2 /\ 1 + 2 = 3  BY <1>n, <1>1
  <2>2. f[1] = PartAt(f, az, bools, 1)  BY <1>2, <2>1 DEF PartLoop
  <2>3. PartAt(f, az, bools, 1) = PartStep(az[1], Takes(az, 1, bools), From(az, 1 + 1), SubSeq(az, 1, 1 + 1),
                                           f[1 + 1], f[1 + 2])
    BY <2>1, PartAtStep, Zenon
  <2> QED  BY <1>1, <2>1, <2>2, <2>3
<1>p. PICK parts : parts = Partition(z, bools)  OBVIOUS
<1>5. /\ parts = [flags |-> parts.flags, words |-> parts.words]
      /\ parts.flags \in Seq(Arg) /\ parts.words \in Seq(Arg)
  BY <1>p, PartitionType
<1>6. a = End => f[1] = [flags |-> <<>>, words |-> z]  BY <1>4 DEF PartStep
<1>7. ASSUME a.dashes = 0 PROVE f[1] = [flags |-> parts.flags, words |-> <<a>> \o parts.words]
  <2>1. a # End  BY <1>7, WordIsNotEnd
  <2>2. f[1] = [parts EXCEPT !.words = Put(a, @)]  BY <1>3, <1>4, <1>7, <1>p, <2>1 DEF PartStep
  <2> QED  BY <1>5, <2>2 DEF Put
<1>8. ASSUME a # End, a.dashes \in Nat \ {0}, a.value # None \/ a.name \in bools
      PROVE  f[1] = [flags |-> <<a>> \o parts.flags, words |-> parts.words]
  <2>1. Takes(az, 1, bools) = 0  BY <1>1, <1>8 DEF Takes, TakesNext
  <2>2. f[1] = [parts EXCEPT !.flags = Put(a, @)]  BY <1>3, <1>4, <1>8, <1>p, <2>1 DEF PartStep
  <2> QED  BY <1>5, <2>2 DEF Put
<1>9. ASSUME a # End, a.dashes \in Nat \ {0} PROVE \E rest \in Seq(Arg) : f[1].flags = <<a>> \o rest
  <2>1. CASE Takes(az, 1, bools) = 1 /\ a.dashes = 2
    <3>1. 1 < Len(az)  BY <1>1, <2>1 DEF Takes, TakesNext
    <3>2. z # <<>> /\ n >= 1
      <4>1. n >= 1  BY <1>n, <1>1, <3>1
      <4> QED  BY <1>n, <4>1, EmptySeq
    <3>b. PICK b \in Arg : b = z[1]  BY <1>n, <3>2, ElementOfSeq
    <3>3. f[3].flags \in Seq(Arg) /\ f[3] = [flags |-> f[3].flags, words |-> f[3].words]
      <4>1. <<a, b>> \in Seq(Arg) /\ Len(<<a, b>>) = 2  BY SMT
      <4>2. PICK y \in Seq(Arg) : y = From(az, 3)
        <5>1. From(az, 3) \in Seq(Arg)
          <6>1. 3 \in 1..(Len(az) + 2)  BY <1>n, <1>1, SMTT(40)
          <6> QED  BY <6>1, FromType
        <5> QED  BY <5>1
      <4>3. az = <<a, b>> \o y
        <5>1. SubSeq(az, 1, 2) \o SubSeq(az, 2 + 1, Len(az)) = SubSeq(az, 1, Len(az))
          <6>1. 1 \in 1..(Len(az) + 1) /\ 2 \in (1 - 1)..Len(az) /\ Len(az) \in 2..Len(az)
            BY <1>n, <1>1, <3>2
          <6> QED  BY <6>1, ConcatAdjacentSubSeq
        <5>2. SubSeq(az, 1, Len(az)) = az  BY SubSeqFull
        <5>3. SubSeq(az, 1, 2) = <<a, b>>  BY <1>1, <3>2, <3>b
        <5>4. SubSeq(az, 2 + 1, Len(az)) = y  BY <4>2 DEF From
        <5> QED  BY <5>1, <5>2, <5>3, <5>4
      <4>x. PICK x \in Seq(Arg) : x = <<a, b>>  BY <4>1
      <4>0. PartLoop(f, x \o y, bools)  BY <1>2, <4>3, <4>x
      <4>4. f[Len(x) + 1] = Partition(y, bools)  BY <4>0, PartitionShift
      <4>5. f[3] = Partition(y, bools)  BY <4>1, <4>4, <4>x
      <4> QED  BY <4>5, PartitionType
    <3>4. f[1] = [f[3] EXCEPT !.flags = <<a, b>> \o @]
      <4>1. SubSeq(az, 1, 2) = <<a, b>>  BY <1>1, <3>2, <3>b
      <4> QED  BY <1>4, <1>9, <2>1, <4>1 DEF PartStep
    <3>5. f[1].flags = <<a, b>> \o f[3].flags  BY <3>3, <3>4
    <3>6. <<a, b>> = <<a>> \o <<b>> /\ <<b>> \in Seq(Arg)  BY Two, SMT
    <3>7. (<<a>> \o <<b>>) \o f[3].flags = <<a>> \o (<<b>> \o f[3].flags)
      BY <1>1, <3>3, <3>6, ConcatAssociative, SMTT(40)
    <3>8. <<b>> \o f[3].flags \in Seq(Arg)  BY <3>3, <3>6, ConcatProperties
    <3> QED  BY <3>5, <3>6, <3>7, <3>8
  <2>2. CASE ~(Takes(az, 1, bools) = 1 /\ a.dashes = 2)
    <3>1. f[1] = [parts EXCEPT !.flags = Put(a, @)]
      BY <1>3, <1>4, <1>9, <1>p, <2>2 DEF PartStep
    <3>2. f[1].flags = <<a>> \o parts.flags  BY <1>5, <3>1 DEF Put
    <3> QED  BY <1>5, <3>2
  <2> QED  BY <2>1, <2>2
<1> QED  BY <1>a, <1>2, <1>p, <1>6, <1>7, <1>8, <1>9

LEMMA PairOfLine ==
    ASSUME NEW S, NEW a \in S, NEW v \in S, NEW z \in Seq(S)
    PROVE  /\ <<a, v>> \in Seq(S) /\ Len(<<a, v>>) = 2 /\ <<a, v>> \o z \in Seq(S)
           /\ <<a, v>> \o z = <<a>> \o (<<v>> \o z)
           /\ Len(<<a, v>> \o z) = Len(z) + 2 /\ (<<a, v>> \o z)[1] = a /\ (<<a, v>> \o z)[2] = v
<1>1. <<a, v>> \in Seq(S) /\ Len(<<a, v>>) = 2 /\ <<a>> \in Seq(S) /\ <<v>> \in Seq(S)  BY SMT
<1>2. <<a, v>> = <<a>> \o <<v>>  BY Two
<1>3. PICK vz \in Seq(S) : vz = <<v>> \o z /\ Len(vz) = Len(z) + 1 /\ vz[1] = v  BY HeadOfLine
<1>n. PICK n \in Nat : n = Len(z)  BY LenProperties
<1>4. <<a, v>> \o z = <<a>> \o vz  BY <1>1, <1>2, <1>3, ConcatAssociative
<1>5. vz # <<>>
  <2>1. Len(vz) # 0  BY <1>3, <1>n
  <2> QED  BY <2>1, EmptySeq
<1>6. /\ <<a>> \o vz \in Seq(S) /\ Len(<<a>> \o vz) = Len(vz) + 1 /\ (<<a>> \o vz)[1] = a
      /\ (<<a>> \o vz)[2] = vz[1]
  BY <1>5, HeadOfLine
<1>7. Len(<<a>> \o vz) = Len(z) + 2  BY <1>3, <1>6, <1>n
<1> QED  BY <1>1, <1>3, <1>4, <1>6, <1>7, Zenon

LEMMA PairSlice ==
    ASSUME NEW S, NEW a \in S, NEW v \in S, NEW z \in Seq(S)
    PROVE  SubSeq(<<a, v>> \o z, 1, 2) = <<a, v>>
<1>n. PICK n \in Nat : n = Len(z)  BY LenProperties
<1>1. PICK vz \in Seq(S) : vz = <<v>> \o z /\ vz # <<>> /\ vz[1] = v
  <2>1. Len(<<v>> \o z) = n + 1 /\ <<v>> \o z \in Seq(S) /\ (<<v>> \o z)[1] = v  BY <1>n, HeadOfLine
  <2>2. <<v>> \o z # <<>>  BY <2>1, EmptySeq
  <2> QED  BY <2>1, <2>2
<1>2. <<a, v>> \o z = <<a>> \o vz  BY <1>1, PairOfLine, SMTT(40)
<1>e. vz # <<>>  BY <1>1
<1>3. /\ <<a>> \o vz \in Seq(S) /\ Len(<<a>> \o vz) = Len(vz) + 1 /\ (<<a>> \o vz)[1] = a
      /\ SubSeq(<<a>> \o vz, 1, 2) = <<a, vz[1]>> /\ (<<a>> \o vz)[2] = vz[1]
  BY <1>e, HeadOfLine
<1> QED  BY <1>1, <1>2, <1>3

LEMMA PartitionPair ==
    ASSUME NEW a \in Arg, NEW v \in Arg, NEW z \in Seq(Arg), NEW bools,
           a # End, a.dashes = 2, a.value = None, a.name \notin bools
    PROVE  Partition(<<a, v>> \o z, bools) =
              [flags |-> <<a, v>> \o Partition(z, bools).flags, words |-> Partition(z, bools).words]
<1>n. PICK n \in Nat : n = Len(z)  BY LenProperties
<1>0. /\ <<a, v>> \in Seq(Arg) /\ Len(<<a, v>>) = 2 /\ <<a, v>> \o z \in Seq(Arg)
      /\ Len(<<a, v>> \o z) = Len(z) + 2 /\ (<<a, v>> \o z)[1] = a
  BY PairOfLine
<1>s. SubSeq(<<a, v>> \o z, 1, 2) = <<a, v>>  BY PairSlice
<1>a. PICK x \in Seq(Arg), az \in Seq(Arg) : x = <<a, v>> /\ az = x \o z  BY <1>0
<1>1. Len(x) = 2 /\ Len(az) = n + 2 /\ az[1] = a /\ SubSeq(az, 1, 2) = x  BY <1>0, <1>s, <1>n, <1>a
<1>2. PICK f : PartLoop(f, az, bools) /\ Partition(az, bools) = f[1]
  <2>1. Len(az) \in Nat  BY LenProperties
  <2>2. \E f : (\A i \in 1..(Len(az) + 1) : f[i] = PartAt(f, az, bools, i)) /\ Partition(az, bools) = f[1]
    BY <2>1, PartDef
  <2> QED  BY <2>2, Zenon DEF PartLoop
<1>p. PICK parts : parts = Partition(z, bools)  OBVIOUS
<1>3. f[3] = parts
  <2>0. PartLoop(f, x \o z, bools)  BY <1>a, <1>2
  <2>1. f[Len(x) + 1] = Partition(z, bools)  BY <2>0, PartitionShift
  <2> QED  BY <1>1, <1>p, <2>1
<1>4. f[1] = PartStep(a, Takes(az, 1, bools), From(az, 2), x, f[2], f[3])
  <2>1. 1 \in 1..(Len(az) + 1) /\ ~(1 > Len(az)) /\ 1 + 1 = 2 /\ 1 + 2 = 3  BY <1>n, <1>1
  <2>2. f[1] = PartAt(f, az, bools, 1)  BY <1>2, <2>1 DEF PartLoop
  <2>3. PartAt(f, az, bools, 1) = PartStep(az[1], Takes(az, 1, bools), From(az, 1 + 1), SubSeq(az, 1, 1 + 1),
                                           f[1 + 1], f[1 + 2])
    BY <2>1, PartAtStep, Zenon
  <2> QED  BY <1>1, <2>1, <2>2, <2>3
<1>5. Takes(az, 1, bools) = 1  BY <1>1 DEF Takes, TakesNext
<1>6. f[1] = [parts EXCEPT !.flags = x \o @]  BY <1>3, <1>4, <1>5 DEF PartStep
<1>7. parts = [flags |-> parts.flags, words |-> parts.words]
  BY <1>p, PartitionType
<1>8. f[1] = [flags |-> x \o parts.flags, words |-> parts.words]  BY <1>6, <1>7
<1> QED  BY <1>a, <1>2, <1>p, <1>8

(* The values of flags: what follows them, the text behind their =, or     *)
(* just that they are given.                                               *)
Given == {Word(a.value) : a \in Arg} \cup {Word("true"), Word("false")}

LEMMA ValueIsGiven == \A a \in Arg : \A bool : ValueOf(a.value, bool) \in Given
BY DEF ValueOf, Given

Setting == [name : {a.name : a \in Arg}, arg : Arg \cup Given]

Parsed(p) == /\ p = [error |-> p.error, set |-> p.set, words |-> p.words]
             /\ p.error \in Refusal /\ p.set \in Seq(Setting) /\ p.words \in Seq(Arg)

AddSetting(p, name, arg) ==
    [error |-> p.error, set |-> <<[name |-> name, arg |-> arg]>> \o p.set, words |-> p.words]

LEMMA AlsoAdds ==
    ASSUME NEW p, Parsed(p), NEW a \in Arg, NEW arg,
           arg \in Arg \cup Given
    PROVE  Also(p, a.name, arg) = AddSetting(p, a.name, arg) /\ Parsed(AddSetting(p, a.name, arg))
<1>s. PICK s \in Setting : s = [name |-> a.name, arg |-> arg]  BY DEF Setting
<1>1. Also(p, a.name, arg) = [p EXCEPT !.set = <<s>> \o @]  BY <1>s, Zenon DEF Also, Put
<1>2. <<s>> \o p.set \in Seq(Setting)
  <2>1. <<s>> \in Seq(Setting)  BY SMT
  <2> QED  BY <2>1, ConcatProperties DEF Parsed
<1>3. Also(p, a.name, arg) = [error |-> p.error, set |-> <<s>> \o p.set, words |-> p.words]
  BY <1>1 DEF Parsed
<1>4. AddSetting(p, a.name, arg) = [error |-> p.error, set |-> <<s>> \o p.set, words |-> p.words]
  BY <1>s DEF AddSetting
<1> QED  BY <1>2, <1>3, <1>4 DEF Parsed

LEMMA ParseType ==
    ASSUME NEW fs, NEW args \in Seq(Arg)
    PROVE  Parsed(FlagParse(fs, args))
<1>n. PICK n \in Nat : n = Len(args)  BY LenProperties
<1>1. PICK f : ParseLoop(f, fs, args) /\ FlagParse(fs, args) = f[1]
  BY <1>n, ParseDef DEF ParseLoop
<1> DEFINE D == {k \in Nat : \A i \in 1..(n + 1) : i + k > n + 1 => Parsed(f[i])}
<1>2. 0 \in D  OBVIOUS
<1>3. ASSUME NEW k \in Nat, k \in D PROVE k + 1 \in D
  <2> SUFFICES ASSUME NEW i \in 1..(n + 1), i + (k + 1) > n + 1 PROVE Parsed(f[i])  OBVIOUS
  <2>1. ASSUME NEW j \in (i + 1)..(n + 1) PROVE Parsed(f[j])
    <3>1. j \in 1..(n + 1) /\ j + k > n + 1  OBVIOUS
    <3> QED  BY <1>3, <3>1
  <2>2. f[i] = ParseAt(f, fs, args, i)  BY <1>n, <1>1 DEF ParseLoop
  <2> HIDE DEF D
  <2>3. ASSUME NEW error \in Refusal, NEW words \in Seq(Arg) PROVE Parsed(Done(error, words))
    <3>1. <<>> \in Seq(Setting)  BY EmptySeq
    <3> QED  BY <2>3, <3>1 DEF Done, Parsed
  <2>4. <<>> \in Seq(Arg) /\ None \in Refusal /\ "help" \in Refusal /\ "usage" \in Refusal
    BY EmptySeq DEF Refusal
  <2>5. From(args, i) \in Seq(Arg)
    <3>1. i \in 1..(Len(args) + 2)  BY <1>n
    <3> QED  BY <3>1, FromType
  <2>6. CASE i > n
    <3>1. f[i] = Done(None, From(args, i))  BY <1>n, <2>2, <2>6 DEF ParseAt
    <3> QED  BY <2>3, <2>4, <2>5, <3>1
  <2>7. CASE i <= n
    <3>a. PICK a \in Arg : a = args[i]
      <4>1. i \in 1..Len(args)  BY <1>n, <2>7
      <4> QED  BY <4>1, ElementOfSeq
    <3>1. f[i] = ParseStep(fs, a, LastAt(args, i), From(args, i), From(args, i + 1), args[i + 1], f[i + 1], f[i + 2])
      <4>1. ~(i > Len(args))  BY <1>n, <2>7
      <4> QED  BY <2>2, <3>a, <4>1, ParseAtStep, Zenon
    <3>2. From(args, i + 1) \in Seq(Arg)
      <4>1. i + 1 \in 1..(Len(args) + 2)  BY <1>n
      <4> QED  BY <4>1, FromType
    <3>3. Parsed(f[i + 1])
      <4>1. i + 1 \in (i + 1)..(n + 1)  BY <2>7
      <4> QED  BY <2>1, <4>1
    <3> DEFINE Values == Arg \cup Given
    <3>w. ValueOf(a.value, fs[a.name]) \in Values /\ Word("true") \in Values
      BY ValueIsGiven DEF Given
    <3>4. LastAt(args, i) # 1 => Parsed(f[i + 2]) /\ args[i + 1] \in Values
      <4> SUFFICES ASSUME i # n PROVE Parsed(f[i + 2]) /\ args[i + 1] \in Values  BY <1>n DEF LastAt
      <4>1. i + 2 \in (i + 1)..(n + 1) /\ i + 1 \in 1..Len(args)  BY <1>n, <2>7
      <4>2. Parsed(f[i + 2])  BY <2>1, <4>1
      <4>3. args[i + 1] \in Arg  BY <4>1, ElementOfSeq
      <4> QED  BY <4>2, <4>3
    <3>5. ASSUME NEW p, Parsed(p), NEW arg \in Values PROVE Parsed(Also(p, a.name, arg))
      <4>1. Also(p, a.name, arg) = AddSetting(p, a.name, arg) /\ Parsed(AddSetting(p, a.name, arg))
        BY <3>5, AlsoAdds
      <4> QED  BY <4>1
    <3>6. \/ \E error \in Refusal, words \in Seq(Arg) : f[i] = Done(error, words)
          \/ \E arg \in Values : f[i] = Also(f[i + 1], a.name, arg)
          \/ LastAt(args, i) # 1 /\ f[i] = Also(f[i + 2], a.name, args[i + 1])
      <4> HIDE DEF Values
      <4>1. CASE a.dashes = 0 \/ a = End \/ a.name \in Help \/ a.name \notin DOMAIN fs
        <5>1. f[i] \in {Done(None, From(args, i)), Done(None, From(args, i + 1)), Done("help", <<>>), Done("usage", <<>>)}
          BY <3>1, <4>1 DEF ParseStep
        <5> QED  BY <2>4, <2>5, <3>2, <5>1
      <4>2. CASE ~(a.dashes = 0 \/ a = End \/ a.name \in Help \/ a.name \notin DOMAIN fs)
        <5>1. \/ f[i] = Also(f[i + 1], a.name, ValueOf(a.value, fs[a.name]))
              \/ f[i] = Also(f[i + 1], a.name, Word("true"))
              \/ f[i] = Done("usage", <<>>)
              \/ LastAt(args, i) # 1 /\ f[i] = Also(f[i + 2], a.name, args[i + 1])
          BY <3>1, <4>2 DEF ParseStep
        <5> QED  BY <2>4, <3>w, <5>1
      <4> QED  BY <4>1, <4>2
    <3> HIDE DEF Values
    <3> QED  BY <2>3, <3>3, <3>4, <3>5, <3>6
  <2> QED  BY <2>6, <2>7
<1>4. Nat \subseteq D
  <2> HIDE DEF D
  <2> QED  BY <1>2, <1>3, Induct
<1>5. Parsed(f[1])
  <2>1. n + 1 \in Nat /\ 1 \in 1..(n + 1) /\ 1 + (n + 1) > n + 1  OBVIOUS
  <2>2. n + 1 \in D
    <3> HIDE DEF D
    <3> QED  BY <1>4, <2>1
  <2> QED  BY <2>1, <2>2
<1> QED  BY <1>1, <1>5

LEMMA ParseEmpty ==
    ASSUME NEW fs
    PROVE  FlagParse(fs, <<>>) = Done(None, <<>>)
<1>1. Len(<<>>) = 0 /\ From(<<>>, 1) = <<>>  BY EmptySeq, SubSeqEmpty DEF From
<1>2. PICK f : (\A i \in 1..(0 + 1) : f[i] = ParseAt(f, fs, <<>>, i)) /\ FlagParse(fs, <<>>) = f[1]
  BY <1>1, ParseDef
<1>3. f[1] = ParseAt(f, fs, <<>>, 1)  BY <1>2
<1> QED  BY <1>1, <1>2, <1>3 DEF ParseAt

LEMMA ParseHead ==
    ASSUME NEW fs, NEW a \in Arg, NEW z \in Seq(Arg)
    PROVE  LET all == FlagParse(fs, <<a>> \o z) IN
           /\ a.dashes = 0 => all = Done(None, <<a>> \o z)
           /\ a = End => all = Done(None, z)
           /\ a.dashes # 0 /\ a # End /\ a.name \in Help => all = Done("help", <<>>)
           /\ a.dashes # 0 /\ a # End /\ a.name \notin Help /\ a.name \notin DOMAIN fs => all = Done("usage", <<>>)
           /\ a.dashes # 0 /\ a # End /\ a.name \in DOMAIN fs \ Help /\ a.value # None =>
                 IF Fits(a.value, fs[a.name])
                 THEN all = AddSetting(FlagParse(fs, z), a.name, ValueOf(a.value, fs[a.name]))
                 ELSE all = Done("usage", <<>>)
           /\ a.dashes # 0 /\ a # End /\ a.name \in DOMAIN fs \ Help /\ a.value = None /\ fs[a.name] =>
                 all = AddSetting(FlagParse(fs, z), a.name, Word("true"))
<1>a. PICK az \in Seq(Arg) : az = <<a>> \o z  BY HeadOfLine
<1>1. /\ Len(az) = Len(z) + 1 /\ az[1] = a /\ From(az, 2) = z /\ Len(<<a>>) = 1 /\ <<a>> \in Seq(Arg)
      /\ From(az, 1) = az
  BY <1>a, HeadOfLine, SMTT(40)
<1>n. PICK n \in Nat : n = Len(z)  BY LenProperties
<1>2. PICK f : ParseLoop(f, fs, az) /\ FlagParse(fs, az) = f[1]
  BY <1>n, <1>1, ParseDef DEF ParseLoop
<1>p. PICK p : p = FlagParse(fs, z)  OBVIOUS
<1>3. f[2] = p
  <2>x. PICK x \in Seq(Arg) : x = <<a>>  BY <1>1
  <2>0. ParseLoop(f, fs, x \o z)  BY <1>a, <1>2, <2>x
  <2>1. f[Len(x) + 1] = FlagParse(fs, z)  BY <2>0, ParseShift
  <2> QED  BY <1>1, <1>p, <2>x, <2>1
<1>4. f[1] = ParseStep(fs, a, LastAt(az, 1), az, z, az[2], p, f[3])
  <2>1. 1 \in 1..(Len(az) + 1) /\ ~(1 > Len(az)) /\ 1 + 1 = 2 /\ 1 + 2 = 3  BY <1>n, <1>1
  <2>2. f[1] = ParseAt(f, fs, az, 1)  BY <1>2, <2>1 DEF ParseLoop
  <2>3. ParseAt(f, fs, az, 1) = ParseStep(fs, az[1], LastAt(az, 1), From(az, 1), From(az, 1 + 1), az[1 + 1],
                                          f[1 + 1], f[1 + 2])
    BY <2>1, ParseAtStep, Zenon
  <2> QED  BY <1>1, <1>3, <2>1, <2>2, <2>3
<1>5. a.dashes = 0 => f[1] = Done(None, az)  BY <1>4 DEF ParseStep
<1>6. a = End => f[1] = Done(None, z)
  <2> SUFFICES ASSUME a = End PROVE f[1] = Done(None, z)  OBVIOUS
  <2>1. a.dashes # 0  BY WordIsNotEnd
  <2> QED  BY <1>4, <2>1 DEF ParseStep
<1>7. a.dashes # 0 /\ a # End /\ a.name \in Help => f[1] = Done("help", <<>>)  BY <1>4 DEF ParseStep
<1>8. a.dashes # 0 /\ a # End /\ a.name \notin Help /\ a.name \notin DOMAIN fs => f[1] = Done("usage", <<>>)
  BY <1>4 DEF ParseStep
<1>t. Parsed(p)  BY <1>p, ParseType
<1>9. ASSUME a.dashes # 0, a # End, a.name \in DOMAIN fs \ Help
      PROVE  /\ a.value # None => IF Fits(a.value, fs[a.name])
                                  THEN f[1] = AddSetting(p, a.name, ValueOf(a.value, fs[a.name]))
                                  ELSE f[1] = Done("usage", <<>>)
             /\ a.value = None /\ fs[a.name] => f[1] = AddSetting(p, a.name, Word("true"))
  <2>1. a.value # None => IF Fits(a.value, fs[a.name])
                          THEN f[1] = Also(p, a.name, ValueOf(a.value, fs[a.name]))
                          ELSE f[1] = Done("usage", <<>>)
    BY <1>4, <1>9 DEF ParseStep
  <2>2. a.value = None /\ fs[a.name] => f[1] = Also(p, a.name, Word("true"))
    BY <1>4, <1>9 DEF ParseStep
  <2>w. PICK w \in Given, t \in Given : w = ValueOf(a.value, fs[a.name]) /\ t = Word("true")
    BY ValueIsGiven DEF Given
  <2>3. Also(p, a.name, w) = AddSetting(p, a.name, w)  BY <1>t, AlsoAdds
  <2>4. Also(p, a.name, t) = AddSetting(p, a.name, t)  BY <1>t, AlsoAdds
  <2> QED  BY <2>1, <2>2, <2>w, <2>3, <2>4
<1> QED  BY <1>a, <1>2, <1>p, <1>5, <1>6, <1>7, <1>8, <1>9

LEMMA ParsePair ==
    ASSUME NEW fs, NEW a \in Arg, NEW v \in Arg, NEW z \in Seq(Arg),
           a.dashes # 0, a # End, a.name \in DOMAIN fs \ Help, a.value = None, ~fs[a.name]
    PROVE  FlagParse(fs, <<a, v>> \o z) = AddSetting(FlagParse(fs, z), a.name, v)
<1>n. PICK n \in Nat : n = Len(z)  BY LenProperties
<1>0. /\ <<a, v>> \in Seq(Arg) /\ Len(<<a, v>>) = 2 /\ <<a, v>> \o z \in Seq(Arg)
      /\ Len(<<a, v>> \o z) = Len(z) + 2 /\ (<<a, v>> \o z)[1] = a /\ (<<a, v>> \o z)[2] = v
  BY PairOfLine
<1>a. PICK x \in Seq(Arg), az \in Seq(Arg) : x = <<a, v>> /\ az = x \o z  BY <1>0
<1>1. Len(x) = 2 /\ Len(az) = Len(z) + 2 /\ az[1] = a /\ az[2] = v  BY <1>0, <1>a
<1>2. PICK f : ParseLoop(f, fs, az) /\ FlagParse(fs, az) = f[1]
  BY <1>n, <1>1, ParseDef DEF ParseLoop
<1>p. PICK p : p = FlagParse(fs, z)  OBVIOUS
<1>3. f[3] = p
  <2>0. ParseLoop(f, fs, x \o z)  BY <1>a, <1>2
  <2>1. f[Len(x) + 1] = FlagParse(fs, z)  BY <2>0, ParseShift
  <2> QED  BY <1>1, <1>p, <2>1
<1>4. f[1] = ParseStep(fs, a, LastAt(az, 1), From(az, 1), From(az, 2), v, f[2], p)
  <2>1. 1 \in 1..(Len(az) + 1) /\ ~(1 > Len(az)) /\ 1 + 1 = 2 /\ 1 + 2 = 3  BY <1>n, <1>1
  <2>2. f[1] = ParseAt(f, fs, az, 1)  BY <1>2, <2>1 DEF ParseLoop
  <2>3. ParseAt(f, fs, az, 1) = ParseStep(fs, az[1], LastAt(az, 1), From(az, 1), From(az, 1 + 1), az[1 + 1],
                                          f[1 + 1], f[1 + 2])
    BY <2>1, ParseAtStep, Zenon
  <2> QED  BY <1>1, <1>3, <2>1, <2>2, <2>3
<1>5. LastAt(az, 1) # 1  BY <1>n, <1>1 DEF LastAt
<1>6. f[1] = Also(p, a.name, v)  BY <1>4, <1>5 DEF ParseStep
<1>7. Parsed(p)  BY <1>p, ParseType
<1>8. Also(p, a.name, v) = AddSetting(p, a.name, v)  BY <1>7, AlsoAdds
<1> QED  BY <1>a, <1>2, <1>p, <1>6, <1>8

-----------------------------------------------------------------------------
(* Induction over sequences, for the set of those that something holds of. *)
LEMMA FirstAndRest ==
    ASSUME NEW S, NEW s \in Seq(S), s # <<>>
    PROVE  s[1] \in S /\ Tail(s) \in Seq(S) /\ Len(Tail(s)) = Len(s) - 1 /\ s = <<s[1]>> \o Tail(s)
<1>n. PICK n \in Nat : n = Len(s) /\ n >= 1  BY EmptySeq, LenProperties
<1>1. 1 \in 1..Len(s) /\ Len(s) \in 1..Len(s) /\ 1 + 1 = 2  BY <1>n
<1>2. SubSeq(s, 1, Len(s)) = <<s[1]>> \o SubSeq(s, 1 + 1, Len(s))  BY <1>1, SubSeqRecursiveFirst
<1>3. SubSeq(s, 1, Len(s)) = s  BY SubSeqFull
<1>4. Tail(s) = SubSeq(s, 2, Len(s))  BY TailIsSubSeq
<1>5. s[1] \in S  BY <1>1, ElementOfSeq
<1>6. Tail(s) \in Seq(S) /\ Len(Tail(s)) = Len(s) - 1  BY HeadTailProperties
<1> QED  BY <1>1, <1>2, <1>3, <1>4, <1>5, <1>6

LEMMA SeqInduct ==
    ASSUME NEW S, NEW T, <<>> \in T, \A e \in S, s \in Seq(S) : s \in T => <<e>> \o s \in T
    PROVE  Seq(S) \subseteq T
<1> DEFINE D == {n \in Nat : \A s \in Seq(S) : Len(s) = n => s \in T}
<1>1. 0 \in D
  <2>1. ASSUME NEW s \in Seq(S), Len(s) = 0 PROVE s = <<>>  BY <2>1, EmptySeq
  <2> QED  BY <2>1
<1>2. ASSUME NEW n \in Nat, n \in D PROVE n + 1 \in D
  <2> SUFFICES ASSUME NEW s \in Seq(S), Len(s) = n + 1 PROVE s \in T  OBVIOUS
  <2>1. s # <<>>  BY EmptySeq
  <2>2. PICK e \in S, t \in Seq(S) : s = <<e>> \o t /\ Len(t) = Len(s) - 1  BY <2>1, FirstAndRest
  <2>3. Len(t) = n  BY <2>2
  <2>4. t \in T  BY <1>2, <2>3
  <2> QED  BY <2>2, <2>4
<1>3. Nat \subseteq D
  <2> HIDE DEF D
  <2> QED  BY <1>1, <1>2, Induct
<1>4. ASSUME NEW s \in Seq(S) PROVE s \in T
  <2>1. Len(s) \in D
    <3> HIDE DEF D
    <3> QED  BY <1>3, LenProperties
  <2> QED  BY <2>1
<1> QED  BY <1>4

LEMMA FlattenOne ==
    ASSUME NEW S, NEW s \in Seq(S)
    PROVE  FlattenSeq(<<s>>) = s
<1>1. <<>> \in Seq(Seq(S)) /\ Append(<<>>, s) = <<s>>  BY EmptySeq, SMT
<1>2. FlattenSeq(Append(<<>>, s)) = FlattenSeq(<<>>) \o s  BY <1>1, FlattenAppend
<1>3. FlattenSeq(<<>>) = <<>>  BY <1>1, FlattenType
<1>4. <<>> \o s = s  BY ConcatEmptySeq
<1> QED  BY <1>1, <1>2, <1>3, <1>4, Zenon

LEMMA FlattenHead ==
    ASSUME NEW S, NEW e \in Seq(S), NEW s \in Seq(Seq(S))
    PROVE  FlattenSeq(<<e>> \o s) = e \o FlattenSeq(s)
<1>1. PICK es \in Seq(Seq(S)) : /\ es = <<e>> \o s /\ Len(es) = Len(s) + 1 /\ es[1] = e
                                /\ From(es, 2) = s
  BY HeadOfLine, ZenonT(60)
<1>2. es # <<>>
  <2>1. Len(es) # 0  BY <1>1, LenProperties
  <2> QED  BY <2>1, EmptySeq
<1>3. Tail(es) = s  BY <1>1, <1>2, TailIsSubSeq DEF From
<1>4. Head(es) = e  BY <1>1
<1>5. FlattenSeq(es) = Head(es) \o FlattenSeq(Tail(es))  BY <1>2, FlattenTail
<1> QED  BY <1>1, <1>3, <1>4, <1>5

LEMMA FlattenConcat ==
    ASSUME NEW S, NEW u \in Seq(Seq(S)), NEW v \in Seq(Seq(S))
    PROVE  FlattenSeq(u \o v) = FlattenSeq(u) \o FlattenSeq(v)
<1> DEFINE T == {s \in Seq(Seq(S)) : FlattenSeq(s \o v) = FlattenSeq(s) \o FlattenSeq(v)}
<1>v. PICK fv \in Seq(S) : fv = FlattenSeq(v)  BY FlattenType
<1>0. \A x, y, z \in Seq(S) : (x \o y) \o z = x \o (y \o z)  BY ConcatAssociative, SMTT(40)
<1>1. <<>> \in T
  <2>1. <<>> \in Seq(Seq(S)) /\ <<>> \o v = v  BY EmptySeq, ConcatEmptySeq
  <2>2. FlattenSeq(<<>>) = <<>>  BY FlattenType
  <2>3. <<>> \o fv = fv  BY ConcatEmptySeq
  <2> QED  BY <1>v, <2>1, <2>2, <2>3
<1>2. ASSUME NEW e \in Seq(S), NEW s \in Seq(Seq(S)), s \in T PROVE <<e>> \o s \in T
  <2>1. PICK x \in Seq(Seq(S)), sv \in Seq(Seq(S)), xs \in Seq(Seq(S)) : x = <<e>> /\ sv = s \o v /\ xs = x \o s
    <3>1. <<e>> \in Seq(Seq(S))  BY SMT
    <3>2. PICK y \in Seq(Seq(S)) : y = <<e>>  BY <3>1
    <3> QED  BY <3>2, ConcatProperties
  <2>2. xs \o v = x \o sv  BY <2>1, ConcatAssociative
  <2>s. PICK fs \in Seq(S) : fs = FlattenSeq(s)  BY FlattenType
  <2>3. FlattenSeq(x \o sv) = e \o FlattenSeq(sv)  BY <2>1, FlattenHead
  <2>4. FlattenSeq(sv) = fs \o fv  BY <1>2, <1>v, <2>1, <2>s
  <2>5. FlattenSeq(xs) = e \o fs  BY <2>1, <2>s, FlattenHead
  <2>6. (e \o fs) \o fv = e \o (fs \o fv)  BY <1>0, Zenon
  <2>7. FlattenSeq(xs \o v) = FlattenSeq(xs) \o FlattenSeq(v)
    BY <1>v, <2>2, <2>3, <2>4, <2>5, <2>6, Zenon
  <2> QED  BY <2>1, <2>7
<1>3. Seq(Seq(S)) \subseteq T
  <2> HIDE DEF T
  <2> QED  BY <1>1, <1>2, SeqInduct
<1> QED  BY <1>3

-----------------------------------------------------------------------------
(* What the units of a line mean to a subcommand. *)
Bools(sub) == Help \cup (IF sub = "text" THEN {"enter"} ELSE {})
Names(sub) == OwnFlags(sub) \cup Global
Fs(sub) == [f \in Names(sub) |-> f \in Bools(sub)]

LEMMA FlagFacts ==
    ASSUME NEW sub \in Subcommand, NEW name \in Names(sub)
    PROVE  /\ name \in DOMAIN Fs(sub) \ Help
           /\ name \in Valued => name \notin Bools(sub) /\ ~Fs(sub)[name]
           /\ name \notin Valued => name \in Bools(sub) /\ Fs(sub)[name]
<1>1. name \in DOMAIN Fs(sub) /\ (Fs(sub)[name] <=> name \in Bools(sub))  BY DEF Fs
<1>2. name \notin Help
  <2>1. CASE name \in Global  BY <2>1 DEF Global, Help
  <2>2. CASE name \in OwnFlags(sub)  BY <2>2 DEF OwnFlags, Help, Subcommand
  <2> QED  BY <2>1, <2>2 DEF Names
<1>3. name \in Valued => name # "enter"  BY DEF Valued, Global
<1>4. name = "enter" => sub = "text"
  <2>1. CASE name \in Global  BY <2>1 DEF Global
  <2>2. CASE name \in OwnFlags(sub)  BY <2>2 DEF OwnFlags, Subcommand
  <2> QED  BY <2>1, <2>2 DEF Names
<1>5. name \notin Valued => name = "enter"  BY DEF Valued, Names
<1> QED  BY <1>1, <1>2, <1>3, <1>4, <1>5 DEF Bools

Units == {unit \in Seq(Arg) : IsUnit(unit)}

(* A flag that has no value of its own has a boolean one, if any. *)
Apt(a) == a.value = None \/ Fits(a.value, a.name \notin Valued)

(* The units that a subcommand knows, if its flags are Name. *)
Known(sub, Name) ==
    {unit \in Units : IF unit[1].dashes = 0 THEN sub # "list" ELSE unit[1].name \in Name /\ Apt(unit[1])}

Split(parts, f, w) == [flags |-> f \o parts.flags, words |-> w \o parts.words]
Merge(p, s) == [error |-> p.error, set |-> s \o p.set, words |-> p.words]

Splits(sub, a, f, w) ==
    \A z \in Seq(Arg) : Partition(a \o z, Bools(sub)) = Split(Partition(z, Bools(sub)), f, w)
Sets(sub, f, s) ==
    \A z \in Seq(Arg) : FlagParse(Fs(sub), f \o z) = Merge(FlagParse(Fs(sub), z), s)

Settings(Name) == {s \in Setting : s.name \in Name}

(* The arguments a, anywhere on the line, are the flags f, which say s,    *)
(* and the words w.                                                        *)
Means(sub, Name, a, f, w, s) ==
    /\ a \in Seq(Arg) /\ f \in Seq(Arg) /\ w \in Seq(Arg) /\ s \in Seq(Settings(Name))
    /\ Splits(sub, a, f, w) /\ Sets(sub, f, s)
    /\ sub = "list" => f = a /\ w = <<>>

LEMMA SettingsAreSettings ==
    ASSUME NEW Name, NEW s \in Seq(Settings(Name))
    PROVE  s \in Seq(Setting)
BY SeqMonotonic DEF Settings

LEMMA NothingMeansNothing ==
    ASSUME NEW sub, NEW Name
    PROVE  Means(sub, Name, <<>>, <<>>, <<>>, <<>>)
<1>1. <<>> \in Seq(Arg) /\ <<>> \in Seq(Settings(Name)) /\ <<>> \in Seq(Setting)  BY EmptySeq
<1>2. ASSUME NEW z \in Seq(Arg) PROVE Partition(<<>> \o z, Bools(sub)) = Split(Partition(z, Bools(sub)), <<>>, <<>>)
  <2>1. PICK p : p = Partition(z, Bools(sub))  OBVIOUS
  <2>2. p = [flags |-> p.flags, words |-> p.words] /\ p.flags \in Seq(Arg) /\ p.words \in Seq(Arg)
    BY <2>1, PartitionType
  <2>3. <<>> \o p.flags = p.flags /\ <<>> \o p.words = p.words /\ <<>> \o z = z
    BY <2>2, ConcatEmptySeq
  <2> QED  BY <2>1, <2>2, <2>3 DEF Split
<1>3. ASSUME NEW z \in Seq(Arg) PROVE FlagParse(Fs(sub), <<>> \o z) = Merge(FlagParse(Fs(sub), z), <<>>)
  <2>1. PICK p : p = FlagParse(Fs(sub), z)  OBVIOUS
  <2>2. Parsed(p)  BY <2>1, ParseType
  <2>3. <<>> \o p.set = p.set /\ <<>> \o z = z  BY <2>2, ConcatEmptySeq DEF Parsed
  <2>4. p = [error |-> p.error, set |-> p.set, words |-> p.words]  BY <2>2 DEF Parsed
  <2> QED  BY <2>1, <2>3, <2>4 DEF Merge
<1> QED  BY <1>1, <1>2, <1>3 DEF Means, Splits, Sets

LEMMA MeansConcat ==
    ASSUME NEW sub, NEW Name, NEW a, NEW f, NEW w, NEW s, NEW b, NEW g, NEW v, NEW t,
           Means(sub, Name, a, f, w, s), Means(sub, Name, b, g, v, t)
    PROVE  Means(sub, Name, a \o b, f \o g, w \o v, s \o t)
<1>1. /\ a \in Seq(Arg) /\ f \in Seq(Arg) /\ w \in Seq(Arg) /\ s \in Seq(Settings(Name))
      /\ b \in Seq(Arg) /\ g \in Seq(Arg) /\ v \in Seq(Arg) /\ t \in Seq(Settings(Name))
  BY DEF Means
<1>a. \A x, y, z \in Seq(Arg) : (x \o y) \o z = x \o (y \o z)  BY ConcatAssociative
<1>c. \A x, y, z \in Seq(Setting) : (x \o y) \o z = x \o (y \o z)  BY ConcatAssociative
<1>2. /\ a \o b \in Seq(Arg) /\ f \o g \in Seq(Arg) /\ w \o v \in Seq(Arg) /\ s \o t \in Seq(Settings(Name))
  BY <1>1, ConcatProperties
<1>3. ASSUME NEW z \in Seq(Arg)
      PROVE  Partition((a \o b) \o z, Bools(sub)) = Split(Partition(z, Bools(sub)), f \o g, w \o v)
  <2>1. PICK p : p = Partition(z, Bools(sub))  OBVIOUS
  <2>2. p.flags \in Seq(Arg) /\ p.words \in Seq(Arg)  BY <2>1, PartitionType
  <2>3. PICK bz \in Seq(Arg) : bz = b \o z  BY <1>1, ConcatProperties
  <2>a. a \in Seq(Arg) /\ b \in Seq(Arg)  BY <1>1
  <2>f. f \in Seq(Arg) /\ g \in Seq(Arg)  BY <1>1
  <2>w. w \in Seq(Arg) /\ v \in Seq(Arg)  BY <1>1
  <2>4. (a \o b) \o z = a \o bz  BY <1>a, <2>3, <2>a, ZenonT(60)
  <2>5. Partition(bz, Bools(sub)) = Split(p, g, v)  BY <2>1, <2>3 DEF Means, Splits
  <2>6. Partition(a \o bz, Bools(sub)) = Split(Split(p, g, v), f, w)  BY <2>5 DEF Means, Splits
  <2>7. /\ (f \o g) \o p.flags = f \o (g \o p.flags)
        /\ (w \o v) \o p.words = w \o (v \o p.words)
    <3>1. (f \o g) \o p.flags = f \o (g \o p.flags)  BY <1>a, <2>2, <2>f, ZenonT(60)
    <3>2. (w \o v) \o p.words = w \o (v \o p.words)  BY <1>a, <2>2, <2>w, ZenonT(60)
    <3> QED  BY <3>1, <3>2
  <2>8. Split(Split(p, g, v), f, w) = Split(p, f \o g, w \o v)  BY <2>7 DEF Split
  <2> QED  BY <2>1, <2>4, <2>6, <2>8
<1>4. ASSUME NEW z \in Seq(Arg)
      PROVE  FlagParse(Fs(sub), (f \o g) \o z) = Merge(FlagParse(Fs(sub), z), s \o t)
  <2>1. PICK p : p = FlagParse(Fs(sub), z)  OBVIOUS
  <2>2. p.set \in Seq(Setting)  BY <2>1, ParseType DEF Parsed
  <2>3. PICK gz \in Seq(Arg) : gz = g \o z  BY <1>1, ConcatProperties
  <2>f. f \in Seq(Arg) /\ g \in Seq(Arg)  BY <1>1
  <2>4. (f \o g) \o z = f \o gz  BY <1>a, <2>3, <2>f, ZenonT(60)
  <2>5. FlagParse(Fs(sub), gz) = Merge(p, t)  BY <2>1, <2>3 DEF Means, Sets
  <2>6. FlagParse(Fs(sub), f \o gz) = Merge(Merge(p, t), s)  BY <2>5 DEF Means, Sets
  <2>7. (s \o t) \o p.set = s \o (t \o p.set)
    <3>1. s \in Seq(Setting) /\ t \in Seq(Setting)  BY <1>1, SettingsAreSettings
    <3> QED  BY <1>c, <2>2, <3>1, Zenon
  <2>8. Merge(Merge(p, t), s) = Merge(p, s \o t)  BY <2>7 DEF Merge
  <2> QED  BY <2>1, <2>4, <2>6, <2>8
<1>5. sub = "list" => f \o g = a \o b /\ w \o v = <<>>
  <2>1. <<>> \o <<>> = <<>>
    <3>1. <<>> \in Seq(Arg)  BY EmptySeq
    <3> QED  BY <3>1, ConcatEmptySeq
  <2> QED  BY <2>1 DEF Means
<1> QED  BY <1>2, <1>3, <1>4, <1>5 DEF Means, Splits, Sets

LEMMA WordMeans ==
    ASSUME NEW sub, sub # "list", NEW Name, NEW a \in Arg, a.dashes = 0
    PROVE  Means(sub, Name, <<a>>, <<>>, <<a>>, <<>>)
<1>1. <<>> \in Seq(Arg) /\ <<>> \in Seq(Settings(Name))  BY EmptySeq
<1>2. <<a>> \in Seq(Arg)  BY SMT
<1>3. Sets(sub, <<>>, <<>>)
  <2>1. Means(sub, Name, <<>>, <<>>, <<>>, <<>>)  BY NothingMeansNothing
  <2> QED  BY <2>1 DEF Means
<1>4. ASSUME NEW z \in Seq(Arg)
      PROVE  Partition(<<a>> \o z, Bools(sub)) = Split(Partition(z, Bools(sub)), <<>>, <<a>>)
  <2>1. PICK p : p = Partition(z, Bools(sub))  OBVIOUS
  <2>2. p.flags \in Seq(Arg) /\ p.words \in Seq(Arg)  BY <2>1, PartitionType
  <2>3. <<>> \o p.flags = p.flags  BY <2>2, ConcatEmptySeq
  <2>4. Partition(<<a>> \o z, Bools(sub)) = [flags |-> p.flags, words |-> <<a>> \o p.words]
    BY <2>1, PartitionHead
  <2> QED  BY <2>1, <2>3, <2>4 DEF Split
<1>5. Splits(sub, <<a>>, <<>>, <<a>>)  BY <1>4 DEF Splits
<1> QED  BY <1>1, <1>2, <1>3, <1>5 DEF Means

(* The arguments of one flag. *)
LEMMA FlagMeans ==
    ASSUME NEW sub, NEW Name, NEW f \in Seq(Arg), NEW name \in Name, NEW arg,
           [name |-> name, arg |-> arg] \in Setting,
           \A z \in Seq(Arg) : /\ Partition(f \o z, Bools(sub)).flags = f \o Partition(z, Bools(sub)).flags
                               /\ Partition(f \o z, Bools(sub)).words = Partition(z, Bools(sub)).words
                               /\ FlagParse(Fs(sub), f \o z) = AddSetting(FlagParse(Fs(sub), z), name, arg)
    PROVE  Means(sub, Name, f, f, <<>>, << [name |-> name, arg |-> arg] >>)
<1>s. PICK s \in Settings(Name) : s = [name |-> name, arg |-> arg]  BY DEF Settings
<1>1. <<>> \in Seq(Arg) /\ <<s>> \in Seq(Settings(Name))  BY EmptySeq, SMT
<1>2. ASSUME NEW z \in Seq(Arg)
      PROVE  Partition(f \o z, Bools(sub)) = Split(Partition(z, Bools(sub)), f, <<>>)
  <2>0. PICK fz \in Seq(Arg) : fz = f \o z  BY ConcatProperties
  <2>1. PICK p, q : p = Partition(z, Bools(sub)) /\ q = Partition(fz, Bools(sub))  OBVIOUS
  <2>2. p.words \in Seq(Arg) /\ q = [flags |-> q.flags, words |-> q.words]  BY <2>1, PartitionType
  <2>3. <<>> \o p.words = p.words  BY <2>2, ConcatEmptySeq
  <2>4. q.flags = f \o p.flags /\ q.words = p.words  BY <2>0, <2>1
  <2> QED  BY <2>0, <2>1, <2>2, <2>3, <2>4 DEF Split
<1>3. ASSUME NEW z \in Seq(Arg)
      PROVE  FlagParse(Fs(sub), f \o z) = Merge(FlagParse(Fs(sub), z), <<s>>)
  <2>1. FlagParse(Fs(sub), f \o z) = AddSetting(FlagParse(Fs(sub), z), name, arg)  OBVIOUS
  <2> QED  BY <1>s, <2>1 DEF AddSetting, Merge
<1>4. Splits(sub, f, f, <<>>) /\ Sets(sub, f, <<s>>)  BY <1>2, <1>3 DEF Splits, Sets
<1>5. Means(sub, Name, f, f, <<>>, <<s>>)  BY <1>1, <1>4 DEF Means
<1> QED  BY <1>s, <1>5

LEMMA PairMeans ==
    ASSUME NEW sub \in Subcommand, NEW Name, Name \subseteq Names(sub), NEW a \in Arg, NEW v \in Arg,
           a # End, a.dashes = 2, a.value = None, a.name \in Valued \cap Name
    PROVE  Means(sub, Name, <<a, v>>, <<a, v>>, <<>>, << [name |-> a.name, arg |-> v] >>)
<1>1. <<a, v>> \in Seq(Arg)  BY PairOfLine, SMT
<1>f. PICK f \in Seq(Arg) : f = <<a, v>>  BY <1>1
<1>2. a.name \in Name /\ a.name \in Names(sub)  OBVIOUS
<1>3. a.name \in DOMAIN Fs(sub) \ Help /\ a.name \notin Bools(sub) /\ ~Fs(sub)[a.name]
  BY <1>2, FlagFacts
<1>4. [name |-> a.name, arg |-> v] \in Setting  BY DEF Setting
<1>5. ASSUME NEW z \in Seq(Arg)
      PROVE  /\ Partition(<<a, v>> \o z, Bools(sub)).flags = <<a, v>> \o Partition(z, Bools(sub)).flags
             /\ Partition(<<a, v>> \o z, Bools(sub)).words = Partition(z, Bools(sub)).words
             /\ FlagParse(Fs(sub), <<a, v>> \o z) = AddSetting(FlagParse(Fs(sub), z), a.name, v)
  <2>1. Partition(<<a, v>> \o z, Bools(sub)) =
              [flags |-> <<a, v>> \o Partition(z, Bools(sub)).flags, words |-> Partition(z, Bools(sub)).words]
    <3>1. a # End /\ a.dashes = 2 /\ a.value = None /\ a.name \notin Bools(sub)  BY <1>3
    <3> QED  BY <3>1, PartitionPair, ZenonT(60)
  <2>2. a.dashes # 0  OBVIOUS
  <2>3. FlagParse(Fs(sub), <<a, v>> \o z) = AddSetting(FlagParse(Fs(sub), z), a.name, v)
    BY <1>3, <2>2, ParsePair, Zenon
  <2>4. /\ Partition(<<a, v>> \o z, Bools(sub)).flags = <<a, v>> \o Partition(z, Bools(sub)).flags
        /\ Partition(<<a, v>> \o z, Bools(sub)).words = Partition(z, Bools(sub)).words
    <3>1. PICK all, r, q : /\ all = Partition(<<a, v>> \o z, Bools(sub))
                           /\ r = <<a, v>> \o Partition(z, Bools(sub)).flags /\ q = Partition(z, Bools(sub)).words
      BY Zenon
    <3>2. all = [flags |-> r, words |-> q]  BY <2>1, <3>1, Zenon
    <3>3. all.flags = r /\ all.words = q  BY <3>2
    <3> QED  BY <3>1, <3>3, Zenon
  <2> QED  BY <2>3, <2>4, Zenon
<1>6. \A z \in Seq(Arg) : /\ Partition(f \o z, Bools(sub)).flags = f \o Partition(z, Bools(sub)).flags
                          /\ Partition(f \o z, Bools(sub)).words = Partition(z, Bools(sub)).words
                          /\ FlagParse(Fs(sub), f \o z) = AddSetting(FlagParse(Fs(sub), z), a.name, v)
  BY <1>f, <1>5
<1>7. Means(sub, Name, f, f, <<>>, << [name |-> a.name, arg |-> v] >>)
  BY <1>2, <1>4, <1>6, FlagMeans
<1> QED  BY <1>f, <1>7

LEMMA SingleMeans ==
    ASSUME NEW sub \in Subcommand, NEW Name, Name \subseteq Names(sub), NEW a \in Arg,
           a # End, a.dashes \in 1..2, a.name \in Name, a.value # None \/ a.name \notin Valued, Apt(a)
    PROVE  \E arg : Means(sub, Name, <<a>>, <<a>>, <<>>, << [name |-> a.name, arg |-> arg] >>)
<1>1. <<a>> \in Seq(Arg)  BY SMT
<1>f. PICK f \in Seq(Arg) : f = <<a>>  BY <1>1
<1>2. a.name \in Names(sub)  OBVIOUS
<1>3. /\ a.name \in DOMAIN Fs(sub) \ Help
      /\ a.name \notin Valued => a.name \in Bools(sub) /\ Fs(sub)[a.name]
  BY <1>2, FlagFacts
<1>v. PICK arg : arg = IF a.value # None THEN ValueOf(a.value, Fs(sub)[a.name]) ELSE Word("true")  OBVIOUS
<1>4. [name |-> a.name, arg |-> arg] \in Setting
  <2>1. arg \in Given  BY <1>v, ValueIsGiven DEF Given
  <2> QED  BY <2>1 DEF Setting
<1>5. ASSUME NEW z \in Seq(Arg)
      PROVE  /\ Partition(<<a>> \o z, Bools(sub)).flags = <<a>> \o Partition(z, Bools(sub)).flags
             /\ Partition(<<a>> \o z, Bools(sub)).words = Partition(z, Bools(sub)).words
             /\ FlagParse(Fs(sub), <<a>> \o z) = AddSetting(FlagParse(Fs(sub), z), a.name, arg)
  <2>a. a # End /\ a.dashes \in Nat \ {0} /\ a.dashes # 0  OBVIOUS
  <2>b. a.value # None \/ a.name \in Bools(sub)  BY <1>3
  <2>1. Partition(<<a>> \o z, Bools(sub)) =
              [flags |-> <<a>> \o Partition(z, Bools(sub)).flags, words |-> Partition(z, Bools(sub)).words]
    BY <2>a, <2>b, PartitionHead, ZenonT(60)
  <2>2. CASE a.value # None
    <3>f. Fits(a.value, Fs(sub)[a.name])  BY <1>2, <2>2, FlagFacts, Zenon DEF Apt, Fits
    <3>1. FlagParse(Fs(sub), <<a>> \o z) = AddSetting(FlagParse(Fs(sub), z), a.name, ValueOf(a.value, Fs(sub)[a.name]))
      BY <1>3, <2>2, <2>a, <3>f, ParseHead, Zenon
    <3> QED  BY <1>v, <2>1, <2>2, <3>1
  <2>3. CASE a.value = None
    <3>1. FlagParse(Fs(sub), <<a>> \o z) = AddSetting(FlagParse(Fs(sub), z), a.name, Word("true"))
      BY <1>3, <2>3, <2>a, ParseHead, Zenon
    <3> QED  BY <1>v, <2>1, <2>3, <3>1
  <2> QED  BY <2>2, <2>3
<1>6. \A z \in Seq(Arg) : /\ Partition(f \o z, Bools(sub)).flags = f \o Partition(z, Bools(sub)).flags
                          /\ Partition(f \o z, Bools(sub)).words = Partition(z, Bools(sub)).words
                          /\ FlagParse(Fs(sub), f \o z) = AddSetting(FlagParse(Fs(sub), z), a.name, arg)
  BY <1>f, <1>5
<1>7. Means(sub, Name, f, f, <<>>, << [name |-> a.name, arg |-> arg] >>)  BY <1>4, <1>6, FlagMeans
<1> QED  BY <1>f, <1>7

LEMMA DashesOfArg == \A a \in Arg : a.dashes \in 0..2
<1>1. ASSUME NEW a \in Argument PROVE a.dashes \in 0..2  BY <1>1 DEF Argument
<1>2. /\ End.dashes = 2 /\ Flag("help").dashes = 2 /\ Flag("tmux-socket").dashes = 2
      /\ Word("sock").dashes = 0
  BY Zenon DEF End, Flag, Word
<1>3. 0 \in 0..2 /\ 2 \in 0..2  OBVIOUS
<1> QED  BY <1>1, <1>2, <1>3, Zenon DEF Arg

LEMMA UnitShape ==
    ASSUME NEW u \in Units
    PROVE  /\ u[1] \in Arg /\ u[1] # End /\ u[1].dashes \in 0..2
           /\ \/ u = <<u[1]>> /\ (u[1].dashes = 0 \/ u[1].value # None \/ u[1].name \notin Valued)
              \/ /\ u = <<u[1], u[2]>> /\ u[2] \in Arg
                 /\ u[1].dashes = 2 /\ u[1].value = None /\ u[1].name \in Valued
<1>1. u \in Seq(Arg) /\ IsUnit(u)  BY DEF Units
<1>2. u[1] # End  BY <1>1, Zenon DEF IsUnit
<1>3. CASE Len(u) = 1
  <2>1. 1 \in 1..Len(u)  BY <1>3
  <2>2. u[1] \in Arg  BY <1>1, <2>1, ElementOfSeq
  <2>3. u = <<u[1]>>
    <3>1. <<u[1]>> \in Seq(Arg) /\ Len(<<u[1]>>) = 1 /\ <<u[1]>>[1] = u[1]  BY <2>2, One, SMT
    <3> QED  BY <1>1, <1>3, <3>1, SeqEqual
  <2>4. u[1].dashes = 0 \/ u[1].value # None \/ u[1].name \notin Valued
    BY <1>1, <1>3 DEF IsUnit
  <2>5. u[1].dashes \in 0..2  BY <2>2, DashesOfArg
  <2> QED  BY <1>2, <2>2, <2>3, <2>4, <2>5
<1>4. CASE Len(u) = 2
  <2>1. 1 \in 1..Len(u) /\ 2 \in 1..Len(u)  BY <1>4
  <2>2. u[1] \in Arg /\ u[2] \in Arg  BY <1>1, <2>1, ElementOfSeq
  <2>3. u = <<u[1], u[2]>>
    <3>x. PICK x \in Arg, y \in Arg : x = u[1] /\ y = u[2]  BY <2>2
    <3>1. <<x, y>> \in Seq(Arg) /\ Len(<<x, y>>) = 2 /\ <<x, y>>[1] = x /\ <<x, y>>[2] = y
      BY Two, SMT
    <3>2. u = <<x, y>>  BY <1>1, <1>4, <3>x, <3>1, SeqEqual
    <3> QED  BY <3>x, <3>2
  <2>4. u[1].dashes = 2 /\ u[1].value = None /\ u[1].name \in Valued
    BY <1>1, <1>4 DEF IsUnit
  <2> QED  BY <1>2, <2>2, <2>3, <2>4
<1> QED  BY <1>1, <1>3, <1>4 DEF IsUnit

LEMMA UnitMeans ==
    ASSUME NEW sub \in Subcommand, NEW Name, Name \subseteq Names(sub), NEW u \in Known(sub, Name)
    PROVE  \E f, w, s : /\ Means(sub, Name, u, f, w, s)
                        /\ IF u[1].dashes = 0 THEN f = <<>> /\ w = u /\ s = <<>> ELSE f = u /\ w = <<>>
<1>1. u \in Units /\ IF u[1].dashes = 0 THEN sub # "list" ELSE u[1].name \in Name /\ Apt(u[1])  BY DEF Known
<1>2. /\ u[1] \in Arg /\ u[1] # End /\ u[1].dashes \in 0..2
      /\ \/ u = <<u[1]>> /\ (u[1].dashes = 0 \/ u[1].value # None \/ u[1].name \notin Valued)
         \/ /\ u = <<u[1], u[2]>> /\ u[2] \in Arg
            /\ u[1].dashes = 2 /\ u[1].value = None /\ u[1].name \in Valued
  BY <1>1, UnitShape
<1>a. PICK a \in Arg : a = u[1]  BY <1>2
<1>3. CASE a.dashes = 0
  <2>1. u = <<a>> /\ sub # "list"  BY <1>1, <1>2, <1>3, <1>a
  <2>2. Means(sub, Name, <<a>>, <<>>, <<a>>, <<>>)  BY <1>3, <2>1, WordMeans
  <2>3. Means(sub, Name, u, <<>>, u, <<>>)  BY <2>1, <2>2
  <2> QED  BY <1>3, <1>a, <2>3
<1>4. CASE a.dashes # 0 /\ u = <<a>>
  <2>1. a.dashes \in 1..2 /\ a.name \in Name /\ Apt(a)  BY <1>1, <1>2, <1>4, <1>a
  <2>2. a # End /\ (a.value # None \/ a.name \notin Valued)
    <3>1. CASE a.value # None  BY <1>2, <1>a, <3>1
    <3>2. CASE u = <<u[1], u[2]>> /\ u[2] \in Arg
      <4>b. PICK b \in Arg : b = u[2]  BY <3>2
      <4>1. Len(<<a>>) = 1 /\ Len(<<a, b>>) = 2  BY One, Two
      <4>2. <<a>> = <<a, b>>  BY <1>4, <1>a, <3>2, <4>b
      <4> QED  BY <4>1, <4>2
    <3> QED  BY <1>2, <1>4, <1>a, <3>1, <3>2
  <2>3. \E arg : Means(sub, Name, <<a>>, <<a>>, <<>>, << [name |-> a.name, arg |-> arg] >>)
    BY <2>1, <2>2, SingleMeans
  <2>4. PICK s : Means(sub, Name, <<a>>, <<a>>, <<>>, s)  BY <2>3
  <2>5. Means(sub, Name, u, u, <<>>, s)  BY <1>4, <2>4
  <2> QED  BY <1>4, <1>a, <2>5
<1>5. CASE a.dashes # 0 /\ u # <<a>>
  <2>b. PICK b \in Arg : u = <<a, b>> /\ a.dashes = 2 /\ a.value = None /\ a.name \in Valued
    BY <1>2, <1>5, <1>a
  <2>1. a # End /\ a.name \in Valued \cap Name  BY <1>1, <1>2, <1>5, <1>a, <2>b
  <2>2. Means(sub, Name, <<a, b>>, <<a, b>>, <<>>, << [name |-> a.name, arg |-> b] >>)
    BY <2>b, <2>1, PairMeans
  <2>3. PICK s : Means(sub, Name, u, u, <<>>, s)  BY <2>b, <2>2
  <2> QED  BY <1>5, <1>a, <2>3
<1> QED  BY <1>3, <1>4, <1>5

LEMMA LineMeans ==
    ASSUME NEW sub \in Subcommand, NEW Name, Name \subseteq Names(sub), NEW units \in Seq(Known(sub, Name))
    PROVE  \E f, w, s : Means(sub, Name, Words(units), f, w, s)
<1> DEFINE T == {line \in Seq(Known(sub, Name)) : \E f, w, s : Means(sub, Name, Words(line), f, w, s)}
<1>1. <<>> \in T
  <2>1. <<>> \in Seq(Known(sub, Name)) /\ <<>> \in Seq(Seq(Arg))  BY EmptySeq
  <2>2. Words(<<>>) = <<>>  BY <2>1, FlattenType DEF Words
  <2>3. Means(sub, Name, Words(<<>>), <<>>, <<>>, <<>>)  BY <2>2, NothingMeansNothing
  <2> QED  BY <2>1, <2>3
<1>2. ASSUME NEW u \in Known(sub, Name), NEW line \in Seq(Known(sub, Name)), line \in T PROVE <<u>> \o line \in T
  <2>1. <<u>> \o line \in Seq(Known(sub, Name))
    <3>1. <<u>> \in Seq(Known(sub, Name))  BY SMT
    <3>2. PICK x \in Seq(Known(sub, Name)) : x = <<u>>  BY <3>1
    <3> QED  BY <3>2, ConcatProperties
  <2>2. Words(<<u>> \o line) = u \o Words(line)
    <3>1. Known(sub, Name) \subseteq Seq(Arg)  BY DEF Known, Units
    <3>2. u \in Seq(Arg) /\ line \in Seq(Seq(Arg))  BY <3>1, SeqMonotonic
    <3> QED  BY <3>2, FlattenHead DEF Words
  <2>3. PICK f, w, s : Means(sub, Name, u, f, w, s)  BY UnitMeans
  <2>4. PICK g, v, t : Means(sub, Name, Words(line), g, v, t)  BY <1>2
  <2>5. Means(sub, Name, u \o Words(line), f \o g, w \o v, s \o t)  BY <2>3, <2>4, MeansConcat
  <2>6. Means(sub, Name, Words(<<u>> \o line), f \o g, w \o v, s \o t)  BY <2>2, <2>5
  <2> QED  BY <2>1, <2>6
<1>3. Seq(Known(sub, Name)) \subseteq T
  <2> HIDE DEF T
  <2> QED  BY <1>1, <1>2, SeqInduct
<1> QED  BY <1>3

-----------------------------------------------------------------------------
(* What Submit makes of a line. *)
Judgment(sub, parsed) ==
    IF parsed.error # None THEN Refuse(parsed.error)
    ELSE IF \/ ~WordsFit(sub, Len(parsed.words))
            \/ sub # "list" /\ \A p \in PaneId : Option(parsed, "pane") # <<Word(p)>>
            \/ \A g \in Global : Option(parsed, g) # <<>>
         THEN Refuse("invalid")
    ELSE [verdict |-> "call", op |-> sub, server |-> Server(parsed), words |-> parsed.words,
          options |-> [f \in OwnFlags(sub) |-> Option(parsed, f)]]

LEMMA SubmitJudges ==
    ASSUME NEW sub, NEW args
    PROVE  Submit(sub, args) =
              Judgment(sub, FlagParse(Fs(sub), IF sub = "list" THEN args ELSE ReorderArgs(args, Bools(sub))))
BY DEF Submit, Judgment, Fs, Names, Bools

LEMMA JudgedCall ==
    ASSUME NEW sub, NEW p, p.error \in Refusal, Judgment(sub, p).verdict = "call"
    PROVE  /\ p.error = None
           /\ WordsFit(sub, Len(p.words))
           /\ Judgment(sub, p).words = p.words
<1>1. CASE p.error # None
  <2>1. Judgment(sub, p).verdict = p.error  BY <1>1 DEF Judgment, Refuse
  <2> QED  BY <2>1 DEF Refusal, None
<1>2. CASE p.error = None
  <2>1. WordsFit(sub, Len(p.words))  BY <1>2 DEF Judgment, Refuse
  <2>2. Judgment(sub, p).words = p.words  BY <1>2 DEF Judgment, Refuse
  <2> QED  BY <1>2, <2>1, <2>2
<1> QED  BY <1>1, <1>2

(* The end of a line: nothing, or a -- and the words behind it. *)
EndsWith(d, b) == d \in Seq(Arg) /\ b \in Seq(Arg) /\ ((d = <<>> /\ b = <<>>) \/ d = <<End>> \o b)

Meant(s, w, b) == [error |-> None, set |-> s, words |-> w \o b]

LEMMA Meaning ==
    ASSUME NEW sub, NEW Name, NEW a, NEW f, NEW w, NEW s, NEW d, NEW b,
           Means(sub, Name, a, f, w, s), EndsWith(d, b)
    PROVE  Submit(sub, a \o d) = Judgment(sub, Meant(s, w, b))
<1>m. Meant(s, w, b) = [error |-> None, set |-> s, words |-> w \o b]  BY DEF Meant
<1>1. a \in Seq(Arg) /\ f \in Seq(Arg) /\ w \in Seq(Arg) /\ s \in Seq(Setting)
  BY SettingsAreSettings DEF Means
<1>2. d \in Seq(Arg) /\ b \in Seq(Arg)  BY DEF EndsWith
<1>e. \A x \in Seq(Arg) : x \o <<>> = x /\ <<>> \o x = x  BY ConcatEmptySeq
<1>f. s \o <<>> = s  BY <1>1, ConcatEmptySeq
<1>3. ASSUME NEW z \in Seq(Arg), FlagParse(Fs(sub), z) = Done(None, b)
      PROVE  FlagParse(Fs(sub), f \o z) = [error |-> None, set |-> s, words |-> b]
  <2>1. FlagParse(Fs(sub), f \o z) = Merge(Done(None, b), s)  BY <1>3 DEF Means, Sets
  <2> QED  BY <1>f, <2>1 DEF Merge, Done
<1>4. CASE sub = "list"
  <2>1. f = a /\ w = <<>>  BY <1>4 DEF Means
  <2>2. FlagParse(Fs(sub), d) = Done(None, b)
    <3>1. CASE d = <<>> /\ b = <<>>  BY <3>1, ParseEmpty
    <3>2. CASE d = <<End>> \o b
      <4>1. End \in Arg  BY EndIsArg
      <4>2. PICK e \in Arg : e = End  BY <4>1
      <4>3. FlagParse(Fs(sub), <<e>> \o b) = Done(None, b)  BY <1>2, <4>2, ParseHead
      <4> QED  BY <3>2, <4>2, <4>3
    <3> QED  BY <3>1, <3>2 DEF EndsWith
  <2>3. FlagParse(Fs(sub), a \o d) = [error |-> None, set |-> s, words |-> b]
    BY <1>2, <1>3, <2>1, <2>2
  <2>4. w \o b = b  BY <1>2, <1>e, <2>1
  <2> QED  BY <1>4, <1>m, <2>3, <2>4, SubmitJudges
<1>5. CASE sub # "list"
  <2>p. PICK p : p = Partition(d, Bools(sub))  OBVIOUS
  <2>1. p.flags = <<>> /\ p.words = b
    <3>1. CASE d = <<>> /\ b = <<>>  BY <2>p, <3>1, PartitionEmpty
    <3>2. CASE d = <<End>> \o b
      <4>1. End \in Arg  BY EndIsArg
      <4>2. PICK e \in Arg : e = End  BY <4>1
      <4>3. Partition(<<e>> \o b, Bools(sub)) = [flags |-> <<>>, words |-> b]
        BY <1>2, <4>2, PartitionHead
      <4> QED  BY <2>p, <3>2, <4>2, <4>3
    <3> QED  BY <3>1, <3>2 DEF EndsWith
  <2>2. Partition(a \o d, Bools(sub)) = [flags |-> f, words |-> w \o b]
    <3>1. Partition(a \o d, Bools(sub)) = Split(p, f, w)  BY <1>2, <2>p DEF Means, Splits
    <3>2. f \o <<>> = f  BY <1>1, <1>e
    <3> QED  BY <2>1, <3>1, <3>2 DEF Split
  <2>w. PICK wb \in Seq(Arg) : wb = w \o b  BY <1>1, <1>2, ConcatProperties
  <2>e. PICK e \in Arg : e = End  BY EndIsArg
  <2>3. ReorderArgs(a \o d, Bools(sub)) = f \o <<e>> \o wb
    <3>1. ReorderArgs(a \o d, Bools(sub)) = Separate([flags |-> f, words |-> wb])
      BY <2>2, <2>w DEF ReorderArgs
    <3>2. Separate([flags |-> f, words |-> wb]) = f \o <<End>> \o wb  BY DEF Separate
    <3> QED  BY <2>e, <3>1, <3>2, Zenon
  <2>4. PICK ewb \in Seq(Arg) : ewb = <<e>> \o wb /\ f \o <<e>> \o wb = f \o ewb
    <3>1. PICK x \in Seq(Arg) : x = <<e>>
      <4>1. <<e>> \in Seq(Arg)  BY SMT
      <4> QED  BY <4>1
    <3>2. x \o wb \in Seq(Arg)  BY ConcatProperties
    <3>g. PICK g \in Seq(Arg) : g = f  BY <1>1
    <3>3. (g \o x) \o wb = g \o (x \o wb)  BY ConcatAssociative
    <3> QED  BY <3>1, <3>2, <3>3, <3>g
  <2>5. FlagParse(Fs(sub), ewb) = Done(None, wb)  BY <2>4, <2>e, ParseHead
  <2>6. FlagParse(Fs(sub), f \o ewb) = [error |-> None, set |-> s, words |-> wb]
    <3>1. FlagParse(Fs(sub), f \o ewb) = Merge(Done(None, wb), s)  BY <2>5 DEF Means, Sets
    <3> QED  BY <1>f, <3>1 DEF Merge, Done
  <2> QED  BY <1>5, <1>m, <2>3, <2>4, <2>6, <2>w, SubmitJudges
<1> QED  BY <1>4, <1>5

(* A line with a unit that the subcommand does not know is refused,        *)
(* whatever stands behind it.                                              *)
Hopeless(sub, a) ==
    IF sub = "list"
    THEN \A z \in Seq(Arg) : FlagParse(Fs(sub), a \o z).error # None \/ FlagParse(Fs(sub), a \o z).words # <<>>
    ELSE \A z, y \in Seq(Arg) : FlagParse(Fs(sub), Partition(a \o z, Bools(sub)).flags \o y).error # None

LEMMA RegroupArg == \A x, y, z \in Seq(Arg) : (x \o y) \o z = x \o (y \o z)
BY ConcatAssociative

LEMMA UnknownFlag ==
    ASSUME NEW sub \in Subcommand, NEW a \in Arg, a # End, a.dashes # 0, a.name \notin Names(sub) \/ ~Apt(a),
           NEW z \in Seq(Arg)
    PROVE  FlagParse(Fs(sub), <<a>> \o z).error # None
<1>2. CASE a.name \in Help
  <2>1. FlagParse(Fs(sub), <<a>> \o z) = Done("help", <<>>)  BY <1>2, ParseHead
  <2> QED  BY <2>1 DEF Done, None
<1>3. CASE a.name \notin Help /\ a.name \notin Names(sub)
  <2>1. a.name \notin DOMAIN Fs(sub)  BY <1>3 DEF Fs
  <2>2. FlagParse(Fs(sub), <<a>> \o z) = Done("usage", <<>>)  BY <1>3, <2>1, ParseHead
  <2> QED  BY <2>2 DEF Done, None
<1>4. CASE a.name \notin Help /\ a.name \in Names(sub)
  <2>1. a.value # None /\ ~Fits(a.value, a.name \notin Valued)  BY <1>4, Zenon DEF Apt
  <2>2. a.name \in DOMAIN Fs(sub) \ Help /\ ~Fits(a.value, Fs(sub)[a.name])
    BY <1>4, <2>1, FlagFacts, Zenon DEF Fits
  <2>3. FlagParse(Fs(sub), <<a>> \o z) = Done("usage", <<>>)  BY <2>1, <2>2, ParseHead, Zenon
  <2> QED  BY <2>3 DEF Done, None
<1> QED  BY <1>2, <1>3, <1>4

LEMMA HopelessHead ==
    ASSUME NEW sub \in Subcommand, NEW a \in Arg, a # End, a.dashes \in 0..2, NEW rest \in Seq(Arg),
           IF a.dashes = 0 THEN sub = "list" ELSE a.name \notin Names(sub) \/ ~Apt(a)
    PROVE  Hopeless(sub, <<a>> \o rest)
<1>x. PICK x \in Seq(Arg) : x = <<a>>
  <2>1. <<a>> \in Seq(Arg)  BY SMT
  <2> QED  BY <2>1
<1>1. ASSUME NEW z \in Seq(Arg) PROVE rest \o z \in Seq(Arg) /\ (<<a>> \o rest) \o z = <<a>> \o (rest \o z)
  <2>1. (x \o rest) \o z = x \o (rest \o z)  BY ConcatAssociative
  <2> QED  BY <1>x, <2>1, ConcatProperties
<1>2. CASE sub = "list"
  <2>1. ASSUME NEW z \in Seq(Arg)
        PROVE  \/ FlagParse(Fs(sub), (<<a>> \o rest) \o z).error # None
               \/ FlagParse(Fs(sub), (<<a>> \o rest) \o z).words # <<>>
    <3>1. PICK y \in Seq(Arg) : (<<a>> \o rest) \o z = <<a>> \o y  BY <1>1
    <3>2. CASE a.dashes = 0
      <4>1. FlagParse(Fs(sub), <<a>> \o y) = Done(None, <<a>> \o y)  BY <3>2, ParseHead
      <4>2. PICK ay \in Seq(Arg) : ay = <<a>> \o y
        <5>1. <<a>> \o y \in Seq(Arg)  BY HeadOfLine
        <5> QED  BY <5>1
      <4>3. ay # <<>>
        <5>1. Len(<<a>> \o y) = Len(y) + 1  BY HeadOfLine
        <5>2. Len(ay) # 0  BY <4>2, <5>1, LenProperties
        <5> QED  BY <5>2, EmptySeq
      <4>4. FlagParse(Fs(sub), <<a>> \o y).words = ay
        <5>1. FlagParse(Fs(sub), <<a>> \o y) = Done(None, ay)  BY <4>1, <4>2, Zenon
        <5> QED  BY <5>1 DEF Done
      <4> QED  BY <3>1, <4>3, <4>4
    <3>3. CASE a.dashes # 0
      <4>1. FlagParse(Fs(sub), <<a>> \o y).error # None  BY <3>3, UnknownFlag
      <4> QED  BY <3>1, <4>1
    <3> QED  BY <3>2, <3>3
  <2> QED  BY <1>2, <2>1 DEF Hopeless
<1>3. CASE sub # "list"
  <2>0. a.dashes # 0 /\ a.dashes \in Nat \ {0} /\ (a.name \notin Names(sub) \/ ~Apt(a))  BY <1>3
  <2>1. ASSUME NEW z \in Seq(Arg), NEW y \in Seq(Arg)
        PROVE  FlagParse(Fs(sub), Partition((<<a>> \o rest) \o z, Bools(sub)).flags \o y).error # None
    <3>1. PICK v \in Seq(Arg) : (<<a>> \o rest) \o z = <<a>> \o v  BY <1>1
    <3>2. PICK r \in Seq(Arg) : Partition(<<a>> \o v, Bools(sub)).flags = <<a>> \o r
      BY <2>0, PartitionHead, ZenonT(60)
    <3>3. PICK ry \in Seq(Arg) : ry = r \o y  BY ConcatProperties
    <3>4. (x \o r) \o y = x \o ry  BY <3>3, ConcatAssociative, SMTT(40)
    <3>5. FlagParse(Fs(sub), <<a>> \o ry).error # None  BY <2>0, UnknownFlag
    <3> QED  BY <1>x, <3>1, <3>2, <3>4, <3>5
  <2> QED  BY <1>3, <2>1 DEF Hopeless
<1> QED  BY <1>2, <1>3

LEMMA HopelessBehind ==
    ASSUME NEW sub, NEW Name, NEW a, NEW f, NEW w, NEW s, Means(sub, Name, a, f, w, s),
           NEW b \in Seq(Arg), Hopeless(sub, b)
    PROVE  Hopeless(sub, a \o b)
<1>x. PICK x \in Seq(Arg), y \in Seq(Arg) : x = a /\ y = f  BY DEF Means
<1>r. \A u, v \in Seq(Arg) : (y \o u) \o v = y \o (u \o v)  BY RegroupArg
<1>1. ASSUME NEW z \in Seq(Arg) PROVE b \o z \in Seq(Arg) /\ (a \o b) \o z = a \o (b \o z)
  <2>1. (x \o b) \o z = x \o (b \o z)  BY ConcatAssociative, SMTT(40)
  <2> QED  BY <1>x, <2>1, ConcatProperties
<1>2. CASE sub = "list"
  <2>0. f = a  BY <1>2 DEF Means
  <2>1. ASSUME NEW z \in Seq(Arg)
        PROVE  \/ FlagParse(Fs(sub), (a \o b) \o z).error # None
               \/ FlagParse(Fs(sub), (a \o b) \o z).words # <<>>
    <3>1. PICK bz \in Seq(Arg) : bz = b \o z /\ (a \o b) \o z = a \o bz  BY <1>1
    <3>2. FlagParse(Fs(sub), a \o bz) = Merge(FlagParse(Fs(sub), bz), s)  BY <2>0 DEF Means, Sets
    <3>3. /\ FlagParse(Fs(sub), a \o bz).error = FlagParse(Fs(sub), bz).error
          /\ FlagParse(Fs(sub), a \o bz).words = FlagParse(Fs(sub), bz).words
      BY <3>2 DEF Merge
    <3>4. FlagParse(Fs(sub), bz).error # None \/ FlagParse(Fs(sub), bz).words # <<>>
      BY <1>2, <3>1 DEF Hopeless
    <3> QED  BY <3>1, <3>3, <3>4
  <2> QED  BY <1>2, <2>1 DEF Hopeless
<1>3. CASE sub # "list"
  <2>1. ASSUME NEW z \in Seq(Arg), NEW v \in Seq(Arg)
        PROVE  FlagParse(Fs(sub), Partition((a \o b) \o z, Bools(sub)).flags \o v).error # None
    <3>1. PICK bz \in Seq(Arg) : bz = b \o z /\ (a \o b) \o z = a \o bz  BY <1>1
    <3>2. Partition(a \o bz, Bools(sub)) = Split(Partition(bz, Bools(sub)), f, w)
      BY DEF Means, Splits
    <3>3. PICK g \in Seq(Arg) : g = Partition(bz, Bools(sub)).flags  BY PartitionType
    <3>4. Partition(a \o bz, Bools(sub)).flags = y \o g  BY <1>x, <3>2, <3>3, SMTT(40) DEF Split
    <3>5. PICK gv \in Seq(Arg) : gv = g \o v  BY ConcatProperties
    <3>6. (y \o g) \o v = y \o gv  BY <1>r, <3>5
    <3>7. FlagParse(Fs(sub), f \o gv) = Merge(FlagParse(Fs(sub), gv), s)  BY DEF Means, Sets
    <3>8. FlagParse(Fs(sub), f \o gv).error = FlagParse(Fs(sub), gv).error  BY <3>7 DEF Merge
    <3>9. FlagParse(Fs(sub), gv).error # None  BY <1>3, <3>1, <3>3, <3>5 DEF Hopeless
    <3> QED  BY <1>x, <3>1, <3>4, <3>6, <3>8, <3>9
  <2> QED  BY <1>3, <2>1 DEF Hopeless
<1> QED  BY <1>2, <1>3

LEMMA HopelessRefused ==
    ASSUME NEW sub, NEW a \in Seq(Arg), Hopeless(sub, a), NEW d \in Seq(Arg)
    PROVE  Submit(sub, a \o d).verdict # "call"
<1> SUFFICES ASSUME Submit(sub, a \o d).verdict = "call" PROVE FALSE  OBVIOUS
<1>1. CASE sub = "list"
  <2>1. PICK p : p = FlagParse(Fs(sub), a \o d)  OBVIOUS
  <2>2. Parsed(p)
    <3>1. a \o d \in Seq(Arg)  BY ConcatProperties
    <3> QED  BY <2>1, <3>1, ParseType
  <2>3. Judgment(sub, p).verdict = "call"  BY <1>1, <2>1, SubmitJudges
  <2>4. p.error = None /\ WordsFit(sub, Len(p.words))
    <3>1. p.error \in Refusal  BY <2>2 DEF Parsed
    <3> QED  BY <2>3, <3>1, JudgedCall
  <2>5. Len(p.words) = 0  BY <1>1, <2>4 DEF WordsFit
  <2>6. p.words = <<>>  BY <2>2, <2>5, EmptySeq DEF Parsed
  <2> QED  BY <1>1, <2>1, <2>4, <2>6 DEF Hopeless
<1>2. CASE sub # "list"
  <2>0. PICK q : q = Partition(a \o d, Bools(sub))  OBVIOUS
  <2>1. PICK g \in Seq(Arg), v \in Seq(Arg) : g = q.flags /\ v = q.words
    <3>1. a \o d \in Seq(Arg)  BY ConcatProperties
    <3> QED  BY <2>0, <3>1, PartitionType
  <2>2. PICK x \in Seq(Arg), xv \in Seq(Arg) : x = <<End>> /\ xv = x \o v
    <3>1. PICK e \in Arg : e = End  BY EndIsArg
    <3>2. <<e>> \in Seq(Arg)  BY SMT
    <3>3. PICK y \in Seq(Arg) : y = <<End>>  BY <3>1, <3>2
    <3> QED  BY <3>3, ConcatProperties
  <2>3. ReorderArgs(a \o d, Bools(sub)) = g \o x \o v
    BY <2>0, <2>1, <2>2, Zenon DEF ReorderArgs, Separate
  <2>4. (g \o x) \o v = g \o (x \o v)  BY RegroupArg, ZenonT(60)
  <2>5. PICK p : p = FlagParse(Fs(sub), g \o xv)  OBVIOUS
  <2>6. Judgment(sub, p).verdict = "call"  BY <1>2, <2>2, <2>3, <2>4, <2>5, SubmitJudges
  <2>7. p.error # None  BY <1>2, <2>0, <2>1, <2>5 DEF Hopeless
  <2>8. p.error \in Refusal
    <3>1. g \o xv \in Seq(Arg)  BY ConcatProperties
    <3> QED  BY <2>5, <3>1, ParseType DEF Parsed
  <2> QED  BY <2>6, <2>7, <2>8, JudgedCall
<1> QED  BY <1>1, <1>2

LEMMA AcceptedIsKnown ==
    ASSUME NEW sub \in Subcommand, NEW units \in Seq(Units)
    PROVE  units \in Seq(Known(sub, Names(sub))) \/ Hopeless(sub, Words(units))
<1> DEFINE K == Known(sub, Names(sub))
           T == {line \in Seq(Units) : line \in Seq(K) \/ Hopeless(sub, Words(line))}
<1>1. <<>> \in T
  <2>1. <<>> \in Seq(Units) /\ <<>> \in Seq(K)  BY EmptySeq
  <2> QED  BY <2>1
<1>2. ASSUME NEW u \in Units, NEW line \in Seq(Units), line \in T PROVE <<u>> \o line \in T
  <2>1. <<u>> \o line \in Seq(Units)
    <3>1. <<u>> \in Seq(Units)  BY SMT
    <3>2. PICK x \in Seq(Units) : x = <<u>>  BY <3>1
    <3> QED  BY <3>2, ConcatProperties
  <2>2. u \in Seq(Arg) /\ line \in Seq(Seq(Arg))
    <3>1. Units \subseteq Seq(Arg)  BY DEF Units
    <3> QED  BY <3>1, SeqMonotonic
  <2>3. PICK rest \in Seq(Arg) : rest = Words(line)  BY <2>2, FlattenType DEF Words
  <2>4. Words(<<u>> \o line) = u \o rest  BY <2>2, <2>3, FlattenHead DEF Words
  <2>5. CASE u \in K
    <3>1. CASE line \in Seq(K)
      <4>1. <<u>> \in Seq(K)  BY <2>5, SMT
      <4>2. PICK x \in Seq(K) : x = <<u>>  BY <4>1
      <4>3. PICK l \in Seq(K) : l = line  BY <3>1
      <4>4. <<u>> \o line \in Seq(K)  BY <4>2, <4>3, ConcatProperties
      <4> QED  BY <2>1, <4>4
    <3>2. CASE Hopeless(sub, Words(line))
      <4>1. Names(sub) \subseteq Names(sub)  OBVIOUS
      <4>2. PICK f, w, s : Means(sub, Names(sub), u, f, w, s)  BY <2>5, <4>1, UnitMeans
      <4>3. Hopeless(sub, u \o rest)  BY <2>3, <3>2, <4>2, HopelessBehind
      <4> QED  BY <2>1, <2>4, <4>3
    <3> QED  BY <1>2, <3>1, <3>2
  <2>6. CASE u \notin K
    <3>1. IF u[1].dashes = 0 THEN sub = "list" ELSE u[1].name \notin Names(sub) \/ ~Apt(u[1])  BY <2>6 DEF Known
    <3>2. u[1] \in Arg /\ u[1] # End /\ u[1].dashes \in 0..2  BY UnitShape
    <3>a. PICK a \in Arg : a = u[1]  BY <3>2
    <3>3. PICK more \in Seq(Arg) : u \o rest = <<a>> \o more
      <4>1. u # <<>>
        <5>1. Len(u) # 0
          <6>1. IsUnit(u)  BY DEF Units
          <6> QED  BY <6>1 DEF IsUnit
        <5> QED  BY <5>1, EmptySeq
      <4>2. Tail(u) \in Seq(Arg) /\ u = <<u[1]>> \o Tail(u)  BY <2>2, <4>1, FirstAndRest
      <4>3. PICK t \in Seq(Arg), x \in Seq(Arg) : t = Tail(u) /\ x = <<a>>
        <5>1. <<a>> \in Seq(Arg)  BY SMT
        <5> QED  BY <4>2, <5>1
      <4>4. (x \o t) \o rest = x \o (t \o rest)  BY ConcatAssociative, SMTT(40)
      <4>5. t \o rest \in Seq(Arg)  BY ConcatProperties
      <4> QED  BY <3>a, <4>2, <4>3, <4>4, <4>5
    <3>4. Hopeless(sub, <<a>> \o more)  BY <3>1, <3>2, <3>a, HopelessHead
    <3> QED  BY <2>1, <2>4, <3>3, <3>4
  <2> QED  BY <2>5, <2>6
<1>3. Seq(Units) \subseteq T
  <2> HIDE DEF T
  <2> QED  BY <1>1, <1>2, SeqInduct
<1> QED  BY <1>3

-----------------------------------------------------------------------------
(* extractGlobals at the head of a line. *)
LEMMA EndIsNotHoisted == ~IsHelp(End) /\ ~IsVersion(End) /\ ~IsGlobal(End)
<1>1. End.name \notin Help  BY Zenon DEF End, Flag, Help
<1>2. End.name # "version"  BY Zenon DEF End, Flag
<1>3. End.name \notin Global  BY Zenon DEF End, Flag, Global
<1>4. End.dashes # 1  BY EndIsArg
<1> QED  BY <1>1, <1>2, <1>3, <1>4, Zenon DEF IsHelp, IsVersion, IsGlobal

Plain(z) == [globals |-> <<>>, help |-> FALSE, version |-> FALSE, rest |-> z]

LEMMA ScanEmpty == ExtractGlobals(<<>>) = Plain(<<>>)
<1>1. Len(<<>>) = 0 /\ From(<<>>, 1) = <<>>  BY EmptySeq, SubSeqEmpty DEF From
<1>2. PICK f : (\A i \in 1..(0 + 2) : f[i] = ScanAt(f, <<>>, i)) /\ ExtractGlobals(<<>>) = f[1]
  BY <1>1, ScanDef
<1>3. f[1] = ScanAt(f, <<>>, 1)  BY <1>2
<1>4. ~(1 <= Len(<<>>))  BY <1>1
<1> QED  BY <1>1, <1>2, <1>3, <1>4, Zenon DEF ScanAt, Plain

LEMMA ScanHead ==
    ASSUME NEW a \in Arg, NEW z \in Seq(Arg)
    PROVE  LET all == ExtractGlobals(<<a>> \o z)
               line == ExtractGlobals(z)
           IN /\ ~IsHelp(a) /\ ~IsVersion(a) /\ ~IsGlobal(a) => all = Plain(<<a>> \o z)
              /\ IsHelp(a) => all.help /\ all.version = line.version
              /\ ~IsHelp(a) /\ IsVersion(a) => all.version
              /\ ~IsHelp(a) /\ ~IsVersion(a) /\ IsGlobal(a) /\ a.value # None =>
                    all = [globals |-> <<a>> \o line.globals, help |-> line.help,
                           version |-> line.version, rest |-> line.rest]
<1>a. PICK az \in Seq(Arg), x \in Seq(Arg) : az = x \o z /\ x = <<a>>
  <2>1. <<a>> \in Seq(Arg) /\ <<a>> \o z \in Seq(Arg)  BY HeadOfLine
  <2> QED  BY <2>1
<1>1. Len(az) = Len(z) + 1 /\ az[1] = a /\ Len(x) = 1 /\ From(az, 1) = az
  BY <1>a, HeadOfLine, SMTT(40)
<1>n. PICK n \in Nat : n = Len(z)  BY LenProperties
<1>2. PICK f : ScanLoop(f, az) /\ ExtractGlobals(az) = f[1]
  BY <1>n, <1>1, ScanDef DEF ScanLoop
<1>p. PICK line : line = ExtractGlobals(z)  OBVIOUS
<1>t. line = [globals |-> line.globals, help |-> line.help, version |-> line.version, rest |-> line.rest]
  BY <1>p, GlobalsType
<1>3. f[2] = line
  <2>0. ScanLoop(f, x \o z)  BY <1>a, <1>2
  <2>1. f[Len(x) + 1] = ExtractGlobals(z)  BY <2>0, ScanShift
  <2> QED  BY <1>1, <1>p, <2>1
<1>h. PICK h : h = HoistGlobal(az, 1)  OBVIOUS
<1>4. f[1] = ScanStep(a, az, SubSeq(az, 1, (1 + h) - 1), line, f[1 + h])
  <2>1. 1 \in 1..(Len(az) + 2) /\ 1 <= Len(az) /\ 1 + 1 = 2  BY <1>n, <1>1
  <2>2. f[1] = ScanAt(f, az, 1)  BY <1>2, <2>1 DEF ScanLoop
  <2>3. ScanAt(f, az, 1) = ScanStep(az[1], From(az, 1), SubSeq(az, 1, (1 + HoistGlobal(az, 1)) - 1), f[1 + 1],
                                    f[1 + HoistGlobal(az, 1)])
    BY <2>1, ScanAtStep, Zenon
  <2> QED  BY <1>1, <1>3, <1>h, <2>1, <2>2, <2>3
<1>5. ~IsHelp(a) /\ ~IsVersion(a) /\ ~IsGlobal(a) => f[1] = Plain(az)
  BY <1>4, Zenon DEF ScanStep, Plain
<1>6. IsHelp(a) => f[1].help /\ f[1].version = line.version
  <2> SUFFICES ASSUME IsHelp(a) PROVE f[1].help /\ f[1].version = line.version  OBVIOUS
  <2>1. f[1] = [line EXCEPT !.help = TRUE]  BY <1>4, Zenon DEF ScanStep
  <2>g. PICK g, hh, v, r : line = [globals |-> g, help |-> hh, version |-> v, rest |-> r]  BY <1>t
  <2>2. f[1] = [globals |-> g, help |-> TRUE, version |-> v, rest |-> r]  BY <2>1, <2>g
  <2> QED  BY <2>2, <2>g
<1>7. ~IsHelp(a) /\ IsVersion(a) => f[1].version
  <2> SUFFICES ASSUME ~IsHelp(a), IsVersion(a) PROVE f[1].version  OBVIOUS
  <2>1. f[1] = [line EXCEPT !.version = TRUE]  BY <1>4, Zenon DEF ScanStep
  <2>g. PICK g, hh, v, r : line = [globals |-> g, help |-> hh, version |-> v, rest |-> r]  BY <1>t
  <2>2. f[1] = [globals |-> g, help |-> hh, version |-> TRUE, rest |-> r]  BY <2>1, <2>g
  <2> QED  BY <2>2
<1>8. ASSUME ~IsHelp(a), ~IsVersion(a), IsGlobal(a), a.value # None
      PROVE  f[1] = [globals |-> x \o line.globals, help |-> line.help, version |-> line.version, rest |-> line.rest]
  <2>1. h = 1  BY <1>1, <1>8, <1>h DEF HoistGlobal
  <2>2. SubSeq(az, 1, 1) = x
    <3>1. 1 \in 1..Len(az) /\ 1 \in 1..Len(az)  BY <1>1, <1>n
    <3>2. SubSeq(az, 1, 1) = <<az[1]>> \o SubSeq(az, 1 + 1, 1)  BY <3>1, SubSeqRecursiveFirst
    <3>3. SubSeq(az, 1 + 1, 1) = <<>>  BY SubSeqEmpty
    <3>4. x \o <<>> = x  BY ConcatEmptySeq
    <3> QED  BY <1>1, <1>a, <3>2, <3>3, <3>4
  <2>3. (1 + h) - 1 = 1 /\ 1 + h = 2  BY <2>1
  <2>4. f[1] = [line EXCEPT !.globals = x \o @]
    <3>1. f[1] = ScanStep(a, az, x, line, line)  BY <1>3, <1>4, <2>2, <2>3, Zenon
    <3> QED  BY <1>8, <3>1, Zenon DEF ScanStep
  <2> QED  BY <1>t, <2>4
<1> QED  BY <1>a, <1>2, <1>p, <1>5, <1>6, <1>7, <1>8

LEMMA ScanPair ==
    ASSUME NEW a \in Arg, NEW v \in Arg, NEW z \in Seq(Arg),
           ~IsHelp(a), ~IsVersion(a), IsGlobal(a), a.value = None
    PROVE  LET line == ExtractGlobals(z) IN
           ExtractGlobals(<<a, v>> \o z) =
              [globals |-> <<a, v>> \o line.globals, help |-> line.help, version |-> line.version, rest |-> line.rest]
<1>n. PICK n \in Nat : n = Len(z)  BY LenProperties
<1>0. /\ <<a, v>> \in Seq(Arg) /\ Len(<<a, v>>) = 2 /\ <<a, v>> \o z \in Seq(Arg)
      /\ Len(<<a, v>> \o z) = Len(z) + 2 /\ (<<a, v>> \o z)[1] = a
  BY PairOfLine
<1>s. SubSeq(<<a, v>> \o z, 1, 2) = <<a, v>>  BY PairSlice
<1>a. PICK x \in Seq(Arg), az \in Seq(Arg) : x = <<a, v>> /\ az = x \o z  BY <1>0
<1>1. Len(x) = 2 /\ Len(az) = n + 2 /\ az[1] = a /\ SubSeq(az, 1, 2) = x  BY <1>0, <1>s, <1>n, <1>a
<1>2. PICK f : ScanLoop(f, az) /\ ExtractGlobals(az) = f[1]
  BY <1>n, <1>1, ScanDef DEF ScanLoop
<1>p. PICK line : line = ExtractGlobals(z)  OBVIOUS
<1>t. line = [globals |-> line.globals, help |-> line.help, version |-> line.version, rest |-> line.rest]
  BY <1>p, GlobalsType
<1>3. f[3] = line
  <2>0. ScanLoop(f, x \o z)  BY <1>a, <1>2
  <2>1. f[Len(x) + 1] = ExtractGlobals(z)  BY <2>0, ScanShift
  <2> QED  BY <1>1, <1>p, <2>1
<1>h. HoistGlobal(az, 1) = 2  BY <1>n, <1>1 DEF HoistGlobal
<1>4. f[1] = ScanStep(a, From(az, 1), x, f[2], line)
  <2>1. 1 \in 1..(Len(az) + 2) /\ 1 <= Len(az) /\ 1 + 1 = 2 /\ (1 + 2) - 1 = 2 /\ 1 + 2 = 3
    BY <1>n, <1>1
  <2>2. f[1] = ScanAt(f, az, 1)  BY <1>2, <2>1 DEF ScanLoop
  <2>3. ScanAt(f, az, 1) = ScanStep(az[1], From(az, 1), SubSeq(az, 1, (1 + HoistGlobal(az, 1)) - 1), f[1 + 1],
                                    f[1 + HoistGlobal(az, 1)])
    BY <2>1, ScanAtStep, Zenon
  <2> QED  BY <1>1, <1>3, <1>h, <2>1, <2>2, <2>3
<1>5. f[1] = [line EXCEPT !.globals = x \o @]  BY <1>4, Zenon DEF ScanStep
<1>6. f[1] = [globals |-> x \o line.globals, help |-> line.help, version |-> line.version, rest |-> line.rest]
  BY <1>t, <1>5
<1> QED  BY <1>a, <1>2, <1>p, <1>6

-----------------------------------------------------------------------------
(* What Run makes of a line. *)
LEMMA RunOfCall ==
    ASSUME NEW args, Run(args).verdict = "call"
    PROVE  LET line == ExtractGlobals(args) IN
           /\ ~line.help /\ ~line.version /\ line.rest # <<>>
           /\ \E sub \in Subcommand : line.rest[1] = Word(sub) /\ Run(args) = Submit(sub, line.globals \o Tail(line.rest))
<1>l. PICK line : line = ExtractGlobals(args)  OBVIOUS
<1>0. \A v : Refuse(v).verdict = v  BY DEF Refuse
<1>1. ~line.version
  <2> SUFFICES ASSUME line.version PROVE FALSE  OBVIOUS
  <2>1. Run(args) = Refuse("version")  BY <1>l, Zenon DEF Run
  <2> QED  BY <1>0, <2>1
<1>2. ~line.help
  <2> SUFFICES ASSUME line.help PROVE FALSE  OBVIOUS
  <2>1. Run(args) = Refuse("help")  BY <1>l, <1>1, Zenon DEF Run
  <2> QED  BY <1>0, <2>1
<1>3. line.rest # <<>>
  <2> SUFFICES ASSUME line.rest = <<>> PROVE FALSE  OBVIOUS
  <2>1. Run(args) = Refuse("usage")  BY <1>l, <1>1, <1>2, Zenon DEF Run
  <2> QED  BY <1>0, <2>1
<1>4. line.rest[1] \notin {Word("help"), Word("version")}
  <2> SUFFICES ASSUME line.rest[1] \in {Word("help"), Word("version")} PROVE FALSE  OBVIOUS
  <2>1. Run(args) = Refuse(line.rest[1].name)  BY <1>l, <1>1, <1>2, <1>3, Zenon DEF Run
  <2>2. line.rest[1].name \in {"help", "version"}  BY DEF Word
  <2> QED  BY <1>0, <2>1, <2>2
<1>5. \E sub \in Subcommand : line.rest[1] = Word(sub)
  <2> SUFFICES ASSUME ~ \E sub \in Subcommand : line.rest[1] = Word(sub) PROVE FALSE  OBVIOUS
  <2>1. Run(args) = Refuse("usage")  BY <1>l, <1>1, <1>2, <1>3, <1>4, Zenon DEF Run
  <2> QED  BY <1>0, <2>1
<1>6. PICK sub \in Subcommand : line.rest[1] = Word(sub)  BY <1>5
<1>7. line.rest[1].name = sub  BY <1>6 DEF Word
<1>8. Run(args) = Submit(line.rest[1].name, line.globals \o Tail(line.rest))
  BY <1>l, <1>1, <1>2, <1>3, <1>4, <1>5, Zenon DEF Run
<1>9. Run(args) = Submit(sub, line.globals \o Tail(line.rest))  BY <1>7, <1>8
<1> QED  BY <1>l, <1>1, <1>2, <1>3, <1>6, <1>9

LEMMA RunOfSubcommand ==
    ASSUME NEW args, NEW sub \in Subcommand, NEW g, NEW rest \in Seq(Arg), Word(sub) \in Arg,
           ExtractGlobals(args) =
              [globals |-> g, help |-> FALSE, version |-> FALSE, rest |-> <<Word(sub)>> \o rest]
    PROVE  Run(args) = Submit(sub, g \o rest)
<1>w. PICK w \in Arg : w = Word(sub)  OBVIOUS
<1>a. PICK all \in Seq(Arg) : all = <<w>> \o rest  BY HeadOfLine
<1>1. all # <<>> /\ all[1] = w /\ Tail(all) = rest
  <2>1. Len(all) = Len(rest) + 1 /\ all[1] = w /\ From(all, 2) = rest  BY <1>a, HeadOfLine
  <2>2. all # <<>>
    <3>1. Len(all) # 0  BY <2>1, LenProperties
    <3> QED  BY <3>1, EmptySeq
  <2>3. Tail(all) = rest  BY <2>1, <2>2, TailIsSubSeq DEF From
  <2> QED  BY <2>1, <2>2, <2>3
<1>2. w.name = sub /\ w \notin {Word("help"), Word("version")}
  <2>1. w.name = sub  BY <1>w DEF Word
  <2>2. ASSUME w \in {Word("help"), Word("version")} PROVE FALSE
    <3>1. w.name \in {"help", "version"}  BY <2>2 DEF Word
    <3> QED  BY <2>1, <3>1 DEF Subcommand
  <2> QED  BY <2>1, <2>2
<1>l. PICK line : line = ExtractGlobals(args)  OBVIOUS
<1>3. ~line.version /\ ~line.help /\ line.globals = g /\ line.rest = all  BY <1>w, <1>a, <1>l
<1>4. line.rest # <<>> /\ line.rest[1] \notin {Word("help"), Word("version")} /\ (\E s \in Subcommand : line.rest[1] = Word(s))
  BY <1>1, <1>2, <1>3, <1>w
<1>5. Run(args) = Submit(line.rest[1].name, line.globals \o Tail(line.rest))
  BY <1>l, <1>3, <1>4, Zenon DEF Run
<1> QED  BY <1>1, <1>2, <1>3, <1>5

LEMMA RunOfHelp ==
    ASSUME NEW args, ExtractGlobals(args).help, ~ExtractGlobals(args).version
    PROVE  Run(args).verdict = "help"
<1>1. Run(args) = Refuse("help")  BY Zenon DEF Run
<1> QED  BY <1>1 DEF Refuse

(* A line of units begins with the first argument of its first unit. *)
LEMMA FirstArg ==
    ASSUME NEW u \in Units, NEW z \in Seq(Arg)
    PROVE  \E r \in Seq(Arg) : u \o z = <<u[1]>> \o r
<1>1. u[1] \in Arg /\ (u = <<u[1]>> \/ (u = <<u[1], u[2]>> /\ u[2] \in Arg))  BY UnitShape
<1>a. PICK a \in Arg : a = u[1]  BY <1>1
<1>2. CASE u = <<a>>  BY <1>2, <1>a
<1>3. CASE u = <<a, u[2]>> /\ u[2] \in Arg
  <2>b. PICK c \in Arg : c = u[2]  BY <1>3
  <2>1. <<a, c>> \o z = <<a>> \o (<<c>> \o z)  BY PairOfLine
  <2>2. <<c>> \o z \in Seq(Arg)  BY HeadOfLine
  <2> QED  BY <1>a, <1>3, <2>b, <2>1, <2>2
<1> QED  BY <1>1, <1>2, <1>3, <1>a

(* The global flags in front of the subcommand are units of the line. *)
LEMMA Hoisted ==
    ASSUME NEW units \in Seq(Units), NEW d, NEW b, EndsWith(d, b)
    PROVE  LET line == ExtractGlobals(Words(units) \o d) IN
           \/ line.help \/ line.version
           \/ \E g, v \in Seq(Units) : line.globals = Words(g) /\ line.rest = Words(v) \o d
<1> DEFINE OK(args) == \/ ExtractGlobals(args).help \/ ExtractGlobals(args).version
                       \/ \E g, v \in Seq(Units) : /\ ExtractGlobals(args).globals = Words(g)
                                                   /\ ExtractGlobals(args).rest = Words(v) \o d
           T == {s \in Seq(Units) : OK(Words(s) \o d)}
<1>d. d \in Seq(Arg) /\ b \in Seq(Arg) /\ <<>> \in Seq(Units)  BY EmptySeq DEF EndsWith
<1>e. Words(<<>>) = <<>> /\ <<>> \o d = d
  <2>1. <<>> \in Seq(Seq(Arg))  BY EmptySeq
  <2> QED  BY <1>d, <2>1, FlattenType, ConcatEmptySeq DEF Words
<1>w. ASSUME NEW s \in Seq(Units) PROVE s \in Seq(Seq(Arg)) /\ Words(s) \in Seq(Arg)
  <2>1. Units \subseteq Seq(Arg)  BY DEF Units
  <2>2. s \in Seq(Seq(Arg))  BY <2>1, SeqMonotonic
  <2> QED  BY <2>2, FlattenType DEF Words
<1>p. ASSUME NEW s \in Seq(Units), ExtractGlobals(Words(s) \o d) = Plain(Words(s) \o d) PROVE OK(Words(s) \o d)
  <2>1. PICK line, r : line = ExtractGlobals(Words(s) \o d) /\ r = Words(s) \o d  OBVIOUS
  <2>2. line.globals = <<>> /\ line.rest = r  BY <1>p, <2>1 DEF Plain
  <2> QED  BY <1>d, <1>e, <2>1, <2>2
<1>1. <<>> \in T
  <2>1. ExtractGlobals(d) = Plain(d)
    <3>1. CASE d = <<>>  BY <3>1, ScanEmpty
    <3>2. CASE d = <<End>> \o b
      <4>1. PICK e \in Arg : e = End  BY EndIsArg
      <4>2. ~IsHelp(e) /\ ~IsVersion(e) /\ ~IsGlobal(e)  BY <4>1, EndIsNotHoisted, Zenon
      <4>3. ExtractGlobals(<<e>> \o b) = Plain(<<e>> \o b)  BY <1>d, <4>2, ScanHead
      <4> QED  BY <3>2, <4>1, <4>3
    <3> QED  BY <3>1, <3>2 DEF EndsWith
  <2>2. OK(Words(<<>>) \o d)
    <3> HIDE DEF OK
    <3> QED  BY <1>d, <1>e, <1>p, <2>1
  <2> HIDE DEF OK
  <2> QED  BY <1>d, <2>2
<1>2. ASSUME NEW u \in Units, NEW s \in Seq(Units), s \in T PROVE <<u>> \o s \in T
  <2>1. <<u>> \o s \in Seq(Units)
    <3>1. <<u>> \in Seq(Units)  BY SMT
    <3>2. PICK x \in Seq(Units) : x = <<u>>  BY <3>1
    <3> QED  BY <3>2, ConcatProperties
  <2>u. u \in Seq(Arg) /\ s \in Seq(Seq(Arg))  BY <1>w DEF Units
  <2>z. PICK z \in Seq(Arg) : z = Words(s) \o d
    <3>1. Words(s) \in Seq(Arg)  BY <1>w
    <3> QED  BY <1>d, <3>1, ConcatProperties
  <2>2. Words(<<u>> \o s) = u \o Words(s)  BY <2>u, FlattenHead DEF Words
  <2>3. Words(<<u>> \o s) \o d = u \o z
    <3>1. PICK fs \in Seq(Arg), uu \in Seq(Arg), dd \in Seq(Arg) : fs = Words(s) /\ uu = u /\ dd = d
      BY <1>d, <1>w, <2>u
    <3>2. (uu \o fs) \o dd = uu \o (fs \o dd)  BY ConcatAssociative, SMTT(40)
    <3> QED  BY <2>2, <2>z, <3>1, <3>2
  <2>l. PICK line, all : line = ExtractGlobals(z) /\ all = ExtractGlobals(u \o z)  OBVIOUS
  <2>4. line.help \/ line.version \/ \E g, v \in Seq(Units) : line.globals = Words(g) /\ line.rest = Words(v) \o d
    BY <1>2, <2>l, <2>z
  <2>5. /\ u[1] \in Arg /\ u[1] # End /\ u[1].dashes \in 0..2
        /\ \/ u = <<u[1]>> /\ (u[1].dashes = 0 \/ u[1].value # None \/ u[1].name \notin Valued)
           \/ /\ u = <<u[1], u[2]>> /\ u[2] \in Arg
              /\ u[1].dashes = 2 /\ u[1].value = None /\ u[1].name \in Valued
    BY UnitShape
  <2>a. PICK a \in Arg : a = u[1]  BY <2>5
  <2>r. PICK r \in Seq(Arg) : u \o z = <<a>> \o r
    <3>1. \E r \in Seq(Arg) : u \o z = <<u[1]>> \o r  BY FirstArg
    <3> QED  BY <2>a, <3>1
  <2>6. CASE IsHelp(a)
    <3>1. ExtractGlobals(<<a>> \o r).help  BY <2>6, ScanHead
    <3>2. OK(Words(<<u>> \o s) \o d)  BY <2>3, <2>r, <3>1
    <3> HIDE DEF OK
    <3> QED  BY <2>1, <3>2
  <2>7. CASE ~IsHelp(a) /\ IsVersion(a)
    <3>1. ExtractGlobals(<<a>> \o r).version  BY <2>7, ScanHead
    <3>2. OK(Words(<<u>> \o s) \o d)  BY <2>3, <2>r, <3>1
    <3> HIDE DEF OK
    <3> QED  BY <2>1, <3>2
  <2>8. CASE ~IsHelp(a) /\ ~IsVersion(a) /\ ~IsGlobal(a)
    <3>1. ExtractGlobals(<<a>> \o r) = Plain(<<a>> \o r)  BY <2>8, ScanHead
    <3>2. ExtractGlobals(Words(<<u>> \o s) \o d) = Plain(Words(<<u>> \o s) \o d)
      BY <2>3, <2>r, <3>1
    <3>3. OK(Words(<<u>> \o s) \o d)
      <4> HIDE DEF OK
      <4> QED  BY <1>p, <2>1, <3>2
    <3> HIDE DEF OK
    <3> QED  BY <2>1, <3>3
  <2>9. CASE ~IsHelp(a) /\ ~IsVersion(a) /\ IsGlobal(a)
    <3>1. all = [globals |-> u \o line.globals, help |-> line.help, version |-> line.version, rest |-> line.rest]
      <4>0. a.dashes = 2 /\ a.name \in Valued  BY <2>9 DEF IsGlobal, Valued
      <4>1. CASE u = <<a>> /\ a.value # None
        <5>1. ExtractGlobals(<<a>> \o z) = [globals |-> <<a>> \o line.globals, help |-> line.help,
                                            version |-> line.version, rest |-> line.rest]
          BY <2>9, <2>l, <4>1, ScanHead
        <5> QED  BY <2>l, <4>1, <5>1
      <4>2. CASE u = <<a, u[2]>> /\ u[2] \in Arg /\ a.value = None
        <5>b. PICK c \in Arg : c = u[2]  BY <4>2
        <5>1. ExtractGlobals(<<a, c>> \o z) = [globals |-> <<a, c>> \o line.globals, help |-> line.help,
                                            version |-> line.version, rest |-> line.rest]
          BY <2>9, <2>l, <4>2, ScanPair
        <5> QED  BY <2>l, <4>2, <5>b, <5>1
      <4> QED  BY <2>5, <2>a, <4>0, <4>1, <4>2
    <3>2. /\ all.globals = u \o line.globals /\ all.rest = line.rest
          /\ (all.help = line.help) /\ (all.version = line.version)
      BY <3>1
    <3>3. \/ all.help \/ all.version
          \/ \E g, v \in Seq(Units) : all.globals = Words(g) /\ all.rest = Words(v) \o d
      <4>1. CASE line.help \/ line.version  BY <3>2, <4>1
      <4>2. CASE \E g, v \in Seq(Units) : line.globals = Words(g) /\ line.rest = Words(v) \o d
        <5>1. PICK g \in Seq(Units), v \in Seq(Units) : line.globals = Words(g) /\ line.rest = Words(v) \o d
          BY <4>2
        <5>2. <<u>> \o g \in Seq(Units)
          <6>1. <<u>> \in Seq(Units)  BY SMT
          <6>2. PICK x \in Seq(Units) : x = <<u>>  BY <6>1
          <6> QED  BY <6>2, ConcatProperties
        <5>3. Words(<<u>> \o g) = u \o Words(g)
          <6>1. g \in Seq(Seq(Arg))  BY <1>w
          <6> QED  BY <2>u, <6>1, FlattenHead DEF Words
        <5> QED  BY <3>2, <5>1, <5>2, <5>3
      <4> QED  BY <2>4, <4>1, <4>2
    <3>4. OK(Words(<<u>> \o s) \o d)  BY <2>3, <2>l, <3>3
    <3> HIDE DEF OK
    <3> QED  BY <2>1, <3>4
  <2> QED  BY <2>6, <2>7, <2>8, <2>9
<1>3. Seq(Units) \subseteq T
  <2> HIDE DEF T
  <2> QED  BY <1>1, <1>2, SeqInduct
<1> QED  BY <1>3

LEMMA WordsOfUnits ==
    ASSUME NEW units \in Seq(Units)
    PROVE  units \in Seq(Seq(Arg)) /\ Words(units) \in Seq(Arg)
<1>1. Units \subseteq Seq(Arg)  BY DEF Units
<1>2. units \in Seq(Seq(Arg))  BY <1>1, SeqMonotonic
<1> QED  BY <1>2, FlattenType DEF Words

(* A line whose first word names the subcommand. *)
Named(v, rest, d, sub) ==
    \E s \in Seq(Units) : /\ v = << <<Word(sub)>> >> \o s /\ Tail(rest) = Words(s) \o d
                          /\ rest = <<Word(sub)>> \o (Words(s) \o d) /\ Word(sub) \in Arg

LEMMA SubcommandFirst ==
    ASSUME NEW v \in Seq(Units), NEW d, NEW b, EndsWith(d, b), NEW rest, rest = Words(v) \o d,
           rest # <<>>, NEW sub, rest[1] = Word(sub)
    PROVE  Named(v, rest, d, sub)
<1>d. d \in Seq(Arg) /\ b \in Seq(Arg)  BY DEF EndsWith
<1>w. Word(sub).dashes = 0  BY DEF Word
<1>1. v # <<>>
  <2> SUFFICES ASSUME v = <<>> PROVE FALSE  OBVIOUS
  <2>1. Words(v) = <<>>
    <3>1. <<>> \in Seq(Seq(Arg))  BY EmptySeq
    <3> QED  BY <3>1, FlattenType DEF Words
  <2>2. rest = d  BY <1>d, <2>1, ConcatEmptySeq
  <2>3. d = <<End>> \o b  BY <2>2 DEF EndsWith
  <2>4. rest[1] = End
    <3>1. PICK e \in Arg : e = End  BY EndIsArg
    <3>2. (<<e>> \o b)[1] = e  BY <1>d, HeadOfLine, SMTT(40)
    <3> QED  BY <2>2, <2>3, <3>1, <3>2
  <2> QED  BY <1>w, <2>4, EndIsArg
<1>2. PICK u \in Units, s \in Seq(Units) : v = <<u>> \o s
  <2>1. v[1] \in Units /\ Tail(v) \in Seq(Units) /\ v = <<v[1]>> \o Tail(v)  BY <1>1, FirstAndRest
  <2> QED  BY <2>1
<1>u. u \in Seq(Arg) /\ s \in Seq(Seq(Arg)) /\ Words(s) \in Seq(Arg)  BY WordsOfUnits DEF Units
<1>z. PICK z \in Seq(Arg) : z = Words(s) \o d  BY <1>d, <1>u, ConcatProperties
<1>3. rest = u \o z
  <2>1. Words(v) = u \o Words(s)  BY <1>2, <1>u, FlattenHead DEF Words
  <2>2. PICK fs \in Seq(Arg), uu \in Seq(Arg), dd \in Seq(Arg) : fs = Words(s) /\ uu = u /\ dd = d
    BY <1>d, <1>u
  <2>3. (uu \o fs) \o dd = uu \o (fs \o dd)  BY RegroupArg, Zenon
  <2> QED  BY <1>z, <2>1, <2>2, <2>3
<1>4. /\ u[1] \in Arg
      /\ u = <<u[1]>> \/ (u = <<u[1], u[2]>> /\ u[2] \in Arg /\ u[1].dashes = 2)
  BY UnitShape
<1>a. PICK a \in Arg : a = u[1]  BY <1>4
<1>5. rest[1] = a
  <2>1. CASE u = <<a>>
    <3>1. (<<a>> \o z)[1] = a  BY HeadOfLine
    <3> QED  BY <1>3, <2>1, <3>1
  <2>2. CASE u = <<a, u[2]>> /\ u[2] \in Arg
    <3>c. PICK c \in Arg : c = u[2]  BY <2>2
    <3>1. (<<a, c>> \o z)[1] = a  BY PairOfLine
    <3> QED  BY <1>3, <2>2, <3>c, <3>1
  <2> QED  BY <1>4, <1>a, <2>1, <2>2
<1>6. a = Word(sub) /\ u = <<a>>
  <2>1. a = Word(sub)  BY <1>5
  <2>2. a.dashes # 2  BY <1>w, <2>1
  <2> QED  BY <1>4, <1>a, <2>1, <2>2
<1>7. Tail(rest) = z
  <2>1. PICK az \in Seq(Arg) : az = <<a>> \o z /\ From(az, 2) = z
    <3>1. <<a>> \o z \in Seq(Arg) /\ From(<<a>> \o z, 2) = z  BY HeadOfLine
    <3> QED  BY <3>1
  <2>2. az = rest  BY <1>3, <1>6, <2>1
  <2> QED  BY <2>1, <2>2, TailIsSubSeq DEF From
<1> QED  BY <1>2, <1>3, <1>6, <1>7, <1>z DEF Named

LEMMA SubmittedIsKnown ==
    ASSUME NEW sub \in Subcommand, NEW m \in Seq(Units), NEW d, NEW b, EndsWith(d, b),
           Submit(sub, Words(m) \o d).verdict = "call"
    PROVE  m \in Seq(Known(sub, Names(sub)))
<1>1. d \in Seq(Arg)  BY DEF EndsWith
<1>2. Words(m) \in Seq(Arg)  BY WordsOfUnits
<1>3. ~Hopeless(sub, Words(m))  BY <1>1, <1>2, HopelessRefused
<1> QED  BY <1>3, AcceptedIsKnown

(* The words of an accepted line end with what stands behind its --. *)
LEMMA AcceptedEndsWith ==
    ASSUME NEW units \in Seq(Units), NEW d, NEW b, EndsWith(d, b), Run(Words(units) \o d).verdict = "call"
    PROVE  \E w \in Seq(Arg) : Run(Words(units) \o d).words = w \o b
<1>d. d \in Seq(Arg) /\ b \in Seq(Arg)  BY DEF EndsWith
<1>l. PICK args, line : args = Words(units) \o d /\ line = ExtractGlobals(args)  OBVIOUS
<1>1. /\ ~line.help /\ ~line.version /\ line.rest # <<>>
      /\ \E sub \in Subcommand : line.rest[1] = Word(sub) /\ Run(args) = Submit(sub, line.globals \o Tail(line.rest))
  BY <1>l, RunOfCall
<1>2. PICK sub \in Subcommand : line.rest[1] = Word(sub) /\ Run(args) = Submit(sub, line.globals \o Tail(line.rest))
  BY <1>1
<1>3. PICK g \in Seq(Units), v \in Seq(Units) : line.globals = Words(g) /\ line.rest = Words(v) \o d
  BY <1>l, <1>1, Hoisted
<1>4. PICK s \in Seq(Units) : Tail(line.rest) = Words(s) \o d
  <2>r. PICK rest : rest = line.rest  OBVIOUS
  <2>1. rest = Words(v) \o d /\ rest # <<>> /\ rest[1] = Word(sub)  BY <1>1, <1>2, <1>3, <2>r
  <2>2. Named(v, rest, d, sub)  BY <2>1, SubcommandFirst
  <2> QED  BY <2>r, <2>2 DEF Named
<1>m. PICK m \in Seq(Units) : m = g \o s  BY ConcatProperties
<1>5. line.globals \o Tail(line.rest) = Words(m) \o d
  <2>1. PICK fg \in Seq(Arg), fs \in Seq(Arg), dd \in Seq(Arg) : fg = Words(g) /\ fs = Words(s) /\ dd = d
    BY <1>d, WordsOfUnits
  <2>2. (fg \o fs) \o dd = fg \o (fs \o dd)  BY ConcatAssociative, SMTT(40)
  <2>3. Words(m) = fg \o fs
    <3>1. g \in Seq(Seq(Arg)) /\ s \in Seq(Seq(Arg))  BY WordsOfUnits
    <3> QED  BY <1>m, <2>1, <3>1, FlattenConcat DEF Words
  <2> QED  BY <1>3, <1>4, <2>1, <2>2, <2>3
<1>6. Submit(sub, Words(m) \o d).verdict = "call"  BY <1>l, <1>2, <1>5
<1>7. m \in Seq(Known(sub, Names(sub)))  BY <1>6, SubmittedIsKnown
<1>8. PICK f, w, t : Means(sub, Names(sub), Words(m), f, w, t)
  <2>1. Names(sub) \subseteq Names(sub)  OBVIOUS
  <2> QED  BY <1>7, <2>1, LineMeans
<1>p. PICK p : p = [error |-> None, set |-> t, words |-> w \o b]  OBVIOUS
<1>9. Submit(sub, Words(m) \o d) = Judgment(sub, p)
  <2>1. Submit(sub, Words(m) \o d) = Judgment(sub, Meant(t, w, b))  BY <1>8, Meaning
  <2> QED  BY <1>p, <2>1, Zenon DEF Meant
<1>10. Judgment(sub, p).words = p.words
  <2>1. p.error \in Refusal  BY <1>p DEF Refusal
  <2> QED  BY <1>6, <1>9, <2>1, JudgedCall
<1>11. w \in Seq(Arg)  BY <1>8 DEF Means
<1> QED  BY <1>l, <1>2, <1>5, <1>9, <1>10, <1>11, <1>p

-----------------------------------------------------------------------------
(* The values of the flags: the last one counts. *)
Opt(s, name) == Option([set |-> s], name)

LEMMA OptionIsOpt ==
    ASSUME NEW p, NEW name
    PROVE  Option(p, name) = Opt(p.set, name)
BY DEF Option, Opt

LEMMA GreatestIsMax ==
    ASSUME NEW T, T \subseteq Nat, NEW k \in T, \A i \in T : i <= k
    PROVE  Max(T) = k
<1>1. \A i \in T : k >= i  OBVIOUS
<1>2. ASSUME NEW j \in T, \A i \in T : j >= i PROVE j = k
  <2>1. j >= k /\ k >= j /\ j \in Nat /\ k \in Nat  BY <1>2
  <2> QED  BY <2>1
<1> QED  BY <1>1, <1>2 DEF Max

LEMMA OptIs ==
    ASSUME NEW S, NEW s \in Seq(S), NEW name, NEW k \in 1..Len(s), s[k].name = name,
           \A i \in (k + 1)..Len(s) : s[i].name # name
    PROVE  Opt(s, name) = <<s[k].arg>>
<1>n. PICK n \in Nat : n = Len(s)  BY LenProperties
<1> DEFINE T == {i \in 1..Len(s) : s[i].name = name}
<1>1. k \in T /\ T \subseteq Nat  OBVIOUS
<1>2. ASSUME NEW i \in T PROVE i <= k
  <2>1. i \in 1..n /\ s[i].name = name /\ k \in 1..n  BY <1>n
  <2>2. i \notin (k + 1)..Len(s)  BY <2>1
  <2> QED  BY <1>n, <2>1, <2>2
<1>3. Max(T) = k
  <2> HIDE DEF T
  <2> QED  BY <1>1, <1>2, GreatestIsMax
<1>4. SelectLastInSeq(s, LAMBDA x : x.name = name) = k
  <2>1. SelectLastInSeq(s, LAMBDA x : x.name = name) = IF T # {} THEN Max(T) ELSE 0
    BY DEF SelectLastInSeq
  <2> HIDE DEF T
  <2> QED  BY <1>1, <1>3, <2>1
<1>5. k # 0  OBVIOUS
<1> QED  BY <1>4, <1>5 DEF Opt, Option

LEMMA OptIsNot ==
    ASSUME NEW S, NEW s \in Seq(S), NEW name, \A i \in 1..Len(s) : s[i].name # name
    PROVE  Opt(s, name) = <<>>
<1> DEFINE T == {i \in 1..Len(s) : s[i].name = name}
<1>1. T = {}  OBVIOUS
<1>2. SelectLastInSeq(s, LAMBDA x : x.name = name) = 0
  <2>1. SelectLastInSeq(s, LAMBDA x : x.name = name) = IF T # {} THEN Max(T) ELSE 0
    BY DEF SelectLastInSeq
  <2> HIDE DEF T
  <2> QED  BY <1>1, <2>1
<1> QED  BY <1>2 DEF Opt, Option

LEMMA LastSetting ==
    ASSUME NEW S, NEW s \in Seq(S), NEW name
    PROVE  \/ \A i \in 1..Len(s) : s[i].name # name
           \/ \E k \in 1..Len(s) : s[k].name = name /\ \A i \in (k + 1)..Len(s) : s[i].name # name
<1>n. PICK n \in Nat : n = Len(s)  BY LenProperties
<1> DEFINE T == {i \in 1..n : s[i].name = name}
<1>1. CASE T = {}  BY <1>n, <1>1
<1>2. CASE T # {}
  <2>1. T \subseteq 1..n  OBVIOUS
  <2>2. PICK k \in T : \A i \in T : k >= i
    <3> HIDE DEF T
    <3> QED  BY <1>2, <2>1, Greatest
  <2>3. ASSUME NEW i \in (k + 1)..n, s[i].name = name PROVE FALSE
    <3>1. i \in T  BY <2>1, <2>2, <2>3
    <3>2. k >= i  BY <2>2, <3>1
    <3> QED  BY <2>1, <3>2
  <2> QED  BY <1>n, <2>2, <2>3
<1> QED  BY <1>1, <1>2

(* A setting of another name makes no difference. *)
LEMMA OptInsert ==
    ASSUME NEW S, NEW s \in Seq(S), NEW t \in Seq(S), NEW e \in S, NEW name
    PROVE  /\ name # e.name => Opt((s \o <<e>>) \o t, name) = Opt(s \o t, name)
           /\ name = e.name /\ (\A i \in 1..Len(t) : t[i].name # name) =>
                 Opt((s \o <<e>>) \o t, name) = <<e.arg>>
<1>n. PICK m \in Nat, n \in Nat : m = Len(s) /\ n = Len(t)  BY LenProperties
<1>x. PICK x \in Seq(S) : x = <<e>> /\ Len(x) = 1 /\ x[1] = e
  <2>1. <<e>> \in Seq(S)  BY SMT
  <2> QED  BY <2>1, One
<1>r. PICK r \in Seq(S), sx \in Seq(S), all \in Seq(S) : r = s \o t /\ sx = s \o x /\ all = sx \o t
  <2>1. PICK sx \in Seq(S) : sx = s \o x  BY ConcatProperties
  <2>2. s \o t \in Seq(S) /\ sx \o t \in Seq(S)  BY ConcatProperties
  <2> QED  BY <2>1, <2>2
<1>1. Len(r) = m + n /\ \A i \in 1..(m + n) : r[i] = IF i <= m THEN s[i] ELSE t[i - m]
  BY <1>n, <1>r, ConcatProperties
<1>l. Len(r) = m + n  BY <1>1
<1>2. Len(sx) = m + 1 /\ \A i \in 1..(m + 1) : sx[i] = IF i <= m THEN s[i] ELSE x[i - m]
  BY <1>n, <1>r, <1>x, ConcatProperties
<1>3. Len(all) = (m + 1) + n /\ \A i \in 1..((m + 1) + n) : all[i] = IF i <= m + 1 THEN sx[i] ELSE t[i - (m + 1)]
  BY <1>2, <1>n, <1>r, ConcatProperties
<1>4. all[m + 1] = e
  <2>1. m + 1 \in 1..((m + 1) + n) /\ m + 1 \in 1..(m + 1) /\ ~(m + 1 <= m) /\ (m + 1) - m = 1  OBVIOUS
  <2>2. all[m + 1] = sx[m + 1]  BY <1>3, <2>1
  <2>3. sx[m + 1] = x[1]  BY <1>2, <2>1
  <2> QED  BY <1>x, <2>2, <2>3
<1>5. ASSUME NEW i \in 1..m PROVE all[i] = r[i]
  <2>1. i \in 1..(m + n) /\ i \in 1..(m + 1) /\ i \in 1..((m + 1) + n) /\ i <= m /\ i <= m + 1  OBVIOUS
  <2> QED  BY <1>1, <1>2, <1>3, <2>1
<1>6. ASSUME NEW i \in 1..n PROVE all[(m + 1) + i] = t[i] /\ r[m + i] = t[i]
  <2>1. /\ m + i \in 1..(m + n) /\ (m + 1) + i \in 1..((m + 1) + n) /\ ~(m + i <= m) /\ ~((m + 1) + i <= m + 1)
        /\ (m + i) - m = i /\ ((m + 1) + i) - (m + 1) = i
    OBVIOUS
  <2> QED  BY <1>1, <1>3, <2>1
<1>7. ASSUME name # e.name PROVE Opt(all, name) = Opt(r, name)
  <2>1. CASE \A i \in 1..(m + n) : r[i].name # name
    <3>1. ASSUME NEW i \in 1..((m + 1) + n) PROVE all[i].name # name
      <4>1. CASE i <= m
        <5>1. i \in 1..m /\ i \in 1..(m + n)  BY <4>1
        <5> QED  BY <1>5, <2>1, <5>1
      <4>2. CASE i = m + 1  BY <1>4, <1>7, <4>2
      <4>3. CASE i > m + 1
        <5>j. PICK j \in 1..n : i = (m + 1) + j
          <6>1. i - (m + 1) \in 1..n /\ i = (m + 1) + (i - (m + 1))  BY <4>3
          <6> QED  BY <6>1
        <5>1. m + j \in 1..(m + n)  OBVIOUS
        <5> QED  BY <1>6, <2>1, <5>j, <5>1
      <4> QED  BY <4>1, <4>2, <4>3
    <3>2. Opt(all, name) = <<>>  BY <1>3, <3>1, OptIsNot
    <3>3. Opt(r, name) = <<>>  BY <1>1, <2>1, OptIsNot
    <3> QED  BY <3>2, <3>3
  <2>2. ASSUME NEW k \in 1..(m + n), r[k].name = name, \A i \in (k + 1)..(m + n) : r[i].name # name
        PROVE  Opt(all, name) = Opt(r, name)
    <3>1. Opt(r, name) = <<r[k].arg>>
      <4>1. k \in 1..Len(r) /\ \A i \in (k + 1)..Len(r) : r[i].name # name  BY <1>l, <2>2
      <4> QED  BY <2>2, <4>1, OptIs
    <3>h. PICK h \in 1..((m + 1) + n) : h = IF k <= m THEN k ELSE k + 1  BY SMT
    <3>2. all[h] = r[k]
      <4>1. CASE k <= m
        <5>1. k \in 1..m  BY <4>1
        <5> QED  BY <1>5, <3>h, <4>1, <5>1
      <4>2. CASE k > m
        <5>j. PICK j \in 1..n : k = m + j
          <6>1. k - m \in 1..n /\ k = m + (k - m)  BY <4>2
          <6> QED  BY <6>1
        <5>1. h = (m + 1) + j  BY <3>h, <4>2, <5>j
        <5> QED  BY <1>6, <5>j, <5>1
      <4> QED  BY <4>1, <4>2
    <3>3. ASSUME NEW i \in (h + 1)..((m + 1) + n) PROVE all[i].name # name
      <4>1. CASE i <= m
        <5>1. i \in 1..m /\ i \in (k + 1)..(m + n)  BY <3>h, <4>1
        <5> QED  BY <1>5, <2>2, <5>1
      <4>2. CASE i = m + 1  BY <1>4, <1>7, <4>2
      <4>3. CASE i > m + 1
        <5>j. PICK j \in 1..n : i = (m + 1) + j
          <6>1. i - (m + 1) \in 1..n /\ i = (m + 1) + (i - (m + 1))  BY <4>3
          <6> QED  BY <6>1
        <5>1. m + j \in (k + 1)..(m + n)  BY <3>h, <4>3, <5>j
        <5> QED  BY <1>6, <2>2, <5>j, <5>1
      <4> QED  BY <4>1, <4>2, <4>3
    <3>4. Opt(all, name) = <<all[h].arg>>
      <4>1. h \in 1..Len(all) /\ all[h].name = name  BY <1>3, <2>2, <3>2
      <4>2. \A i \in (h + 1)..Len(all) : all[i].name # name  BY <1>3, <3>3
      <4> QED  BY <4>1, <4>2, OptIs
    <3> QED  BY <3>1, <3>2, <3>4
  <2>3. \/ \A i \in 1..(m + n) : r[i].name # name
        \/ \E k \in 1..(m + n) : r[k].name = name /\ \A i \in (k + 1)..(m + n) : r[i].name # name
    <3>1. \/ \A i \in 1..Len(r) : r[i].name # name
          \/ \E k \in 1..Len(r) : r[k].name = name /\ \A i \in (k + 1)..Len(r) : r[i].name # name
      BY LastSetting
    <3> QED  BY <1>l, <3>1
  <2> QED  BY <2>1, <2>2, <2>3
<1>8. ASSUME name = e.name, \A i \in 1..n : t[i].name # name PROVE Opt(all, name) = <<e.arg>>
  <2>1. m + 1 \in 1..Len(all) /\ all[m + 1].name = name  BY <1>3, <1>4, <1>8
  <2>2. ASSUME NEW i \in ((m + 1) + 1)..Len(all) PROVE all[i].name # name
    <3>j. PICK j \in 1..n : i = (m + 1) + j
      <4>1. i - (m + 1) \in 1..n /\ i = (m + 1) + (i - (m + 1))  BY <1>3
      <4> QED  BY <4>1
    <3> QED  BY <1>6, <1>8, <3>j
  <2>3. Opt(all, name) = <<all[m + 1].arg>>  BY <2>1, <2>2, OptIs
  <2> QED  BY <1>4, <2>3
<1> QED  BY <1>n, <1>r, <1>x, <1>7, <1>8

-----------------------------------------------------------------------------
(* Lines without global flags. *)
LEMMA ScanOfEnd ==
    ASSUME NEW d, NEW b, EndsWith(d, b)
    PROVE  ExtractGlobals(d) = Plain(d)
<1>1. CASE d = <<>>  BY <1>1, ScanEmpty
<1>2. CASE d = <<End>> \o b
  <2>1. PICK e \in Arg : e = End  BY EndIsArg
  <2>2. ~IsHelp(e) /\ ~IsVersion(e) /\ ~IsGlobal(e)  BY <2>1, EndIsNotHoisted, Zenon
  <2>3. b \in Seq(Arg)  BY DEF EndsWith
  <2>4. ExtractGlobals(<<e>> \o b) = Plain(<<e>> \o b)  BY <2>2, <2>3, ScanHead
  <2> QED  BY <1>2, <2>1, <2>4
<1> QED  BY <1>1, <1>2 DEF EndsWith

LEMMA SeqOfMembers ==
    ASSUME NEW S, NEW K, NEW s \in Seq(S), \A i \in 1..Len(s) : s[i] \in K
    PROVE  s \in Seq(K)
OBVIOUS

NoGlobal(units) == \A i \in 1..Len(units) : ~IsGlobalUnit(units[i])
Starts(units) == units # <<>> => ~IsGlobalUnit(units[1])

LEMMA AcceptedIsPlain ==
    ASSUME NEW units \in Seq(Units), Starts(units), NEW d, NEW b, EndsWith(d, b),
           Run(Words(units) \o d).verdict = "call"
    PROVE  ExtractGlobals(Words(units) \o d) = Plain(Words(units) \o d)
<1>d. d \in Seq(Arg) /\ b \in Seq(Arg)  BY DEF EndsWith
<1>1. CASE units = <<>>
  <2>1. <<>> \in Seq(Seq(Arg))  BY EmptySeq
  <2>2. Words(<<>>) = <<>> /\ <<>> \o d = d  BY <1>d, <2>1, FlattenType, ConcatEmptySeq DEF Words
  <2> QED  BY <1>1, <2>2, ScanOfEnd
<1>2. CASE units # <<>>
  <2>1. PICK u \in Units, s \in Seq(Units) : units = <<u>> \o s /\ u = units[1]
    <3>1. units[1] \in Units /\ Tail(units) \in Seq(Units) /\ units = <<units[1]>> \o Tail(units)
      BY <1>2, FirstAndRest
    <3> QED  BY <3>1
  <2>u. u \in Seq(Arg) /\ s \in Seq(Seq(Arg)) /\ Words(s) \in Seq(Arg)  BY WordsOfUnits DEF Units
  <2>z. PICK z \in Seq(Arg) : z = Words(s) \o d  BY <1>d, <2>u, ConcatProperties
  <2>2. Words(units) \o d = u \o z
    <3>1. Words(units) = u \o Words(s)  BY <2>1, <2>u, FlattenHead DEF Words
    <3>2. PICK fs \in Seq(Arg), uu \in Seq(Arg), dd \in Seq(Arg) : fs = Words(s) /\ uu = u /\ dd = d
      BY <1>d, <2>u
    <3>3. (uu \o fs) \o dd = uu \o (fs \o dd)  BY RegroupArg, Zenon
    <3> QED  BY <2>z, <3>1, <3>2, <3>3
  <2>3. PICK r \in Seq(Arg) : u \o z = <<u[1]>> \o r  BY FirstArg
  <2>a. PICK a \in Arg : a = u[1]  BY UnitShape
  <2>args. PICK args : args = Words(units) \o d /\ args = <<a>> \o r  BY <2>2, <2>3, <2>a
  <2>4. ~ExtractGlobals(args).help /\ ~ExtractGlobals(args).version  BY <2>args, RunOfCall
  <2>5. ~IsHelp(a) /\ ~IsVersion(a)  BY <2>4, <2>args, ScanHead
  <2>6. ~IsGlobal(a)
    <3>1. ~IsGlobalUnit(u)  BY <1>2, <2>1 DEF Starts
    <3> QED  BY <2>a, <3>1 DEF IsGlobalUnit, IsGlobal
  <2>7. ExtractGlobals(<<a>> \o r) = Plain(<<a>> \o r)  BY <2>5, <2>6, ScanHead
  <2> QED  BY <2>7, <2>args
<1> QED  BY <1>1, <1>2

(* A subcommand, then words and flags of its own. *)
Calls(units, d, sub, m) ==
    /\ sub \in Subcommand /\ Word(sub) \in Arg
    /\ m \in Seq(Known(sub, Names(sub)))
    /\ NoGlobal(units) => m \in Seq(Known(sub, OwnFlags(sub)))
    /\ units = << <<Word(sub)>> >> \o m
    /\ Run(Words(units) \o d) = Submit(sub, Words(m) \o d)

LEMMA AcceptedCalls ==
    ASSUME NEW units \in Seq(Units), Starts(units), NEW d, NEW b, EndsWith(d, b),
           Run(Words(units) \o d).verdict = "call"
    PROVE  \E sub, m : Calls(units, d, sub, m)
<1>d. d \in Seq(Arg) /\ b \in Seq(Arg)  BY DEF EndsWith
<1>l. PICK args, line : args = Words(units) \o d /\ line = ExtractGlobals(args)  OBVIOUS
<1>1. /\ ~line.help /\ ~line.version /\ line.rest # <<>>
      /\ \E sub \in Subcommand : line.rest[1] = Word(sub) /\ Run(args) = Submit(sub, line.globals \o Tail(line.rest))
  BY <1>l, RunOfCall
<1>2. PICK sub \in Subcommand : line.rest[1] = Word(sub) /\ Run(args) = Submit(sub, line.globals \o Tail(line.rest))
  BY <1>1
<1>3. line.globals = <<>> /\ line.rest = args
  <2>1. ExtractGlobals(args) = Plain(args)  BY <1>l, AcceptedIsPlain
  <2> QED  BY <1>l, <2>1 DEF Plain
<1>4. PICK s \in Seq(Units) : /\ units = << <<Word(sub)>> >> \o s /\ Tail(line.rest) = Words(s) \o d
                              /\ Word(sub) \in Arg
  <2>r. PICK rest : rest = line.rest  OBVIOUS
  <2>1. rest = Words(units) \o d /\ rest # <<>> /\ rest[1] = Word(sub)
    BY <1>1, <1>2, <1>3, <1>l, <2>r
  <2>2. Named(units, rest, d, sub)  BY <2>1, SubcommandFirst
  <2> QED  BY <2>r, <2>2 DEF Named
<1>5. Run(args) = Submit(sub, Words(s) \o d)
  <2>1. PICK sd \in Seq(Arg) : sd = Words(s) \o d  BY <1>d, WordsOfUnits, ConcatProperties
  <2>2. <<>> \o sd = sd  BY ConcatEmptySeq
  <2> QED  BY <1>2, <1>3, <1>4, <2>1, <2>2
<1>6. s \in Seq(Known(sub, Names(sub)))
  <2>1. Submit(sub, Words(s) \o d).verdict = "call"  BY <1>l, <1>5
  <2> QED  BY <2>1, SubmittedIsKnown
<1>7. ASSUME NoGlobal(units), NEW i \in 1..Len(s) PROVE s[i] \in Known(sub, OwnFlags(sub))
  <2>1. s[i] \in Known(sub, Names(sub))  BY <1>6, ElementOfSeq
  <2>2. ~IsGlobalUnit(s[i])
    <3>1. Len(units) = Len(s) + 1 /\ units[i + 1] = s[i]
      <4>a. PICK a \in Arg : a = Word(sub)  BY <1>4
      <4>e. PICK e \in Seq(Arg) : e = <<a>>
        <5>1. <<a>> \in Seq(Arg)  BY SMT
        <5> QED  BY <5>1
      <4>s. s \in Seq(Seq(Arg))  BY WordsOfUnits
      <4>x. PICK x \in Seq(Seq(Arg)) : x = <<e>> /\ Len(x) = 1
        <5>1. <<e>> \in Seq(Seq(Arg)) /\ Len(<<e>>) = 1  BY <4>s, HeadOfLine
        <5> QED  BY <5>1
      <4>1. units = x \o s  BY <1>4, <4>a, <4>e, <4>x
      <4>2. Len(x \o s) = 1 + Len(s) /\ (x \o s)[1 + i] = s[i]  BY <4>s, <4>x, ConcatAt
      <4>3. 1 + Len(s) = Len(s) + 1 /\ 1 + i = i + 1  BY LenProperties
      <4> QED  BY <4>1, <4>2, <4>3, Zenon
    <3>2. i + 1 \in 1..Len(units)
      <4>1. Len(s) \in Nat  BY LenProperties
      <4> QED  BY <3>1, <4>1
    <3> QED  BY <1>7, <3>1, <3>2, Zenon DEF NoGlobal
  <2>3. s[i] \in Units /\ s[i][1].dashes \in 0..2
    <3>1. s[i] \in Units  BY ElementOfSeq
    <3> QED  BY <3>1, UnitShape
  <2> QED  BY <2>1, <2>2, <2>3 DEF Known, Names, IsGlobalUnit
<1>8. NoGlobal(units) => s \in Seq(Known(sub, OwnFlags(sub)))  BY <1>7, SeqOfMembers
<1>9. Calls(units, d, sub, s)  BY <1>4, <1>5, <1>6, <1>8, <1>l DEF Calls
<1> QED  BY <1>9, Zenon

(* What Run makes of a subcommand, with a global flag in front or without. *)
LEMMA WordIsNotHoisted ==
    ASSUME NEW a, a.dashes = 0
    PROVE  ~IsHelp(a) /\ ~IsVersion(a) /\ ~IsGlobal(a)
BY DEF IsHelp, IsVersion, IsGlobal

LEMMA RunOfLine ==
    ASSUME NEW sub \in Subcommand, Word(sub) \in Arg, NEW z \in Seq(Arg)
    PROVE  Run(<<Word(sub)>> \o z) = Submit(sub, z)
<1>a. PICK a \in Arg : a = Word(sub)  OBVIOUS
<1>1. ~IsHelp(a) /\ ~IsVersion(a) /\ ~IsGlobal(a)
  <2>1. a.dashes = 0  BY <1>a DEF Word
  <2> QED  BY <2>1, WordIsNotHoisted
<1>2. ExtractGlobals(<<a>> \o z) = Plain(<<a>> \o z)  BY <1>1, ScanHead
<1>3. ExtractGlobals(<<Word(sub)>> \o z) =
         [globals |-> <<>>, help |-> FALSE, version |-> FALSE, rest |-> <<Word(sub)>> \o z]
  BY <1>2, <1>a DEF Plain
<1>4. Run(<<Word(sub)>> \o z) = Submit(sub, <<>> \o z)  BY <1>3, RunOfSubcommand
<1>5. <<>> \o z = z  BY ConcatEmptySeq
<1> QED  BY <1>4, <1>5

LEMMA RunOfGlobalLine ==
    ASSUME NEW sub \in Subcommand, Word(sub) \in Arg, NEW z \in Seq(Arg), NEW a \in Arg, NEW v \in Arg,
           ~IsHelp(a), ~IsVersion(a), IsGlobal(a), a.value = None
    PROVE  Run(<<a, v>> \o (<<Word(sub)>> \o z)) = Submit(sub, <<a, v>> \o z)
<1>w. PICK w \in Arg : w = Word(sub)  OBVIOUS
<1>z. PICK wz \in Seq(Arg) : wz = <<w>> \o z  BY HeadOfLine
<1>1. ~IsHelp(w) /\ ~IsVersion(w) /\ ~IsGlobal(w)
  <2>1. w.dashes = 0  BY <1>w DEF Word
  <2> QED  BY <2>1, WordIsNotHoisted
<1>2. ExtractGlobals(<<w>> \o z) = Plain(<<w>> \o z)  BY <1>1, ScanHead
<1>3. ExtractGlobals(<<a, v>> \o wz) =
         [globals |-> <<a, v>> \o <<>>, help |-> FALSE, version |-> FALSE, rest |-> wz]
  <2>l. PICK line : line = ExtractGlobals(wz)  OBVIOUS
  <2>1. ExtractGlobals(<<a, v>> \o wz) =
           [globals |-> <<a, v>> \o line.globals, help |-> line.help, version |-> line.version, rest |-> line.rest]
    BY <2>l, ScanPair
  <2>2. line.globals = <<>> /\ line.help = FALSE /\ line.version = FALSE /\ line.rest = wz
    BY <1>2, <1>z, <2>l DEF Plain
  <2> QED  BY <2>1, <2>2
<1>4. <<a, v>> \o <<>> = <<a, v>>
  <2>1. <<a, v>> \in Seq(Arg)  BY SMT
  <2> QED  BY <2>1, ConcatEmptySeq
<1>5. ExtractGlobals(<<a, v>> \o wz) =
         [globals |-> <<a, v>>, help |-> FALSE, version |-> FALSE, rest |-> <<Word(sub)>> \o z]
  BY <1>3, <1>4, <1>w, <1>z
<1>6. Run(<<a, v>> \o wz) = Submit(sub, <<a, v>> \o z)  BY <1>5, RunOfSubcommand
<1> QED  BY <1>6, <1>w, <1>z

-----------------------------------------------------------------------------
(* The flags that the properties insert. *)
LEMMA SocketFacts ==
    /\ Flag("tmux-socket") \in Arg /\ Word("sock") \in Arg /\ SocketUnit \in Units
    /\ ~IsHelp(Flag("tmux-socket")) /\ ~IsVersion(Flag("tmux-socket")) /\ IsGlobal(Flag("tmux-socket"))
    /\ Flag("tmux-socket").value = None
    /\ \A sub, Name : "tmux-socket" \in Name => SocketUnit \in Known(sub, Name)
<1>a. PICK a \in Arg, v \in Arg : a = Flag("tmux-socket") /\ v = Word("sock")
  BY DEF Arg
<1>1. a.dashes = 2 /\ a.name = "tmux-socket" /\ a.value = None  BY <1>a DEF Flag
<1>2. ~IsHelp(a) /\ ~IsVersion(a) /\ IsGlobal(a)
  BY <1>1 DEF IsHelp, IsVersion, IsGlobal, Help, Global
<1>3. a # End
  <2>1. a.name # End.name
    <3>1. "tmux-socket" # ""  BY Zenon
    <3>2. End.name = ""  BY Zenon DEF End, Flag
    <3> QED  BY <1>1, <3>1, <3>2, Zenon
  <2> QED  BY <2>1
<1>4. <<a, v>> \in Units
  <2>1. <<a, v>> \in Seq(Arg) /\ Len(<<a, v>>) = 2 /\ <<a, v>>[1] = a  BY SMT, Two
  <2>2. a.name \in Valued  BY <1>1 DEF Valued, Global
  <2>3. IsUnit(<<a, v>>)  BY <1>1, <1>3, <2>1, <2>2, Zenon DEF IsUnit
  <2> QED  BY <2>1, <2>3 DEF Units
<1>5. ASSUME NEW sub, NEW Name, "tmux-socket" \in Name PROVE <<a, v>> \in Known(sub, Name)
  <2>1. <<a, v>>[1] = a  BY Two
  <2> QED  BY <1>1, <1>4, <1>5, <2>1 DEF Known, Apt
<1>6. SocketUnit = <<a, v>>  BY <1>a DEF SocketUnit
<1> QED  BY <1>1, <1>2, <1>4, <1>5, <1>6, <1>a

LEMMA HelpFacts ==
    /\ Flag("help") \in Arg /\ Flag("help").dashes = 2 /\ Flag("help").name = "help"
    /\ Flag("help").value = None /\ Flag("help") # End
<1>a. PICK a \in Arg : a = Flag("help")  BY DEF Arg
<1>1. a.dashes = 2 /\ a.name = "help" /\ a.value = None  BY <1>a DEF Flag
<1>2. a # End
  <2>1. "help" # ""  BY Zenon
  <2>2. End.name = ""  BY Zenon DEF End, Flag
  <2>3. a.name # End.name  BY <1>1, <2>1, <2>2, Zenon
  <2> QED  BY <2>3
<1> QED  BY <1>1, <1>2, <1>a

-----------------------------------------------------------------------------
(* Submit reads the settings through the values of the flags alone. *)
LEMMA MeantFields ==
    ASSUME NEW s, NEW w, NEW b
    PROVE  LET p == Meant(s, w, b) IN
           p.error = None /\ p.words = w \o b /\ \A name : Option(p, name) = Opt(s, name)
<1>p. PICK p, y : p = Meant(s, w, b) /\ y = w \o b  OBVIOUS
<1>1. p = [error |-> None, set |-> s, words |-> y]  BY <1>p, Zenon DEF Meant
<1>2. p.error = None /\ p.words = y /\ p.set = s  BY <1>1
<1>3. ASSUME NEW name PROVE Option(p, name) = Opt(s, name)  BY <1>2, OptionIsOpt
<1> QED  BY <1>p, <1>2, <1>3

LEMMA SameJudgment ==
    ASSUME NEW sub, NEW s, NEW t, NEW w, NEW b, \A name : Opt(s, name) = Opt(t, name)
    PROVE  Judgment(sub, Meant(s, w, b)) = Judgment(sub, Meant(t, w, b))
<1>p. PICK p, q : p = Meant(s, w, b) /\ q = Meant(t, w, b)  OBVIOUS
<1>m. /\ Meant(s, w, b).error = None /\ Meant(s, w, b).words = w \o b
      /\ Meant(t, w, b).error = None /\ Meant(t, w, b).words = w \o b
  BY MeantFields
<1>1. p.error = q.error /\ p.words = q.words  BY <1>m, <1>p, Zenon
<1>2. \A name : Option(p, name) = Option(q, name)  BY <1>p, MeantFields
<1>3. Server(p) = Server(q)  BY <1>2, Zenon DEF Server
<1>4. [f \in OwnFlags(sub) |-> Option(p, f)] = [f \in OwnFlags(sub) |-> Option(q, f)]  BY <1>2
<1>5. (\/ sub # "list" /\ \A x \in PaneId : Option(p, "pane") # <<Word(x)>>
       \/ \A g \in Global : Option(p, g) # <<>>)
      <=> (\/ sub # "list" /\ \A x \in PaneId : Option(q, "pane") # <<Word(x)>>
           \/ \A g \in Global : Option(q, g) # <<>>)
  BY <1>2, Zenon
<1>6. Judgment(sub, p) = Judgment(sub, q)  BY <1>1, <1>3, <1>4, <1>5, Zenon DEF Judgment
<1> QED  BY <1>6, <1>p

LEMMA RefusedIsNoCall == Refuse("invalid").verdict # "call"
BY DEF Refuse

LEMMA JudgedWith ==
    ASSUME NEW sub \in Subcommand, NEW s, NEW t, NEW w, NEW b, Judgment(sub, Meant(s, w, b)).verdict = "call",
           \A name : name # "tmux-socket" => Opt(t, name) = Opt(s, name),
           Opt(s, "tmux-socket-name") = <<>>
    PROVE  Judgment(sub, Meant(t, w, b)).verdict = "call"
<1>p. PICK p, q : p = Meant(s, w, b) /\ q = Meant(t, w, b)  OBVIOUS
<1>m. /\ Meant(s, w, b).error = None /\ Meant(s, w, b).words = w \o b
      /\ Meant(t, w, b).error = None /\ Meant(t, w, b).words = w \o b
  BY MeantFields
<1>1. p.error = None /\ q.error = None /\ p.words = q.words  BY <1>m, <1>p, Zenon
<1>2. \A name : name # "tmux-socket" => Option(q, name) = Option(p, name)  BY <1>p, MeantFields
<1>3. Option(q, "tmux-socket-name") = <<>>
  <2>1. Option(p, "tmux-socket-name") = <<>>  BY <1>p, MeantFields
  <2>2. "tmux-socket-name" # "tmux-socket"  BY Zenon
  <2> QED  BY <1>2, <2>1, <2>2
<1>4. ~(\/ ~WordsFit(sub, Len(p.words))
        \/ sub # "list" /\ \A x \in PaneId : Option(p, "pane") # <<Word(x)>>
        \/ \A g \in Global : Option(p, g) # <<>>)
  BY <1>1, <1>p, RefusedIsNoCall, Zenon DEF Judgment
<1>5. Option(q, "pane") = Option(p, "pane")
  <2>1. "pane" # "tmux-socket"  BY Zenon
  <2> QED  BY <1>2, <2>1
<1>6. ~ \A g \in Global : Option(q, g) # <<>>
  <2>1. "tmux-socket-name" \in Global  BY DEF Global
  <2> QED  BY <1>3, <2>1, Zenon
<1>7. Judgment(sub, q) = [verdict |-> "call", op |-> sub, server |-> Server(q), words |-> q.words,
                          options |-> [f \in OwnFlags(sub) |-> Option(q, f)]]
  BY <1>1, <1>4, <1>5, <1>6, Zenon DEF Judgment
<1> QED  BY <1>7, <1>p

-----------------------------------------------------------------------------
(* The order of a word and a flag, and the place of a flag, are the same   *)
(* to a subcommand.                                                        *)
LEMMA MeansMore ==
    ASSUME NEW sub, NEW Own, NEW Name, Own \subseteq Name, NEW a, NEW f, NEW w, NEW s, Means(sub, Own, a, f, w, s)
    PROVE  Means(sub, Name, a, f, w, s)
<1>1. s \in Seq(Settings(Own)) /\ Settings(Own) \subseteq Settings(Name)  BY DEF Means, Settings
<1>2. s \in Seq(Settings(Name))  BY <1>1, SeqMonotonic
<1> QED  BY <1>2 DEF Means

LEMMA EmptyLeft ==
    ASSUME NEW S, NEW s \in Seq(S)
    PROVE  <<>> \o s = s /\ s \o <<>> = s
BY ConcatEmptySeq

LEMMA WordAndFlag ==
    ASSUME NEW sub, NEW Name, NEW a, NEW b, NEW t,
           Means(sub, Name, a, <<>>, a, <<>>), Means(sub, Name, b, b, <<>>, t)
    PROVE  Means(sub, Name, a \o b, b, a, t) /\ Means(sub, Name, b \o a, b, a, t)
<1>1. a \in Seq(Arg) /\ b \in Seq(Arg) /\ t \in Seq(Settings(Name))  BY DEF Means
<1>2. /\ <<>> \o b = b /\ b \o <<>> = b /\ <<>> \o a = a /\ a \o <<>> = a
      /\ <<>> \o t = t /\ t \o <<>> = t
  BY <1>1, EmptyLeft
<1>3. Means(sub, Name, a \o b, <<>> \o b, a \o <<>>, <<>> \o t)  BY MeansConcat
<1>4. Means(sub, Name, b \o a, b \o <<>>, <<>> \o a, t \o <<>>)  BY MeansConcat
<1> QED  BY <1>2, <1>3, <1>4, Zenon

LEMMA SwapMeans ==
    ASSUME NEW sub, NEW Name, NEW p, NEW f, NEW w, NEW s, NEW q, NEW g, NEW y, NEW r,
           Means(sub, Name, p, f, w, s), Means(sub, Name, q, g, y, r),
           NEW a, NEW b, NEW t, Means(sub, Name, a, <<>>, a, <<>>), Means(sub, Name, b, b, <<>>, t),
           NEW d, NEW e, EndsWith(d, e)
    PROVE  Submit(sub, (p \o ((a \o b) \o q)) \o d) = Submit(sub, (p \o ((b \o a) \o q)) \o d)
<1>1. Means(sub, Name, a \o b, b, a, t) /\ Means(sub, Name, b \o a, b, a, t)  BY WordAndFlag
<1>2. /\ Means(sub, Name, (a \o b) \o q, b \o g, a \o y, t \o r)
      /\ Means(sub, Name, (b \o a) \o q, b \o g, a \o y, t \o r)
  BY <1>1, MeansConcat
<1>3. /\ Means(sub, Name, p \o ((a \o b) \o q), f \o (b \o g), w \o (a \o y), s \o (t \o r))
      /\ Means(sub, Name, p \o ((b \o a) \o q), f \o (b \o g), w \o (a \o y), s \o (t \o r))
  BY <1>2, MeansConcat
<1>4. Submit(sub, (p \o ((a \o b) \o q)) \o d) = Judgment(sub, Meant(s \o (t \o r), w \o (a \o y), e))
  BY <1>3, Meaning
<1>5. Submit(sub, (p \o ((b \o a) \o q)) \o d) = Judgment(sub, Meant(s \o (t \o r), w \o (a \o y), e))
  BY <1>3, Meaning
<1> QED  BY <1>4, <1>5, Zenon

LEMMA OptInserted ==
    ASSUME NEW S, NEW s \in Seq(S), NEW t \in Seq(S), NEW e \in S, \A i \in 1..Len(t) : t[i].name # e.name
    PROVE  Opt((s \o <<e>>) \o t, e.name) = <<e.arg>>
<1>n. PICK name : name = e.name  OBVIOUS
<1>1. \A i \in 1..Len(t) : t[i].name # name  BY <1>n
<1>2. name = e.name /\ (\A i \in 1..Len(t) : t[i].name # name) => Opt((s \o <<e>>) \o t, name) = <<e.arg>>
  BY OptInsert
<1> QED  BY <1>n, <1>1, <1>2, Zenon

(* A flag that nobody else sets has its value from wherever it stands.     *)
LEMMA OptAnywhere ==
    ASSUME NEW S, NEW s \in Seq(S), NEW r \in Seq(S), NEW st \in S,
           \A i \in 1..Len(s) : s[i].name # st.name, \A i \in 1..Len(r) : r[i].name # st.name
    PROVE  /\ \A name : Opt(s \o (<<st>> \o r), name) = Opt(<<st>> \o (s \o r), name)
           /\ \A name : name # st.name => Opt(<<st>> \o (s \o r), name) = Opt(s \o r, name)
<1>1. PICK x \in Seq(S), sr \in Seq(S), nothing \in Seq(S) : x = <<st>> /\ sr = s \o r /\ nothing = <<>>
  <2>1. <<st>> \in Seq(S) /\ s \o r \in Seq(S) /\ <<>> \in Seq(S)
    BY HeadOfLine, ConcatProperties, EmptySeq
  <2> QED  BY <2>1
<1>2. (s \o x) \o r = s \o (x \o r) /\ (nothing \o x) \o sr = x \o sr /\ nothing \o sr = sr
  <2>1. (s \o x) \o r = s \o (x \o r)  BY ConcatAssociative, SMTT(40)
  <2>2. nothing \o x = x /\ nothing \o sr = sr  BY <1>1, ConcatEmptySeq
  <2> QED  BY <2>1, <2>2
<1>3. ASSUME NEW i \in 1..Len(sr) PROVE sr[i].name # st.name
  <2>n. PICK m \in Nat, n \in Nat : m = Len(s) /\ n = Len(r)  BY LenProperties
  <2>1. Len(s \o r) = m + n /\ \A k \in 1..(m + n) : (s \o r)[k] = IF k <= m THEN s[k] ELSE r[k - m]
    BY <2>n, ConcatProperties
  <2>2. i \in 1..(m + n)  BY <1>1, <2>1
  <2>3. CASE i <= m
    <3>1. i \in 1..m  BY <2>2, <2>3
    <3>2. sr[i] = s[i]  BY <1>1, <2>1, <2>2, <2>3
    <3> QED  BY <2>n, <3>1, <3>2
  <2>4. CASE i > m
    <3>1. i - m \in 1..n  BY <2>2, <2>4
    <3>2. sr[i] = r[i - m]  BY <1>1, <2>1, <2>2, <2>4
    <3> QED  BY <2>n, <3>1, <3>2
  <2> QED  BY <2>2, <2>3, <2>4
<1>4. ASSUME NEW name, name # st.name
      PROVE  Opt((s \o x) \o r, name) = Opt(sr, name) /\ Opt((nothing \o x) \o sr, name) = Opt(nothing \o sr, name)
  <2>1. Opt((s \o <<st>>) \o r, name) = Opt(s \o r, name)  BY <1>4, OptInsert
  <2>2. Opt((nothing \o <<st>>) \o sr, name) = Opt(nothing \o sr, name)  BY <1>4, OptInsert
  <2> QED  BY <1>1, <2>1, <2>2, Zenon
<1>5. Opt((s \o x) \o r, st.name) = <<st.arg>> /\ Opt((nothing \o x) \o sr, st.name) = <<st.arg>>
  <2>1. Opt((s \o <<st>>) \o r, st.name) = <<st.arg>>  BY OptInserted
  <2>2. Opt((nothing \o <<st>>) \o sr, st.name) = <<st.arg>>  BY <1>3, OptInserted
  <2> QED  BY <1>1, <2>1, <2>2, Zenon
<1>6. ASSUME NEW name PROVE Opt(s \o (x \o r), name) = Opt(x \o sr, name)
  BY <1>2, <1>4, <1>5
<1>7. ASSUME NEW name, name # st.name PROVE Opt(x \o sr, name) = Opt(sr, name)  BY <1>2, <1>4, <1>7
<1> QED  BY <1>1, <1>6, <1>7

LEMMA OwnIsNotGlobal ==
    ASSUME NEW sub \in Subcommand, NEW s \in Seq(Settings(OwnFlags(sub)))
    PROVE  \A i \in 1..Len(s) : s[i].name \notin Global
<1> SUFFICES ASSUME NEW i \in 1..Len(s) PROVE s[i].name \notin Global  OBVIOUS
<1>1. s[i].name \in OwnFlags(sub)
  <2>1. s[i] \in Settings(OwnFlags(sub))  BY ElementOfSeq
  <2> QED  BY <2>1 DEF Settings
<1>2. OwnFlags(sub) \cap Global = {}  BY DEF OwnFlags, Global, Subcommand
<1> QED  BY <1>1, <1>2

LEMMA SocketMeans ==
    ASSUME NEW sub \in Subcommand,
           NEW p, NEW f, NEW w, NEW s, Means(sub, OwnFlags(sub), p, f, w, s),
           NEW q, NEW g, NEW y, NEW r, Means(sub, OwnFlags(sub), q, g, y, r),
           NEW x, NEW st, Means(sub, Names(sub), x, x, <<>>, <<st>>), st.name = "tmux-socket",
           NEW d, NEW e, EndsWith(d, e), Submit(sub, (p \o q) \o d).verdict = "call"
    PROVE  /\ Submit(sub, (p \o (x \o q)) \o d) = Submit(sub, (x \o (p \o q)) \o d)
           /\ Submit(sub, (x \o (p \o q)) \o d).verdict = "call"
<1>n. OwnFlags(sub) \subseteq Names(sub)  BY DEF Names
<1>0. Means(sub, Names(sub), p, f, w, s) /\ Means(sub, Names(sub), q, g, y, r)  BY <1>n, MeansMore
<1>1. Means(sub, Names(sub), x \o q, x \o g, <<>> \o y, <<st>> \o r)  BY <1>0, MeansConcat
<1>2. Means(sub, Names(sub), p \o (x \o q), f \o (x \o g), w \o (<<>> \o y), s \o (<<st>> \o r))
  BY <1>0, <1>1, MeansConcat
<1>3. Means(sub, Names(sub), p \o q, f \o g, w \o y, s \o r)  BY <1>0, MeansConcat
<1>4. Means(sub, Names(sub), x \o (p \o q), x \o (f \o g), <<>> \o (w \o y), <<st>> \o (s \o r))
  BY <1>3, MeansConcat
<1>5. <<>> \o y = y /\ <<>> \o (w \o y) = w \o y
  <2>1. y \in Seq(Arg) /\ w \o y \in Seq(Arg)  BY <1>3 DEF Means
  <2> QED  BY <2>1, EmptyLeft
<1>6. /\ Submit(sub, (p \o q) \o d) = Judgment(sub, Meant(s \o r, w \o y, e))
      /\ Submit(sub, (p \o (x \o q)) \o d) = Judgment(sub, Meant(s \o (<<st>> \o r), w \o y, e))
      /\ Submit(sub, (x \o (p \o q)) \o d) = Judgment(sub, Meant(<<st>> \o (s \o r), w \o y, e))
  <2>1. Submit(sub, (p \o q) \o d) = Judgment(sub, Meant(s \o r, w \o y, e))  BY <1>3, Meaning
  <2>2. Submit(sub, (p \o (x \o q)) \o d) = Judgment(sub, Meant(s \o (<<st>> \o r), w \o (<<>> \o y), e))
    BY <1>2, Meaning
  <2>3. Submit(sub, (x \o (p \o q)) \o d) = Judgment(sub, Meant(<<st>> \o (s \o r), <<>> \o (w \o y), e))
    BY <1>4, Meaning
  <2> QED  BY <1>5, <2>1, <2>2, <2>3, Zenon
<1>7. /\ \A i \in 1..Len(s) : s[i].name # st.name
      /\ \A i \in 1..Len(r) : r[i].name # st.name
  <2>1. s \in Seq(Settings(OwnFlags(sub))) /\ r \in Seq(Settings(OwnFlags(sub)))  BY DEF Means
  <2>2. "tmux-socket" \in Global  BY DEF Global
  <2> QED  BY <2>1, <2>2, OwnIsNotGlobal
<1>8. s \in Seq(Setting) /\ r \in Seq(Setting) /\ st \in Setting
  <2>1. s \in Seq(Setting) /\ r \in Seq(Setting) /\ <<st>> \in Seq(Setting)
    BY SettingsAreSettings DEF Means
  <2>2. Len(<<st>>) = 1 /\ <<st>>[1] = st  BY One
  <2>3. PICK z \in Seq(Setting) : z = <<st>>  BY <2>1
  <2>4. z[1] \in Setting  BY <2>2, <2>3, ElementOfSeq
  <2> QED  BY <2>1, <2>2, <2>3, <2>4
<1>9. /\ \A name : Opt(s \o (<<st>> \o r), name) = Opt(<<st>> \o (s \o r), name)
      /\ \A name : name # "tmux-socket" => Opt(<<st>> \o (s \o r), name) = Opt(s \o r, name)
  BY <1>7, <1>8, OptAnywhere, SMTT(40)
<1>10. Submit(sub, (p \o (x \o q)) \o d) = Submit(sub, (x \o (p \o q)) \o d)
  <2>1. Judgment(sub, Meant(s \o (<<st>> \o r), w \o y, e)) = Judgment(sub, Meant(<<st>> \o (s \o r), w \o y, e))
    BY <1>9, SameJudgment
  <2> QED  BY <1>6, <2>1, Zenon
<1>11. Opt(s \o r, "tmux-socket-name") = <<>>
  <2>1. PICK sr \in Seq(Settings(OwnFlags(sub))) : sr = s \o r
    <3>1. s \in Seq(Settings(OwnFlags(sub))) /\ r \in Seq(Settings(OwnFlags(sub)))  BY DEF Means
    <3> QED  BY <3>1, ConcatProperties
  <2>2. \A i \in 1..Len(sr) : sr[i].name # "tmux-socket-name"
    <3>1. "tmux-socket-name" \in Global  BY DEF Global
    <3> QED  BY <3>1, OwnIsNotGlobal
  <2> QED  BY <2>1, <2>2, OptIsNot
<1>12. Judgment(sub, Meant(<<st>> \o (s \o r), w \o y, e)).verdict = "call"
  <2>1. Judgment(sub, Meant(s \o r, w \o y, e)).verdict = "call"  BY <1>6
  <2> QED  BY <1>9, <1>11, <2>1, JudgedWith
<1> QED  BY <1>6, <1>10, <1>12

Regrouped(f, h, p, e, w) == ((f \o (h \o p)) \o e) \o w = f \o (h \o (p \o (e \o w)))

LEMMA RegroupFive ==
    ASSUME NEW f \in Seq(Arg), NEW h \in Seq(Arg), NEW p \in Seq(Arg), NEW e \in Seq(Arg), NEW w \in Seq(Arg)
    PROVE  Regrouped(f, h, p, e, w)
<1>1. (h \o p) \o (e \o w) = h \o (p \o (e \o w))
  <2>1. \A ew \in Seq(Arg) : (h \o p) \o ew = h \o (p \o ew)  BY ConcatAssociative, SMTT(40)
  <2>2. e \o w \in Seq(Arg)  BY ConcatProperties
  <2> QED  BY <2>1, <2>2, Zenon
<1>2. ((f \o (h \o p)) \o e) \o w = (f \o (h \o p)) \o (e \o w)
  <2>1. \A all \in Seq(Arg) : (all \o e) \o w = all \o (e \o w)  BY ConcatAssociative, SMTT(40)
  <2>2. f \o (h \o p) \in Seq(Arg)  BY ConcatProperties
  <2> QED  BY <2>1, <2>2, Zenon
<1>3. (f \o (h \o p)) \o (e \o w) = f \o ((h \o p) \o (e \o w))
  <2>1. \A hp, ew \in Seq(Arg) : (f \o hp) \o ew = f \o (hp \o ew)  BY RegroupArg, Zenon
  <2>2. h \o p \in Seq(Arg) /\ e \o w \in Seq(Arg)  BY ConcatProperties
  <2> QED  BY <2>1, <2>2, Zenon
<1> QED  BY <1>1, <1>2, <1>3, Zenon DEF Regrouped

StaysBehind(f, h, p, w) ==
    \E y \in Seq(Arg) : Separate([flags |-> f \o (<<h>> \o p), words |-> w]) = f \o (<<h>> \o y)

LEMMA SeparateBehind ==
    ASSUME NEW f \in Seq(Arg), NEW h \in Arg, NEW p \in Seq(Arg), NEW w \in Seq(Arg)
    PROVE  StaysBehind(f, h, p, w)
<1>1. PICK e : e \in Seq(Arg) /\ e = <<End>>
  <2>1. PICK a \in Arg : a = End  BY EndIsArg
  <2>2. <<a>> \in Seq(Arg)  BY SMT
  <2> QED  BY <2>1, <2>2
<1>2. <<h>> \in Seq(Arg)  BY SMT
<1>3. PICK all : all = f \o (<<h>> \o p)  OBVIOUS
<1>4. Separate([flags |-> all, words |-> w]) = (all \o e) \o w
  <2>1. Separate([flags |-> all, words |-> w]) = all \o <<End>> \o w  BY DEF Separate
  <2> QED  BY <1>1, <2>1, Zenon
<1>5. (all \o e) \o w = f \o (<<h>> \o (p \o (e \o w)))
  <2>1. e \in Seq(Arg)  BY <1>1
  <2>2. Regrouped(f, <<h>>, p, e, w)  BY <1>2, <2>1, RegroupFive
  <2> QED  BY <1>3, <2>2, Zenon DEF Regrouped
<1>6. p \o (e \o w) \in Seq(Arg)
  <2>1. e \in Seq(Arg)  BY <1>1
  <2> QED  BY <2>1, ConcatProperties
<1> QED  BY <1>3, <1>4, <1>5, <1>6, Zenon DEF StaysBehind

(* --help, wherever a subcommand looks for flags. *)
LEMMA HelpMeans ==
    ASSUME NEW sub, NEW Name, NEW p, NEW f, NEW w, NEW s, Means(sub, Name, p, f, w, s), NEW z \in Seq(Arg)
    PROVE  Submit(sub, p \o (<<Flag("help")>> \o z)).verdict = "help"
<1>h. PICK h \in Arg : h = Flag("help") /\ h.dashes = 2 /\ h.name = "help" /\ h.value = None /\ h # End
  BY HelpFacts
<1>g. h.dashes # 0 /\ h # End /\ h.name \in Help  BY <1>h DEF Help
<1>1. h.name \in Help /\ h.name \in Bools(sub)  BY <1>h DEF Help, Bools
<1>2. PICK x \in Seq(Arg) : x = <<h>> \o z  BY HeadOfLine
<1>3. ASSUME NEW y \in Seq(Arg) PROVE FlagParse(Fs(sub), f \o (<<h>> \o y)).error = "help"
  <2>1. FlagParse(Fs(sub), <<h>> \o y) = Done("help", <<>>)  BY <1>g, ParseHead
  <2>2. PICK hy \in Seq(Arg) : hy = <<h>> \o y  BY HeadOfLine
  <2>3. FlagParse(Fs(sub), f \o hy) = Merge(Done("help", <<>>), s)  BY <2>1, <2>2 DEF Means, Sets
  <2>4. FlagParse(Fs(sub), f \o hy).error = "help"  BY <2>3 DEF Merge, Done
  <2> QED  BY <2>2, <2>4
<1>4. ASSUME NEW q, q.error = "help" PROVE Judgment(sub, q).verdict = "help"
  <2>1. q.error # None  BY <1>4 DEF None
  <2>2. Judgment(sub, q) = Refuse(q.error)  BY <2>1, Zenon DEF Judgment
  <2> QED  BY <1>4, <2>2 DEF Refuse
<1>5. CASE sub = "list"
  <2>1. f = p  BY <1>5 DEF Means
  <2>q. PICK q : q = FlagParse(Fs(sub), p \o x)  OBVIOUS
  <2>2. q.error = "help"
    <3>1. FlagParse(Fs(sub), f \o (<<h>> \o z)).error = "help"  BY <1>3
    <3> QED  BY <1>2, <2>1, <2>q, <3>1
  <2>3. Submit(sub, p \o x) = Judgment(sub, q)  BY <1>5, <2>q, SubmitJudges
  <2>4. Submit(sub, p \o x).verdict = "help"  BY <1>4, <2>2, <2>3
  <2> QED  BY <1>2, <1>h, <2>4
<1>6. CASE sub # "list"
  <2>p. PICK parts : parts = Partition(z, Bools(sub))  OBVIOUS
  <2>0. PICK pf \in Seq(Arg), pw \in Seq(Arg) : pf = parts.flags /\ pw = parts.words
    <3>1. parts.flags \in Seq(Arg) /\ parts.words \in Seq(Arg)  BY <2>p, PartitionType
    <3> QED  BY <3>1
  <2>1. Partition(<<h>> \o z, Bools(sub)) = [flags |-> <<h>> \o pf, words |-> pw]
    <3>1. h.dashes \in Nat \ {0}  BY <1>h
    <3>2. Partition(<<h>> \o z, Bools(sub)) = [flags |-> <<h>> \o parts.flags, words |-> parts.words]
      BY <1>1, <1>h, <2>p, <3>1, PartitionHead, ZenonT(60)
    <3> QED  BY <2>0, <3>2
  <2>2. PICK ff, ww : ff = f /\ ww = w \o pw /\ ff \in Seq(Arg) /\ ww \in Seq(Arg)
    <3>1. f \in Seq(Arg) /\ w \in Seq(Arg)  BY DEF Means
    <3> QED  BY <3>1, ConcatProperties
  <2>3. Partition(p \o x, Bools(sub)) = [flags |-> ff \o (<<h>> \o pf), words |-> ww]
    <3>1. Partition(x, Bools(sub)) = [flags |-> <<h>> \o pf, words |-> pw]  BY <1>2, <2>1
    <3>2. Partition(p \o x, Bools(sub)) = Split([flags |-> <<h>> \o pf, words |-> pw], f, w)
      BY <3>1 DEF Means, Splits
    <3> QED  BY <2>2, <3>2 DEF Split
  <2>y. PICK y \in Seq(Arg) : Separate([flags |-> ff \o (<<h>> \o pf), words |-> ww]) = ff \o (<<h>> \o y)
    <3>1. ff \in Seq(Arg) /\ ww \in Seq(Arg)  BY <2>2
    <3>2. StaysBehind(ff, h, pf, ww)  BY <3>1, SeparateBehind
    <3> QED  BY <3>2, Zenon DEF StaysBehind
  <2>4. ReorderArgs(p \o x, Bools(sub)) = f \o (<<h>> \o y)
    BY <2>2, <2>3, <2>y, Zenon DEF ReorderArgs
  <2>5. FlagParse(Fs(sub), f \o (<<h>> \o y)).error = "help"  BY <1>3
  <2>6. Submit(sub, p \o x) = Judgment(sub, FlagParse(Fs(sub), f \o (<<h>> \o y)))
    BY <1>6, <2>4, SubmitJudges, Zenon
  <2>7. Submit(sub, p \o x).verdict = "help"  BY <1>4, <2>5, <2>6
  <2> QED  BY <1>2, <1>h, <2>7
<1> QED  BY <1>5, <1>6

-----------------------------------------------------------------------------
(* A line is its units, and what stands from the -- on. *)
LEMMA LeastIsMin ==
    ASSUME NEW T, T \subseteq Nat, NEW k \in T, \A i \in T : k <= i
    PROVE  Min(T) = k
<1>1. \A i \in T : k <= i  OBVIOUS
<1>2. ASSUME NEW j \in T, \A i \in T : j <= i PROVE j = k
  <2>1. j <= k /\ k <= j /\ j \in Nat /\ k \in Nat  BY <1>2
  <2> QED  BY <2>1
<1> QED  BY <1>1, <1>2 DEF Min

LEMMA UntilFacts ==
    ASSUME NEW line \in Seq(Seq(Arg)), NEW n \in Nat, n = Len(line)
    PROVE  /\ UntilDashes(line) \in 1..(n + 1)
           /\ UntilDashes(line) \in 1..n => line[UntilDashes(line)] = <<End>>
<1>e. PICK e : e \in Seq(Arg) /\ e = <<End>>
  <2>1. PICK a \in Arg : a = End  BY EndIsArg
  <2>2. <<a>> \in Seq(Arg)  BY SMT
  <2> QED  BY <2>1, <2>2
<1>x. PICK x \in Seq(Seq(Arg)) : x = <<e>> /\ Len(x) = 1 /\ x[1] = e
  <2>1. <<e>> \in Seq(Seq(Arg))  BY <1>e, SMT
  <2> QED  BY <2>1, One
<1>l. PICK all \in Seq(Seq(Arg)) : all = line \o x  BY ConcatProperties
<1>1. Len(all) = n + 1 /\ \A i \in 1..(n + 1) : all[i] = IF i <= n THEN line[i] ELSE x[i - n]
  BY <1>l, <1>x, ConcatProperties
<1> DEFINE T == {i \in 1..(n + 1) : all[i] = e}
<1>2. n + 1 \in T
  <2>1. n + 1 \in 1..(n + 1) /\ ~(n + 1 <= n) /\ (n + 1) - n = 1  OBVIOUS
  <2>2. all[n + 1] = x[1]  BY <1>1, <2>1
  <2> QED  BY <1>x, <2>1, <2>2
<1>3. PICK k \in T : \A i \in T : k <= i
  <2>1. T \subseteq Nat  OBVIOUS
  <2>2. T # {}  BY <1>2
  <2> HIDE DEF T
  <2> QED  BY <2>1, <2>2, Least
<1>4. UntilDashes(line) = k
  <2> DEFINE I(z) == {i \in 1..Len(z) : z[i] = <<End>>}
             U(z) == IF I(z) # {} THEN Min(I(z)) ELSE 0
  <2>1. UntilDashes(line) = U(line \o << <<End>> >>)  BY Zenon DEF UntilDashes, SelectInSeq
  <2>2. U(line \o << <<End>> >>) = IF T # {} THEN Min(T) ELSE 0
    <3>1. U(line \o << <<End>> >>) = U(all)
      <4> HIDE DEF U
      <4> QED  BY <1>e, <1>l, <1>x, Zenon
    <3>2. I(all) = T  BY <1>1, <1>e, Zenon
    <3> HIDE DEF I, T
    <3> QED  BY <3>1, <3>2, Zenon
  <2>3. T \subseteq Nat  OBVIOUS
  <2>4. Min(T) = k
    <3> HIDE DEF T
    <3> QED  BY <1>3, <2>3, LeastIsMin
  <2> HIDE DEF T, I, U
  <2> QED  BY <1>2, <2>1, <2>2, <2>4
<1>5. k \in 1..(n + 1) /\ (k \in 1..n => line[k] = e)
  <2>1. k \in 1..(n + 1) /\ all[k] = e  OBVIOUS
  <2>2. k \in 1..n => all[k] = line[k]  BY <1>1
  <2> QED  BY <2>1, <2>2
<1> QED  BY <1>4, <1>5, <1>e

(* The line from its -- on. *)
Rest(line) == From(line, UntilDashes(line))

LEMMA LineShape ==
    ASSUME NEW line \in Seq(Seq(Arg))
    PROVE  /\ Before(line) \in Seq(Seq(Arg)) /\ Rest(line) \in Seq(Seq(Arg)) /\ Behind(line) \in Seq(Seq(Arg))
           /\ line = Before(line) \o Rest(line)
           /\ EndsWith(Words(Rest(line)), Words(Behind(line)))
           /\ Words(line) = Words(Before(line)) \o Words(Rest(line))
<1>n. PICK n \in Nat : n = Len(line)  BY LenProperties
<1>k. PICK k : k = UntilDashes(line)  OBVIOUS
<1>1. k \in 1..(n + 1) /\ (k \in 1..n => line[k] = <<End>>)  BY <1>k, <1>n, UntilFacts
<1>b. PICK b, d, h : b = Before(line) /\ d = Rest(line) /\ h = Behind(line)  OBVIOUS
<1>2. b = SubSeq(line, 1, k - 1) /\ d = SubSeq(line, k, n) /\ h = SubSeq(line, k + 1, n)
  BY <1>b, <1>k, <1>n, Zenon DEF Before, Rest, Behind, From
<1>3. b \in Seq(Seq(Arg)) /\ d \in Seq(Seq(Arg)) /\ h \in Seq(Seq(Arg))
  <2>0. \A i \in 1..n : line[i] \in Seq(Arg)  BY <1>n, ElementOfSeq
  <2>1. /\ \A i \in 1..(k - 1) : line[i] \in Seq(Arg)
        /\ \A i \in k..n : line[i] \in Seq(Arg)
        /\ \A i \in (k + 1)..n : line[i] \in Seq(Arg)
    BY <1>1, <2>0
  <2>2. k - 1 \in Int /\ k \in Int /\ k + 1 \in Int /\ n \in Int /\ 1 \in Int  BY <1>1
  <2> QED  BY <1>2, <2>1, <2>2, SubSeqProperties
<1>4. line = b \o d
  <2>1. 1 \in 1..(Len(line) + 1) /\ k - 1 \in (1 - 1)..Len(line) /\ Len(line) \in (k - 1)..Len(line) /\ (k - 1) + 1 = k
    BY <1>n, <1>1
  <2>2. SubSeq(line, 1, k - 1) \o SubSeq(line, (k - 1) + 1, Len(line)) = SubSeq(line, 1, Len(line))
    BY <2>1, ConcatAdjacentSubSeq
  <2>3. SubSeq(line, 1, Len(line)) = line  BY SubSeqFull
  <2> QED  BY <1>2, <1>n, <2>1, <2>2, <2>3
<1>0. Words(<<>>) = <<>>
  <2>1. <<>> \in Seq(Seq(Arg))  BY EmptySeq
  <2> QED  BY <2>1, FlattenType DEF Words
<1>5. EndsWith(Words(d), Words(h))
  <2>1. Words(d) \in Seq(Arg) /\ Words(h) \in Seq(Arg)  BY <1>3, FlattenType DEF Words
  <2>2. CASE k \in 1..n
    <3>e. PICK e : e \in Seq(Arg) /\ e = <<End>>
      <4>1. PICK a \in Arg : a = End  BY EndIsArg
      <4>2. <<a>> \in Seq(Arg)  BY SMT
      <4> QED  BY <4>1, <4>2
    <3>1. d = <<line[k]>> \o h
      <4>1. k \in 1..Len(line) /\ Len(line) \in k..Len(line)  BY <1>n, <2>2
      <4> QED  BY <1>2, <1>n, <4>1, SubSeqRecursiveFirst
    <3>2. d = <<e>> \o h  BY <1>1, <2>2, <3>1, <3>e
    <3>3. Words(d) = e \o Words(h)
      <4>1. e \in Seq(Arg)  BY <3>e
      <4> QED  BY <1>3, <3>2, <4>1, FlattenHead DEF Words
    <3> QED  BY <2>1, <3>3, <3>e, Zenon DEF EndsWith
  <2>3. CASE k = n + 1
    <3>1. n < k /\ n < k + 1 /\ k \in Int /\ k + 1 \in Int /\ n \in Int  BY <2>3
    <3>2. d = <<>> /\ h = <<>>  BY <1>2, <3>1, SubSeqEmpty
    <3> QED  BY <1>0, <2>1, <3>2 DEF EndsWith
  <2> QED  BY <1>1, <2>2, <2>3
<1>6. Words(line) = Words(b) \o Words(d)  BY <1>3, <1>4, FlattenConcat DEF Words
<1> QED  BY <1>3, <1>4, <1>5, <1>6, <1>b

LEMMA EndIsSuffix ==
    ASSUME NEW S, NEW w \in Seq(S), NEW s \in Seq(S)
    PROVE  IsSuffix(s, w \o s)
<1>n. PICK m \in Nat, n \in Nat, t \in Seq(S) : m = Len(w) /\ n = Len(s) /\ t = w \o s
  BY LenProperties, ConcatProperties
<1>1. Len(t) = m + n /\ \A i \in 1..(m + n) : t[i] = IF i <= m THEN w[i] ELSE s[i - m]
  BY <1>n, ConcatProperties
<1>r. PICK a, b : a = Reverse(s) /\ b = Reverse(t)  OBVIOUS
<1>2. /\ a \in Seq(S) /\ Len(a) = n /\ \A i \in 1..n : a[i] = s[(n - i) + 1]
      /\ b \in Seq(S) /\ Len(b) = m + n /\ \A i \in 1..(m + n) : b[i] = t[((m + n) - i) + 1]
  BY <1>n, <1>1, <1>r, SMT DEF Reverse
<1>3. ASSUME NEW i \in 1..n PROVE a[i] = b[i]
  <2>1. /\ i \in 1..(m + n) /\ ((m + n) - i) + 1 \in 1..(m + n) /\ ~(((m + n) - i) + 1 <= m)
        /\ (((m + n) - i) + 1) - m = (n - i) + 1
    OBVIOUS
  <2> QED  BY <1>1, <1>2, <2>1
<1>4. SubSeq(a, 1, n) = SubSeq(b, 1, n)
  <2>1. \A i \in 1..n : a[i] \in S /\ b[i] \in S
    <3>1. \A i \in 1..n : i \in 1..Len(a)  BY <1>2
    <3> QED  BY <1>2, <1>3, <3>1, ElementOfSeq
  <2>2. /\ SubSeq(a, 1, n) \in Seq(S) /\ Len(SubSeq(a, 1, n)) = n
        /\ \A i \in 1..n : SubSeq(a, 1, n)[i] = a[i]
    <3>1. Len(SubSeq(a, 1, n)) = IF 1 <= n THEN n - 1 + 1 ELSE 0  BY <2>1, SubSeqProperties
    <3>2. \A i \in 1..(n - 1 + 1) : SubSeq(a, 1, n)[i] = a[1 + i - 1]  BY <2>1, SubSeqProperties
    <3>3. SubSeq(a, 1, n) \in Seq(S)  BY <2>1, SubSeqProperties
    <3> QED  BY <3>1, <3>2, <3>3
  <2>3. /\ SubSeq(b, 1, n) \in Seq(S) /\ Len(SubSeq(b, 1, n)) = n
        /\ \A i \in 1..n : SubSeq(b, 1, n)[i] = b[i]
    <3>1. Len(SubSeq(b, 1, n)) = IF 1 <= n THEN n - 1 + 1 ELSE 0  BY <2>1, SubSeqProperties
    <3>2. \A i \in 1..(n - 1 + 1) : SubSeq(b, 1, n)[i] = b[1 + i - 1]  BY <2>1, SubSeqProperties
    <3>3. SubSeq(b, 1, n) \in Seq(S)  BY <2>1, SubSeqProperties
    <3> QED  BY <3>1, <3>2, <3>3
  <2>4. \A i \in 1..n : SubSeq(a, 1, n)[i] = SubSeq(b, 1, n)[i]  BY <1>3, <2>2, <2>3
  <2> QED  BY <2>2, <2>3, <2>4, SeqEqual
<1>5. n <= m + n  OBVIOUS
<1>6. IsPrefix(a, b)  BY <1>2, <1>4, <1>5 DEF IsPrefix
<1> QED  BY <1>6, <1>n, <1>r DEF IsSuffix

-----------------------------------------------------------------------------
(* The lines that clients have typed. *)
LEMMA LineFacts ==
    ASSUME RequestsInv, NEW line \in Lines
    PROVE  line \in Seq(Seq(Arg)) /\ (Divided(line) => Before(line) \in Seq(Units))
<1>0. Seq(Argument) \subseteq Seq(Arg)
  <2>1. Argument \subseteq Arg  BY DEF Arg
  <2> QED  BY <2>1, SeqMonotonic
<1>1. PICK c \in Client : line = cli[c].line  BY DEF Lines
<1>2. line \in AllLines  BY <1>1 DEF RequestsInv, Shapes, CliType
<1>3. line \in Seq(Seq(Arg))
  <2>1. CASE line = <<>>  BY <2>1, EmptySeq
  <2>2. CASE \E w \in World, d \in Client : line \in LinesIn(w, d)
    <3>1. line \in Seq(Seq(Argument))  BY <2>2, RequestsAssumption
    <3>2. Seq(Seq(Argument)) \subseteq Seq(Seq(Arg))  BY <1>0, SeqMonotonic
    <3> QED  BY <3>1, <3>2
  <2> QED  BY <1>2, <2>1, <2>2 DEF AllLines
<1>4. ASSUME Divided(line) PROVE Before(line) \in Seq(Units)
  <2>1. {unit \in Seq(Argument) : IsUnit(unit)} \subseteq Units  BY <1>0 DEF Units
  <2> QED  BY <1>4, <2>1, SeqMonotonic DEF Divided
<1> QED  BY <1>3, <1>4

(* What stands behind a -- is data, whatever it looks like. *)
LEMMA DashesProtectIn == RequestsInv => NothingBehindDashesIsAFlag
<1> SUFFICES ASSUME RequestsInv, NEW line \in Lines, Accepted(line), Divided(line)
             PROVE  IsSuffix(Words(Behind(line)), Run(Words(line)).words)
  BY DEF NothingBehindDashesIsAFlag
<1>1. line \in Seq(Seq(Arg)) /\ Before(line) \in Seq(Units)  BY LineFacts
<1>d. PICK d, b : d = Words(Rest(line)) /\ b = Words(Behind(line))  OBVIOUS
<1>2. EndsWith(d, b) /\ Words(line) = Words(Before(line)) \o d  BY <1>1, <1>d, LineShape
<1>3. PICK w \in Seq(Arg) : Run(Words(line)).words = w \o b
  <2>1. Run(Words(Before(line)) \o d).verdict = "call"  BY <1>2 DEF Accepted
  <2>2. \E w \in Seq(Arg) : Run(Words(Before(line)) \o d).words = w \o b
    BY <1>1, <1>2, <2>1, AcceptedEndsWith
  <2> QED  BY <1>2, <2>2
<1>4. b \in Seq(Arg)  BY <1>2 DEF EndsWith
<1>5. IsSuffix(b, w \o b)  BY <1>4, EndIsSuffix
<1> QED  BY <1>3, <1>5, <1>d

(* Theorem: behind the -- of an accepted line whose flags have their       *)
(* values nothing is taken for a flag: what the request says ends with it  *)
(* (reorderArgs, app.go:193-235).                                          *)
THEOREM DashesProtect == RequestsSpec => []NothingBehindDashesIsAFlag
BY RequestsInvAlways, DashesProtectIn, PTL

-----------------------------------------------------------------------------
(* Cutting a line, and putting a unit in. *)
Cuts(S, m, k) == \E p, q \in Seq(S) : m = p \o q /\ Len(p) = k

LEMMA CutAt ==
    ASSUME NEW S, NEW m \in Seq(S), NEW k \in Nat, k <= Len(m)
    PROVE  Cuts(S, m, k)
<1>n. PICK n \in Nat : n = Len(m)  BY LenProperties
<1>0. \A i \in 1..n : m[i] \in S  BY <1>n, ElementOfSeq
<1>1. SubSeq(m, 1, k) \in Seq(S) /\ Len(SubSeq(m, 1, k)) = k
  <2>1. \A i \in 1..k : m[i] \in S  BY <1>0, <1>n
  <2>2. Len(SubSeq(m, 1, k)) = IF 1 <= k THEN k - 1 + 1 ELSE 0  BY <2>1, SubSeqProperties
  <2>3. SubSeq(m, 1, k) \in Seq(S)  BY <2>1, SubSeqProperties
  <2> QED  BY <2>2, <2>3
<1>2. SubSeq(m, k + 1, n) \in Seq(S)
  <2>1. \A i \in (k + 1)..n : m[i] \in S  BY <1>0
  <2> QED  BY <2>1, SubSeqProperties
<1>3. m = SubSeq(m, 1, k) \o SubSeq(m, k + 1, n)
  <2>1. 1 \in 1..(Len(m) + 1) /\ k \in (1 - 1)..Len(m) /\ Len(m) \in k..Len(m)  BY <1>n
  <2>2. SubSeq(m, 1, k) \o SubSeq(m, k + 1, Len(m)) = SubSeq(m, 1, Len(m))
    BY <2>1, ConcatAdjacentSubSeq
  <2> QED  BY <1>n, <2>2, SubSeqFull
<1> QED  BY <1>1, <1>2, <1>3 DEF Cuts

LEMMA InsertBetween ==
    ASSUME NEW S, NEW a \in Seq(S), NEW b \in Seq(S), NEW u
    PROVE  Insert(a \o b, Len(a), u) = (a \o <<u>>) \o b
<1>n. PICK m \in Nat, n \in Nat, ab \in Seq(S) : m = Len(a) /\ n = Len(b) /\ ab = a \o b
  BY LenProperties, ConcatProperties
<1>1. Len(ab) = m + n /\ \A i \in 1..(m + n) : ab[i] = IF i <= m THEN a[i] ELSE b[i - m]
  BY <1>n, ConcatProperties
<1>2. SubSeq(ab, 1, m) = a
  <2>1. \A i \in 1..m : ab[i] \in S /\ ab[i] = a[i]
    <3>1. \A i \in 1..m : i \in 1..Len(a)  BY <1>n
    <3> QED  BY <1>1, <3>1, ElementOfSeq
  <2>2. Len(SubSeq(ab, 1, m)) = m /\ SubSeq(ab, 1, m) \in Seq(S)
    <3>1. Len(SubSeq(ab, 1, m)) = IF 1 <= m THEN m - 1 + 1 ELSE 0  BY <2>1, SubSeqProperties
    <3>2. SubSeq(ab, 1, m) \in Seq(S)  BY <2>1, SubSeqProperties
    <3> QED  BY <3>1, <3>2
  <2>3. \A i \in 1..m : SubSeq(ab, 1, m)[i] = a[i]
    <3>1. \A i \in 1..(m - 1 + 1) : SubSeq(ab, 1, m)[i] = ab[1 + i - 1]  BY <2>1, SubSeqProperties
    <3> QED  BY <2>1, <3>1
  <2> QED  BY <1>n, <2>2, <2>3, SeqEqual
<1>3. From(ab, m + 1) = b
  <2>1. 1 \in 1..(Len(b) + 2)  BY <1>n
  <2>2. From(a \o b, Len(a) + 1) = From(b, 1)  BY <2>1, ConcatAt
  <2>3. From(b, 1) = b  BY SubSeqFull DEF From
  <2> QED  BY <1>n, <2>2, <2>3
<1> QED  BY <1>n, <1>2, <1>3 DEF Insert

Joins(l, a, c) ==
    /\ Len(l) = Len(a) + Len(c)
    /\ \A i \in 1..Len(a) : l[i] = a[i]
    /\ \A i \in 1..Len(c) : l[Len(a) + i] = c[i]

LEMMA Joining ==
    ASSUME NEW S, NEW a \in Seq(S), NEW c \in Seq(S)
    PROVE  Joins(a \o c, a, c)
<1>n. PICK m \in Nat, n \in Nat, l \in Seq(S) : m = Len(a) /\ n = Len(c) /\ l = a \o c
  BY LenProperties, ConcatProperties
<1>1. Len(l) = m + n /\ \A i \in 1..(m + n) : l[i] = IF i <= m THEN a[i] ELSE c[i - m]
  BY <1>n, ConcatProperties
<1>2. \A i \in 1..m : l[i] = a[i]  BY <1>1
<1>3. ASSUME NEW i \in 1..n PROVE l[m + i] = c[i]
  <2>1. m + i \in 1..(m + n) /\ ~(m + i <= m) /\ (m + i) - m = i  OBVIOUS
  <2> QED  BY <1>1, <2>1
<1> QED  BY <1>1, <1>2, <1>3, <1>n, Zenon DEF Joins

Between(S, l, a, x, y, b) ==
    /\ l \in Seq(S) /\ Len(l) = Len(a) + (Len(b) + 2)
    /\ \A i \in 1..Len(a) : l[i] = a[i]
    /\ l[Len(a) + 1] = x /\ l[Len(a) + 2] = y
    /\ \A i \in 1..Len(b) : l[Len(a) + (i + 2)] = b[i]

LEMMA PairBetween ==
    ASSUME NEW S, NEW a \in Seq(S), NEW b \in Seq(S), NEW x \in S, NEW y \in S
    PROVE  Between(S, a \o (<<x, y>> \o b), a, x, y, b)
<1>n. PICK m \in Nat, n \in Nat : m = Len(a) /\ n = Len(b)  BY LenProperties
<1>p. PICK p \in Seq(S) : p = <<x, y>>
  <2>1. <<x, y>> \in Seq(S)  BY SMT
  <2> QED  BY <2>1
<1>0. Len(p) = 2 /\ p[1] = x /\ p[2] = y  BY <1>p, Two
<1>c. PICK c \in Seq(S) : c = p \o b  BY ConcatProperties
<1>1. Len(c) = 2 + n /\ (\A i \in 1..2 : c[i] = p[i]) /\ \A i \in 1..n : c[2 + i] = b[i]
  <2>1. Joins(c, p, b)  BY <1>c, Joining
  <2> QED  BY <1>0, <1>n, <2>1, Zenon DEF Joins
<1>l. PICK l \in Seq(S) : l = a \o c  BY ConcatProperties
<1>2. Len(l) = m + (2 + n) /\ (\A i \in 1..m : l[i] = a[i]) /\ \A i \in 1..(2 + n) : l[m + i] = c[i]
  <2>1. Joins(l, a, c)  BY <1>l, Joining
  <2> QED  BY <1>1, <1>n, <2>1, Zenon DEF Joins
<1>3. Len(l) = m + (n + 2) /\ \A i \in 1..m : l[i] = a[i]
  <2>1. m + (2 + n) = m + (n + 2)  OBVIOUS
  <2> QED  BY <1>2, <2>1, Zenon
<1>4. l[m + 1] = x /\ l[m + 2] = y
  <2>0. 1 \in 1..2 /\ 2 \in 1..2 /\ 1 \in 1..(2 + n) /\ 2 \in 1..(2 + n)  OBVIOUS
  <2>1. l[m + 1] = c[1] /\ l[m + 2] = c[2]  BY <1>2, <2>0, Zenon
  <2>2. c[1] = p[1] /\ c[2] = p[2]  BY <1>1, <2>0, Zenon
  <2> QED  BY <1>0, <2>1, <2>2
<1>5. ASSUME NEW i \in 1..n PROVE l[m + (i + 2)] = b[i]
  <2>1. 2 + i \in 1..(2 + n) /\ 2 + i = i + 2  OBVIOUS
  <2>2. l[m + (2 + i)] = c[2 + i]  BY <1>2, <2>1, Zenon
  <2>3. c[2 + i] = b[i]  BY <1>1, Zenon
  <2> QED  BY <2>1, <2>2, <2>3, Zenon
<1>6. Between(S, l, a, x, y, b)  BY <1>n, <1>3, <1>4, <1>5, Zenon DEF Between
<1> QED  BY <1>6, <1>p, <1>c, <1>l, Zenon

Swaps(a, b, u, v) ==
    LET line == a \o (<<u, v>> \o b)
        i == Len(a) + 1
    IN /\ line[i] = u /\ line[i + 1] = v
       /\ Swap(line, i) = a \o (<<v, u>> \o b)

LEMMA SwapBetween ==
    ASSUME NEW S, NEW a \in Seq(S), NEW b \in Seq(S), NEW u \in S, NEW v \in S
    PROVE  Swaps(a, b, u, v)
<1>n. PICK m \in Nat, n \in Nat : m = Len(a) /\ n = Len(b)  BY LenProperties
<1>l. PICK l, r : l = a \o (<<u, v>> \o b) /\ r = a \o (<<v, u>> \o b)  OBVIOUS
<1>0. Between(S, l, a, u, v, b) /\ Between(S, r, a, v, u, b)
  <2>1. Between(S, a \o (<<u, v>> \o b), a, u, v, b)  BY PairBetween
  <2>2. Between(S, a \o (<<v, u>> \o b), a, v, u, b)  BY PairBetween
  <2> QED  BY <1>l, <2>1, <2>2, Zenon
<1>2. /\ l \in Seq(S) /\ Len(l) = m + (n + 2) /\ \A i \in 1..m : l[i] = a[i]
      /\ l[m + 1] = u /\ l[m + 2] = v /\ \A i \in 1..n : l[m + (i + 2)] = b[i]
  BY <1>n, <1>0, Zenon DEF Between
<1>3. /\ r \in Seq(S) /\ Len(r) = m + (n + 2) /\ \A i \in 1..m : r[i] = a[i]
      /\ r[m + 1] = v /\ r[m + 2] = u /\ \A i \in 1..n : r[m + (i + 2)] = b[i]
  BY <1>n, <1>0, Zenon DEF Between
<1>s. PICK s : s = Swap(l, m + 1)  OBVIOUS
<1>4. s = [l EXCEPT ![m + 1] = v, ![m + 2] = u]
  <2>1. (m + 1) + 1 = m + 2  OBVIOUS
  <2>2. s = [l EXCEPT ![m + 1] = l[(m + 1) + 1], ![(m + 1) + 1] = l[m + 1]]  BY <1>s, Zenon DEF Swap
  <2> QED  BY <1>2, <2>1, <2>2, Zenon
<1>5. /\ s \in Seq(S) /\ Len(s) = m + (n + 2)
      /\ \A i \in 1..(m + (n + 2)) : s[i] = IF i = m + 2 THEN u ELSE IF i = m + 1 THEN v ELSE l[i]
  <2>1. m + 1 \in 1..(m + (n + 2)) /\ m + 2 \in 1..(m + (n + 2)) /\ m + 1 # m + 2  OBVIOUS
  <2>2. l \in [1..(m + (n + 2)) -> S]  BY <1>2, LenProperties
  <2>3. s \in [1..(m + (n + 2)) -> S]  BY <1>4, <2>2
  <2>4. \A i \in 1..(m + (n + 2)) : s[i] = IF i = m + 2 THEN u ELSE IF i = m + 1 THEN v ELSE l[i]
    BY <1>4, <2>1, <2>2
  <2>5. s \in Seq(S) /\ Len(s) = m + (n + 2)
    <3>1. m + (n + 2) \in Nat  OBVIOUS
    <3> QED  BY <2>3, <3>1
  <2> QED  BY <2>4, <2>5
<1>6. ASSUME NEW i \in 1..(m + (n + 2)) PROVE s[i] = r[i]
  <2>1. CASE i <= m
    <3>1. i \in 1..m /\ i # m + 1 /\ i # m + 2  BY <2>1
    <3> QED  BY <1>2, <1>3, <1>5, <3>1
  <2>2. CASE i = m + 1 \/ i = m + 2
    <3>1. m + 1 # m + 2  OBVIOUS
    <3> QED  BY <1>3, <1>5, <2>2, <3>1
  <2>3. CASE i > m + 2
    <3>j. PICK j \in 1..n : i = m + (j + 2)
      <4>1. i - (m + 2) \in 1..n /\ i = m + ((i - (m + 2)) + 2)  BY <2>3
      <4> QED  BY <4>1
    <3>1. i # m + 1 /\ i # m + 2  BY <2>3
    <3>2. s[i] = l[i]  BY <1>5, <3>1
    <3> QED  BY <1>2, <1>3, <3>j, <3>2
  <2> QED  BY <2>1, <2>2, <2>3
<1>7. s = r  BY <1>3, <1>5, <1>6, SeqEqual
<1>8. l[m + 1] = u /\ l[(m + 1) + 1] = v
  <2>1. (m + 1) + 1 = m + 2  OBVIOUS
  <2> QED  BY <1>2, <2>1
<1> QED  BY <1>7, <1>8, <1>l, <1>n, <1>s DEF Swaps

-----------------------------------------------------------------------------
(* What a change of the units behind the subcommand makes of the request. *)
LEMMA SwapSubmit ==
    ASSUME NEW sub \in Subcommand, NEW p \in Seq(Known(sub, Names(sub))), NEW q \in Seq(Known(sub, Names(sub))),
           NEW u \in Known(sub, Names(sub)), NEW v \in Known(sub, Names(sub)),
           u[1].dashes = 0, v[1].dashes # 0, NEW d, NEW b, EndsWith(d, b)
    PROVE  Submit(sub, (Words(p) \o ((u \o v) \o Words(q))) \o d) = Submit(sub, (Words(p) \o ((v \o u) \o Words(q))) \o d)
<1>0. Names(sub) \subseteq Names(sub)  OBVIOUS
<1>1. PICK f, w, s : Means(sub, Names(sub), Words(p), f, w, s)  BY <1>0, LineMeans
<1>2. PICK g, y, r : Means(sub, Names(sub), Words(q), g, y, r)  BY <1>0, LineMeans
<1>3. Means(sub, Names(sub), u, <<>>, u, <<>>)
  <2>1. PICK uf, uw, us : /\ Means(sub, Names(sub), u, uf, uw, us)
                          /\ IF u[1].dashes = 0 THEN uf = <<>> /\ uw = u /\ us = <<>> ELSE uf = u /\ uw = <<>>
    BY <1>0, UnitMeans
  <2> QED  BY <2>1
<1>4. PICK t : Means(sub, Names(sub), v, v, <<>>, t)
  <2>1. PICK vf, vw, vs : /\ Means(sub, Names(sub), v, vf, vw, vs)
                          /\ IF v[1].dashes = 0 THEN vf = <<>> /\ vw = v /\ vs = <<>> ELSE vf = v /\ vw = <<>>
    BY <1>0, UnitMeans
  <2> QED  BY <2>1
<1> QED  BY <1>1, <1>2, <1>3, <1>4, SwapMeans

LEMMA SocketSubmit ==
    ASSUME NEW sub \in Subcommand, NEW p \in Seq(Known(sub, OwnFlags(sub))), NEW q \in Seq(Known(sub, OwnFlags(sub))),
           NEW d, NEW b, EndsWith(d, b), Submit(sub, (Words(p) \o Words(q)) \o d).verdict = "call"
    PROVE  /\ Submit(sub, (Words(p) \o (SocketUnit \o Words(q))) \o d) =
                 Submit(sub, (SocketUnit \o (Words(p) \o Words(q))) \o d)
           /\ Submit(sub, (SocketUnit \o (Words(p) \o Words(q))) \o d).verdict = "call"
<1>0. OwnFlags(sub) \subseteq Names(sub) /\ Names(sub) \subseteq Names(sub)  BY DEF Names
<1>1. PICK f, w, s : Means(sub, OwnFlags(sub), Words(p), f, w, s)  BY <1>0, LineMeans
<1>2. PICK g, y, r : Means(sub, OwnFlags(sub), Words(q), g, y, r)  BY <1>0, LineMeans
<1>a. PICK a \in Arg, v \in Arg : a = Flag("tmux-socket") /\ v = Word("sock")  BY SocketFacts
<1>3. a.dashes = 2 /\ a.name = "tmux-socket" /\ a.value = None  BY <1>a DEF Flag
<1>4. a # End /\ a.name \in Valued \cap Names(sub)
  <2>1. "tmux-socket" # ""  BY Zenon
  <2>2. End.name = ""  BY Zenon DEF End, Flag
  <2>3. a.name # End.name  BY <1>3, <2>1, <2>2, Zenon
  <2>4. a.name \in Global  BY <1>3 DEF Global
  <2>5. a # End  BY <2>3, Zenon
  <2> QED  BY <2>4, <2>5 DEF Valued, Names
<1>st. PICK st : st = [name |-> a.name, arg |-> v]  OBVIOUS
<1>5. Means(sub, Names(sub), <<a, v>>, <<a, v>>, <<>>, <<[name |-> a.name, arg |-> v]>>)
  <2>1. a.dashes = 2 /\ a.value = None  BY <1>3
  <2> QED  BY <1>0, <1>4, <2>1, PairMeans
<1>x. PICK x : x = SocketUnit  OBVIOUS
<1>6. Means(sub, Names(sub), x, x, <<>>, <<st>>)
  <2>1. x = <<a, v>>  BY <1>a, <1>x DEF SocketUnit
  <2> QED  BY <1>5, <1>st, <2>1, Zenon
<1>7. st.name = "tmux-socket"  BY <1>3, <1>st
<1>8. /\ Submit(sub, (Words(p) \o (x \o Words(q))) \o d) = Submit(sub, (x \o (Words(p) \o Words(q))) \o d)
      /\ Submit(sub, (x \o (Words(p) \o Words(q))) \o d).verdict = "call"
  BY <1>1, <1>2, <1>6, <1>7, SocketMeans
<1> QED  BY <1>8, <1>x, Zenon

LEMMA HelpSubmit ==
    ASSUME NEW sub \in Subcommand, NEW p \in Seq(Known(sub, Names(sub))), NEW z \in Seq(Arg)
    PROVE  Submit(sub, Words(p) \o (<<Flag("help")>> \o z)).verdict = "help"
<1>0. Names(sub) \subseteq Names(sub)  OBVIOUS
<1>1. PICK f, w, s : Means(sub, Names(sub), Words(p), f, w, s)  BY <1>0, LineMeans
<1> QED  BY <1>1, HelpMeans

(* The arguments of a line: the subcommand, then p, x and q, and the end. *)
LaidOut(a, p, x, q, d) == <<a>> \o ((p \o (x \o q)) \o d)

LineRegrouped(w, p, x, q, d) ==
    /\ (w \o p) \o (x \o (q \o d)) = w \o ((p \o (x \o q)) \o d)
    /\ (w \o p) \o (x \o (q \o d)) = (w \o (p \o (x \o q))) \o d

Associates(S) == \A x, y, z \in Seq(S) : (x \o y) \o z = x \o (y \o z)

LEMMA RegroupIn ==
    ASSUME NEW S
    PROVE  Associates(S)
BY ConcatAssociative DEF Associates

LEMMA RegroupLine ==
    ASSUME NEW S, NEW w \in Seq(S), NEW p \in Seq(S), NEW x \in Seq(S), NEW q \in Seq(S), NEW d \in Seq(S)
    PROVE  LineRegrouped(w, p, x, q, d)
<1>0. Associates(S)  BY RegroupIn
<1>1. x \o (q \o d) = (x \o q) \o d  BY <1>0, ZenonT(60) DEF Associates
<1>2. x \o q \in Seq(S)  BY ConcatProperties
<1>3. (x \o q) \o d \in Seq(S) /\ p \o (x \o q) \in Seq(S)  BY <1>2, ConcatProperties
<1>4. (w \o p) \o ((x \o q) \o d) = w \o (p \o ((x \o q) \o d))
  <2>1. \A z \in Seq(S) : (w \o p) \o z = w \o (p \o z)  BY <1>0, Zenon DEF Associates
  <2> QED  BY <1>3, <2>1, Zenon
<1>5. (p \o (x \o q)) \o d = p \o ((x \o q) \o d)
  <2>1. \A z \in Seq(S) : (p \o z) \o d = p \o (z \o d)  BY <1>0, ZenonT(60) DEF Associates
  <2> QED  BY <1>2, <2>1, Zenon
<1>6. (w \o (p \o (x \o q))) \o d = w \o ((p \o (x \o q)) \o d)
  <2>1. \A z \in Seq(S) : (w \o z) \o d = w \o (z \o d)  BY <1>0, ZenonT(60) DEF Associates
  <2> QED  BY <1>3, <2>1, Zenon
<1> QED  BY <1>1, <1>4, <1>5, <1>6, Zenon DEF LineRegrouped

LEMMA WordsLaidOut ==
    ASSUME NEW a \in Arg, NEW p \in Seq(Seq(Arg)), NEW xs \in Seq(Seq(Arg)), NEW q \in Seq(Seq(Arg)),
           NEW tail \in Seq(Seq(Arg))
    PROVE  Words((<< <<a>> >> \o p) \o (xs \o (q \o tail))) = LaidOut(a, Words(p), Words(xs), Words(q), Words(tail))
<1>1. /\ Words(p) \in Seq(Arg) /\ Words(xs) \in Seq(Arg) /\ Words(q) \in Seq(Arg) /\ Words(tail) \in Seq(Arg)
  BY FlattenType DEF Words
<1>w. PICK w : w \in Seq(Arg) /\ w = <<a>>
  <2>1. <<a>> \in Seq(Arg)  BY SMT
  <2> QED  BY <2>1
<1>wp. PICK wp : wp \in Seq(Seq(Arg)) /\ wp = <<w>> \o p
  <2>1. w \in Seq(Arg)  BY <1>w
  <2>2. <<w>> \o p \in Seq(Seq(Arg))  BY <2>1, HeadOfLine
  <2> QED  BY <2>2
<1>2. Words(wp) = w \o Words(p)
  <2>1. w \in Seq(Arg)  BY <1>w
  <2>2. Words(<<w>> \o p) = w \o Words(p)  BY <2>1, FlattenHead DEF Words
  <2> QED  BY <1>wp, <2>2, Zenon
<1>3. q \o tail \in Seq(Seq(Arg)) /\ Words(q \o tail) = Words(q) \o Words(tail)
  BY ConcatProperties, FlattenConcat DEF Words
<1>4. xs \o (q \o tail) \in Seq(Seq(Arg)) /\ Words(xs \o (q \o tail)) = Words(xs) \o Words(q \o tail)
  BY <1>3, ConcatProperties, FlattenConcat DEF Words
<1>5. Words(wp \o (xs \o (q \o tail))) = Words(wp) \o Words(xs \o (q \o tail))
  <2>1. wp \in Seq(Seq(Arg))  BY <1>wp
  <2> QED  BY <1>4, <2>1, FlattenConcat DEF Words
<1>6. (w \o Words(p)) \o (Words(xs) \o (Words(q) \o Words(tail))) =
         w \o ((Words(p) \o (Words(xs) \o Words(q))) \o Words(tail))
  <2>1. w \in Seq(Arg)  BY <1>w
  <2>2. LineRegrouped(w, Words(p), Words(xs), Words(q), Words(tail))  BY <1>1, <2>1, RegroupLine
  <2> QED  BY <2>2, Zenon DEF LineRegrouped
<1> QED  BY <1>2, <1>3, <1>4, <1>5, <1>6, <1>w, <1>wp, Zenon DEF LaidOut

Requested(sub, p, xs, q, tail) ==
    Run(Words((<< <<Word(sub)>> >> \o p) \o (xs \o (q \o tail)))) =
        Submit(sub, (Words(p) \o (Words(xs) \o Words(q))) \o Words(tail))

LEMMA RunOfUnits ==
    ASSUME NEW sub \in Subcommand, Word(sub) \in Arg, NEW p \in Seq(Seq(Arg)), NEW xs \in Seq(Seq(Arg)),
           NEW q \in Seq(Seq(Arg)), NEW tail \in Seq(Seq(Arg))
    PROVE  Requested(sub, p, xs, q, tail)
<1>a. PICK a \in Arg : a = Word(sub)  OBVIOUS
<1>1. Words((<< <<a>> >> \o p) \o (xs \o (q \o tail))) = LaidOut(a, Words(p), Words(xs), Words(q), Words(tail))
  BY WordsLaidOut
<1>2. PICK z \in Seq(Arg) : z = (Words(p) \o (Words(xs) \o Words(q))) \o Words(tail)
  <2>1. Words(p) \in Seq(Arg) /\ Words(xs) \in Seq(Arg) /\ Words(q) \in Seq(Arg) /\ Words(tail) \in Seq(Arg)
    BY FlattenType DEF Words
  <2>2. Words(xs) \o Words(q) \in Seq(Arg)  BY <2>1, ConcatProperties
  <2>3. Words(p) \o (Words(xs) \o Words(q)) \in Seq(Arg)  BY <2>1, <2>2, ConcatProperties
  <2> QED  BY <2>1, <2>3, ConcatProperties
<1>3. Run(<<Word(sub)>> \o z) = Submit(sub, z)  BY RunOfLine
<1> QED  BY <1>1, <1>2, <1>3, <1>a, Zenon DEF LaidOut, Requested

LEMMA PairOfUnits ==
    ASSUME NEW u \in Seq(Arg), NEW v \in Seq(Arg)
    PROVE  <<u, v>> \in Seq(Seq(Arg)) /\ Words(<<u, v>>) = u \o v
<1>1. <<v>> \in Seq(Seq(Arg)) /\ Words(<<v>>) = v
  <2>1. <<v>> \in Seq(Seq(Arg))  BY SMT
  <2> QED  BY <2>1, FlattenOne DEF Words
<1>2. <<u, v>> = <<u>> \o <<v>> /\ <<u, v>> \in Seq(Seq(Arg))
  <2>1. <<u, v>> \in Seq(Seq(Arg))  BY SMT
  <2> QED  BY <2>1, Two
<1>3. Words(<<u>> \o <<v>>) = u \o Words(<<v>>)  BY <1>1, FlattenHead DEF Words
<1> QED  BY <1>1, <1>2, <1>3, Zenon

LEMMA KnownUnits ==
    ASSUME NEW sub, NEW Name
    PROVE  /\ Known(sub, Name) \subseteq Seq(Arg)
           /\ \A m \in Seq(Known(sub, Name)) : m \in Seq(Seq(Arg)) /\ Words(m) \in Seq(Arg)
<1>1. Known(sub, Name) \subseteq Seq(Arg)  BY DEF Known, Units
<1>2. Seq(Known(sub, Name)) \subseteq Seq(Seq(Arg))  BY <1>1, SeqMonotonic
<1>3. \A m \in Seq(Seq(Arg)) : Words(m) \in Seq(Arg)  BY FlattenType DEF Words
<1> QED  BY <1>1, <1>2, <1>3

LEMMA SwapUnits ==
    ASSUME NEW sub \in Subcommand, Word(sub) \in Arg,
           NEW p \in Seq(Known(sub, Names(sub))), NEW q \in Seq(Known(sub, Names(sub))),
           NEW u \in Known(sub, Names(sub)), NEW v \in Known(sub, Names(sub)),
           (u[1].dashes = 0) # (v[1].dashes = 0),
           NEW tail \in Seq(Seq(Arg)), NEW b, EndsWith(Words(tail), b)
    PROVE  Run(Words((<< <<Word(sub)>> >> \o p) \o (<<v, u>> \o (q \o tail)))) =
               Run(Words((<< <<Word(sub)>> >> \o p) \o (<<u, v>> \o (q \o tail))))
<1>1. u \in Seq(Arg) /\ v \in Seq(Arg) /\ p \in Seq(Seq(Arg)) /\ q \in Seq(Seq(Arg))  BY KnownUnits
<1>2. /\ <<u, v>> \in Seq(Seq(Arg)) /\ Words(<<u, v>>) = u \o v
      /\ <<v, u>> \in Seq(Seq(Arg)) /\ Words(<<v, u>>) = v \o u
  BY <1>1, PairOfUnits
<1>3. Requested(sub, p, <<u, v>>, q, tail)
  <2>1. PICK xs \in Seq(Seq(Arg)) : xs = <<u, v>>  BY <1>2
  <2>2. Requested(sub, p, xs, q, tail)  BY <1>1, RunOfUnits
  <2> QED  BY <2>1, <2>2, Zenon
<1>4. Requested(sub, p, <<v, u>>, q, tail)
  <2>1. PICK xs \in Seq(Seq(Arg)) : xs = <<v, u>>  BY <1>2
  <2>2. Requested(sub, p, xs, q, tail)  BY <1>1, RunOfUnits
  <2> QED  BY <2>1, <2>2, Zenon
<1>5. Submit(sub, (Words(p) \o ((v \o u) \o Words(q))) \o Words(tail)) =
         Submit(sub, (Words(p) \o ((u \o v) \o Words(q))) \o Words(tail))
  <2>1. CASE u[1].dashes = 0 /\ v[1].dashes # 0  BY <2>1, SwapSubmit
  <2>2. CASE v[1].dashes = 0 /\ u[1].dashes # 0  BY <2>2, SwapSubmit
  <2> QED  BY <2>1, <2>2
<1> QED  BY <1>2, <1>3, <1>4, <1>5, Zenon DEF Requested

CutsPair(S, m, k) == \E p, q \in Seq(S), u, v \in S : m = p \o (<<u, v>> \o q) /\ Len(p) = k

LEMMA CutPair ==
    ASSUME NEW S, NEW m \in Seq(S), NEW k \in Nat, k + 2 <= Len(m)
    PROVE  CutsPair(S, m, k)
<1>0. \A u, v \in S : \A q \in Seq(S) : <<u, v>> \o q = <<u>> \o (<<v>> \o q)
  BY PairOfLine, SMTT(40)
<1>n. PICK n \in Nat : n = Len(m)  BY LenProperties
<1>1. PICK p, r \in Seq(S) : m = p \o r /\ Len(p) = k
  <2>1. k <= Len(m)  BY <1>n
  <2> QED  BY <2>1, CutAt, ZenonT(60) DEF Cuts
<1>2. Len(r) >= 2
  <2>1. Joins(p \o r, p, r)  BY Joining
  <2>2. Len(m) = Len(p) + Len(r)  BY <1>1, <2>1, Zenon DEF Joins
  <2>3. Len(r) \in Nat  BY LenProperties, SMTT(40)
  <2> QED  BY <1>1, <2>2, <2>3
<1>3. PICK u \in S, s \in Seq(S) : r = <<u>> \o s /\ Len(s) = Len(r) - 1
  <2>1. r # <<>>  BY <1>2, EmptySeq
  <2>2. r[1] \in S /\ Tail(r) \in Seq(S) /\ Len(Tail(r)) = Len(r) - 1 /\ r = <<r[1]>> \o Tail(r)
    BY <2>1, FirstAndRest, SMTT(40)
  <2> QED  BY <2>2
<1>4. PICK v \in S, q \in Seq(S) : s = <<v>> \o q
  <2>0. Len(s) # 0
    <3>1. Len(r) \in Nat  BY LenProperties
    <3> QED  BY <1>2, <1>3, <3>1
  <2>1. s # <<>>  BY <2>0, EmptySeq
  <2>2. s[1] \in S /\ Tail(s) \in Seq(S) /\ s = <<s[1]>> \o Tail(s)  BY <2>1, FirstAndRest
  <2> QED  BY <2>2
<1>5. <<u, v>> \o q = <<u>> \o (<<v>> \o q)  BY <1>0, Zenon
<1>6. m = p \o (<<u, v>> \o q)  BY <1>1, <1>3, <1>4, <1>5, Zenon
<1> QED  BY <1>1, <1>6, Zenon DEF CutsPair

(* The line of a call: its subcommand, units that it knows, and the rest. *)
CallLine(line, sub, m, tail, b) ==
    /\ sub \in Subcommand /\ Word(sub) \in Arg /\ m \in Seq(Known(sub, Names(sub)))
    /\ (\A i \in 1..Len(Before(line)) : ~IsGlobalUnit(line[i])) => m \in Seq(Known(sub, OwnFlags(sub)))
    /\ tail \in Seq(Seq(Arg)) /\ EndsWith(Words(tail), b)
    /\ Before(line) = << <<Word(sub)>> >> \o m /\ line = (<< <<Word(sub)>> >> \o m) \o tail
    /\ Submit(sub, Words(m) \o Words(tail)).verdict = "call"

LEMMA LineCalls ==
    ASSUME RequestsInv, NEW line \in Lines, Accepted(line), Divided(line), ~IsGlobalUnit(line[1])
    PROVE  \E sub, m, tail, b : CallLine(line, sub, m, tail, b)
<1>1. line \in Seq(Seq(Arg)) /\ Before(line) \in Seq(Units)  BY LineFacts
<1>d. PICK units, tail, b : units = Before(line) /\ tail = Rest(line) /\ b = Words(Behind(line))  OBVIOUS
<1>2. /\ units \in Seq(Units) /\ units \in Seq(Seq(Arg)) /\ tail \in Seq(Seq(Arg)) /\ line = units \o tail
      /\ EndsWith(Words(tail), b) /\ Words(line) = Words(units) \o Words(tail)
  BY <1>1, <1>d, LineShape
<1>3. \A i \in 1..Len(units) : line[i] = units[i]
  <2>1. Joins(line, units, tail)
    <3>1. Joins(units \o tail, units, tail)  BY <1>2, Joining
    <3> QED  BY <1>2, <3>1, Zenon
  <2> QED  BY <2>1, Zenon DEF Joins
<1>4. Starts(units)
  <2> SUFFICES ASSUME units # <<>> PROVE ~IsGlobalUnit(units[1])  BY DEF Starts
  <2>1. Len(units) \in Nat /\ Len(units) # 0  BY <1>2, EmptySeq, LenProperties
  <2>2. 1 \in 1..Len(units)  BY <2>1
  <2> QED  BY <1>3, <2>2, Zenon
<1>5. Run(Words(units) \o Words(tail)).verdict = "call"  BY <1>2, Zenon DEF Accepted
<1>6. PICK sub, m : Calls(units, Words(tail), sub, m)  BY <1>2, <1>4, <1>5, AcceptedCalls
<1>7. Submit(sub, Words(m) \o Words(tail)).verdict = "call"  BY <1>5, <1>6, Zenon DEF Calls
<1>8. (\A i \in 1..Len(Before(line)) : ~IsGlobalUnit(line[i])) => NoGlobal(units)
  BY <1>3, <1>d, Zenon DEF NoGlobal
<1>9. CallLine(line, sub, m, tail, b)
  <2>1. /\ sub \in Subcommand /\ Word(sub) \in Arg /\ m \in Seq(Known(sub, Names(sub)))
        /\ NoGlobal(units) => m \in Seq(Known(sub, OwnFlags(sub)))
        /\ units = << <<Word(sub)>> >> \o m
    BY <1>6, Zenon DEF Calls
  <2>2. line = (<< <<Word(sub)>> >> \o m) \o tail /\ Before(line) = << <<Word(sub)>> >> \o m
    BY <1>2, <1>d, <2>1, Zenon
  <2> QED  BY <1>2, <1>7, <1>8, <2>1, <2>2, Zenon DEF CallLine
<1> QED  BY <1>9, Zenon

LEMMA SubcommandUnit ==
    ASSUME NEW a \in Arg, NEW m \in Seq(Seq(Arg))
    PROVE  /\ << <<a>> >> \o m \in Seq(Seq(Arg))
           /\ Len(<< <<a>> >> \o m) = Len(m) + 1
           /\ Words(<< <<a>> >> \o m) = <<a>> \o Words(m)
<1>w. PICK w \in Seq(Arg) : w = <<a>>
  <2>1. <<a>> \in Seq(Arg)  BY SMT
  <2> QED  BY <2>1
<1>1. <<w>> \o m \in Seq(Seq(Arg)) /\ Len(<<w>> \o m) = Len(m) + 1  BY HeadOfLine
<1>2. Words(<<w>> \o m) = w \o Words(m)  BY FlattenHead DEF Words
<1> QED  BY <1>1, <1>2, <1>w, Zenon

LEMMA WordsOfLine ==
    ASSUME NEW a \in Arg, NEW m \in Seq(Seq(Arg)), NEW tail \in Seq(Seq(Arg))
    PROVE  /\ (<< <<a>> >> \o m) \o tail \in Seq(Seq(Arg))
           /\ Words((<< <<a>> >> \o m) \o tail) = <<a>> \o (Words(m) \o Words(tail))
<1>1. PICK am \in Seq(Seq(Arg)) : am = << <<a>> >> \o m /\ Words(am) = <<a>> \o Words(m)
  BY SubcommandUnit
<1>2. am \o tail \in Seq(Seq(Arg)) /\ Words(am \o tail) = Words(am) \o Words(tail)
  BY ConcatProperties, FlattenConcat DEF Words
<1>3. (<<a>> \o Words(m)) \o Words(tail) = <<a>> \o (Words(m) \o Words(tail))
  <2>1. Words(m) \in Seq(Arg) /\ Words(tail) \in Seq(Arg)  BY FlattenType DEF Words
  <2>2. <<a>> \in Seq(Arg)  BY SMT
  <2>3. Associates(Arg)  BY RegroupIn
  <2> QED  BY <2>1, <2>2, <2>3, Zenon DEF Associates
<1> QED  BY <1>1, <1>2, <1>3, Zenon

(* A global flag in front of the subcommand. *)
LEMMA SocketInFront ==
    ASSUME NEW sub \in Subcommand, Word(sub) \in Arg, NEW m \in Seq(Seq(Arg)), NEW tail \in Seq(Seq(Arg))
    PROVE  Run(Words(<<SocketUnit>> \o ((<< <<Word(sub)>> >> \o m) \o tail))) =
               Submit(sub, (SocketUnit \o Words(m)) \o Words(tail))
<1>a. PICK a \in Arg : a = Word(sub)  OBVIOUS
<1>s. PICK f \in Arg, v \in Arg : /\ f = Flag("tmux-socket") /\ v = Word("sock")
                                  /\ ~IsHelp(f) /\ ~IsVersion(f) /\ IsGlobal(f) /\ f.value = None
  BY SocketFacts
<1>x. PICK x \in Seq(Arg) : x = <<f, v>> /\ x = SocketUnit
  <2>1. <<f, v>> \in Seq(Arg)  BY SMT
  <2> QED  BY <1>s, <2>1 DEF SocketUnit
<1>l. PICK line \in Seq(Seq(Arg)) : /\ line = (<< <<a>> >> \o m) \o tail
                                    /\ Words(line) = <<a>> \o (Words(m) \o Words(tail))
  BY WordsOfLine, ZenonT(60)
<1>1. Words(<<x>> \o line) = x \o Words(line)  BY FlattenHead DEF Words
<1>2. Words(m) \in Seq(Arg) /\ Words(tail) \in Seq(Arg)  BY FlattenType DEF Words
<1>z. PICK z \in Seq(Arg) : z = Words(m) \o Words(tail)  BY <1>2, ConcatProperties
<1>3. Run(<<f, v>> \o (<<Word(sub)>> \o z)) = Submit(sub, <<f, v>> \o z)  BY <1>s, RunOfGlobalLine
<1>4. x \o (Words(m) \o Words(tail)) = (x \o Words(m)) \o Words(tail)
  <2>1. Associates(Arg)  BY RegroupIn
  <2> QED  BY <1>2, <2>1, Zenon DEF Associates
<1> QED  BY <1>a, <1>x, <1>l, <1>1, <1>z, <1>3, <1>4, Zenon

(* --help in front of the subcommand. *)
LEMMA HelpInFront ==
    ASSUME NEW sub \in Subcommand, Word(sub) \in Arg, NEW m \in Seq(Seq(Arg)), NEW tail \in Seq(Seq(Arg))
    PROVE  Run(Words(<< <<Flag("help")>> >> \o ((<< <<Word(sub)>> >> \o m) \o tail))).verdict = "help"
<1>a. PICK a \in Arg : a = Word(sub)  OBVIOUS
<1>h. PICK h \in Arg : h = Flag("help") /\ h.dashes = 2 /\ h.name = "help"  BY HelpFacts
<1>x. PICK x \in Seq(Arg) : x = <<h>>
  <2>1. <<h>> \in Seq(Arg)  BY SMT
  <2> QED  BY <2>1
<1>l. PICK line \in Seq(Seq(Arg)) : /\ line = (<< <<a>> >> \o m) \o tail
                                    /\ Words(line) = <<a>> \o (Words(m) \o Words(tail))
  BY WordsOfLine
<1>1. Words(<<x>> \o line) = x \o Words(line)  BY FlattenHead DEF Words
<1>2. Words(m) \in Seq(Arg) /\ Words(tail) \in Seq(Arg)  BY FlattenType DEF Words
<1>z. PICK z \in Seq(Arg) : z = Words(m) \o Words(tail)  BY <1>2, ConcatProperties
<1>y. PICK y \in Seq(Arg) : y = <<a>> \o z  BY HeadOfLine
<1>3. ~ExtractGlobals(y).version
  <2>0. a.dashes = 0  BY <1>a DEF Word
  <2>1. ~IsHelp(a) /\ ~IsVersion(a) /\ ~IsGlobal(a)  BY <2>0, WordIsNotHoisted
  <2>2. ExtractGlobals(<<a>> \o z) = Plain(<<a>> \o z)  BY <2>1, ScanHead
  <2> QED  BY <1>y, <2>2 DEF Plain
<1>4. IsHelp(h)  BY <1>h DEF IsHelp, Help
<1>5. ExtractGlobals(<<h>> \o y).help /\ ExtractGlobals(<<h>> \o y).version = ExtractGlobals(y).version
  BY <1>4, ScanHead
<1>6. Run(<<h>> \o y).verdict = "help"  BY <1>3, <1>5, RunOfHelp
<1> QED  BY <1>a, <1>h, <1>x, <1>l, <1>1, <1>z, <1>y, <1>6, Zenon

(* A global flag, and --help, behind the subcommand. *)
LEMMA SocketBehind ==
    ASSUME NEW sub \in Subcommand, Word(sub) \in Arg,
           NEW p \in Seq(Known(sub, OwnFlags(sub))), NEW q \in Seq(Known(sub, OwnFlags(sub))),
           NEW tail \in Seq(Seq(Arg)), NEW b, EndsWith(Words(tail), b),
           Submit(sub, Words(p \o q) \o Words(tail)).verdict = "call"
    PROVE  /\ Run(Words((<< <<Word(sub)>> >> \o p) \o (<<SocketUnit>> \o (q \o tail)))) =
                 Submit(sub, (SocketUnit \o Words(p \o q)) \o Words(tail))
           /\ Submit(sub, (SocketUnit \o Words(p \o q)) \o Words(tail)).verdict = "call"
<1>1. p \in Seq(Seq(Arg)) /\ q \in Seq(Seq(Arg))  BY KnownUnits
<1>2. Words(p \o q) = Words(p) \o Words(q)  BY <1>1, FlattenConcat DEF Words
<1>3. /\ Submit(sub, (Words(p) \o (SocketUnit \o Words(q))) \o Words(tail)) =
             Submit(sub, (SocketUnit \o (Words(p) \o Words(q))) \o Words(tail))
      /\ Submit(sub, (SocketUnit \o (Words(p) \o Words(q))) \o Words(tail)).verdict = "call"
  <2>1. Submit(sub, (Words(p) \o Words(q)) \o Words(tail)).verdict = "call"  BY <1>2, Zenon
  <2> QED  BY <2>1, SocketSubmit
<1>s. PICK x \in Seq(Arg) : x = SocketUnit
  <2>1. SocketUnit \in Seq(Arg)  BY SocketFacts DEF Units
  <2> QED  BY <2>1
<1>4. PICK xs \in Seq(Seq(Arg)) : xs = <<x>> /\ Words(xs) = x
  <2>1. <<x>> \in Seq(Seq(Arg))  BY SMT
  <2>2. Words(<<x>>) = x  BY FlattenOne DEF Words
  <2> QED  BY <2>1, <2>2
<1>5. Requested(sub, p, xs, q, tail)  BY <1>1, RunOfUnits
<1> QED  BY <1>2, <1>3, <1>4, <1>5, <1>s, Zenon DEF Requested

LEMMA HelpBehind ==
    ASSUME NEW sub \in Subcommand, Word(sub) \in Arg,
           NEW p \in Seq(Known(sub, Names(sub))), NEW q \in Seq(Known(sub, Names(sub))),
           NEW tail \in Seq(Seq(Arg))
    PROVE  Run(Words((<< <<Word(sub)>> >> \o p) \o (<< <<Flag("help")>> >> \o (q \o tail)))).verdict = "help"
<1>1. p \in Seq(Seq(Arg)) /\ q \in Seq(Seq(Arg)) /\ Words(p) \in Seq(Arg) /\ Words(q) \in Seq(Arg)
  BY KnownUnits
<1>2. Words(tail) \in Seq(Arg)  BY FlattenType DEF Words
<1>h. PICK h \in Arg : h = Flag("help")  BY HelpFacts
<1>x. PICK x : x \in Seq(Arg) /\ x = <<h>>
  <2>1. <<h>> \in Seq(Arg)  BY SMT
  <2> QED  BY <2>1
<1>4. PICK xs : xs \in Seq(Seq(Arg)) /\ xs = <<x>> /\ Words(xs) = x
  <2>0. x \in Seq(Arg)  BY <1>x
  <2>1. <<x>> \in Seq(Seq(Arg))  BY <2>0, SMT
  <2>2. Words(<<x>>) = x  BY <2>0, FlattenOne DEF Words
  <2> QED  BY <2>1, <2>2
<1>5. Requested(sub, p, xs, q, tail)
  <2>1. xs \in Seq(Seq(Arg))  BY <1>4
  <2> QED  BY <1>1, <2>1, RunOfUnits
<1>z. PICK z : z \in Seq(Arg) /\ z = Words(q) \o Words(tail)
  <2>1. Words(q) \o Words(tail) \in Seq(Arg)  BY <1>1, <1>2, ConcatProperties
  <2> QED  BY <2>1
<1>6. Submit(sub, Words(p) \o (<<Flag("help")>> \o z)).verdict = "help"
  <2>1. z \in Seq(Arg)  BY <1>z
  <2> QED  BY <2>1, HelpSubmit
<1>7. (Words(p) \o (x \o Words(q))) \o Words(tail) = Words(p) \o (x \o (Words(q) \o Words(tail)))
  <2>0. x \in Seq(Arg)  BY <1>x
  <2>1. Associates(Arg)  BY RegroupIn
  <2>2. \A y \in Seq(Arg) : (Words(p) \o y) \o Words(tail) = Words(p) \o (y \o Words(tail))
    BY <1>1, <1>2, <2>1, Zenon DEF Associates
  <2>3. x \o Words(q) \in Seq(Arg)  BY <1>1, <2>0, ConcatProperties
  <2>4. (x \o Words(q)) \o Words(tail) = x \o (Words(q) \o Words(tail))
    BY <1>1, <1>2, <2>0, <2>1, Zenon DEF Associates
  <2> QED  BY <2>2, <2>3, <2>4, Zenon
<1> QED  BY <1>4, <1>5, <1>6, <1>7, <1>h, <1>x, <1>z, Zenon DEF Requested

(* What Insert and Swap make of the line. *)
LEMMA InsertAtFront ==
    ASSUME NEW S, NEW line \in Seq(S), NEW u
    PROVE  Insert(line, 0, u) = <<u>> \o line
<1>e. PICK e \in Seq(S) : e = <<>> /\ Len(e) = 0
  <2>1. <<>> \in Seq(S) /\ Len(<<>>) = 0  BY EmptySeq
  <2> QED  BY <2>1
<1>1. Insert(e \o line, Len(e), u) = (e \o <<u>>) \o line  BY InsertBetween
<1>2. e \o line = line  BY <1>e, ConcatEmptySeq
<1>3. e \o <<u>> = <<u>>
  <2>1. <<u>> \in Seq({u})  BY SMT
  <2> QED  BY <1>e, <2>1, ConcatEmptySeq
<1> QED  BY <1>e, <1>1, <1>2, <1>3, Zenon

InsertsBehind(a, p, q, tail, u) ==
    Insert((<<a>> \o (p \o q)) \o tail, Len(p) + 1, u) = (<<a>> \o p) \o (<<u>> \o (q \o tail))

LEMMA InsertBehind ==
    ASSUME NEW S, NEW a \in S, NEW p \in Seq(S), NEW q \in Seq(S), NEW tail \in Seq(S), NEW u \in S
    PROVE  InsertsBehind(a, p, q, tail, u)
<1>0. Associates(S)  BY RegroupIn
<1>1. <<a>> \in Seq(S) /\ <<u>> \in Seq(S)  BY SMT
<1>p. PICK ap : ap \in Seq(S) /\ ap = <<a>> \o p /\ Len(ap) = Len(p) + 1
  <2>1. <<a>> \o p \in Seq(S) /\ Len(<<a>> \o p) = Len(p) + 1  BY HeadOfLine
  <2> QED  BY <2>1
<1>q. PICK qt : qt \in Seq(S) /\ qt = q \o tail
  <2>1. q \o tail \in Seq(S)  BY ConcatProperties
  <2> QED  BY <2>1
<1>2. (<<a>> \o (p \o q)) \o tail = ap \o qt
  <2>1. <<a>> \o (p \o q) = ap \o q
    <3>1. (<<a>> \o p) \o q = <<a>> \o (p \o q)  BY <1>0, <1>1, ZenonT(60) DEF Associates
    <3> QED  BY <1>p, <3>1, Zenon
  <2>2. (ap \o q) \o tail = ap \o (q \o tail)  BY <1>0, <1>p, Zenon DEF Associates
  <2> QED  BY <1>q, <2>1, <2>2, Zenon
<1>3. Insert(ap \o qt, Len(ap), u) = (ap \o <<u>>) \o qt
  <2>1. ap \in Seq(S) /\ qt \in Seq(S)  BY <1>p, <1>q, Zenon
  <2> QED  BY <2>1, InsertBetween
<1>4. (ap \o <<u>>) \o qt = ap \o (<<u>> \o qt)
  BY <1>0, <1>1, <1>p, <1>q, ZenonT(60) DEF Associates
<1> QED  BY <1>2, <1>3, <1>4, <1>p, <1>q, Zenon DEF InsertsBehind

SwapsBehind(line, i, a, p, q, tail, u, v) ==
    /\ line = (<<a>> \o p) \o (<<u, v>> \o (q \o tail))
    /\ Swap(line, i) = (<<a>> \o p) \o (<<v, u>> \o (q \o tail))
    /\ line[i] = u /\ line[i + 1] = v

LEMMA SwapBehind ==
    ASSUME NEW S, NEW a \in S, NEW p \in Seq(S), NEW q \in Seq(S), NEW tail \in Seq(S), NEW u \in S, NEW v \in S,
           NEW i, i = Len(p) + 2,
           NEW line, line = (<<a>> \o (p \o (<<u, v>> \o q))) \o tail
    PROVE  SwapsBehind(line, i, a, p, q, tail, u, v)
<1>1. PICK w, x : w \in Seq(S) /\ w = <<a>> /\ x \in Seq(S) /\ x = <<u, v>>
  <2>1. <<a>> \in Seq(S) /\ <<u, v>> \in Seq(S)  BY SMT
  <2> QED  BY <2>1
<1>2. LineRegrouped(w, p, x, q, tail)
  <2>1. w \in Seq(S) /\ x \in Seq(S)  BY <1>1
  <2> QED  BY <2>1, RegroupLine
<1>3. line = (<<a>> \o p) \o (<<u, v>> \o (q \o tail))  BY <1>1, <1>2, Zenon DEF LineRegrouped
<1>p. PICK ap : ap \in Seq(S) /\ ap = <<a>> \o p /\ Len(ap) = Len(p) + 1
  <2>1. <<a>> \o p \in Seq(S) /\ Len(<<a>> \o p) = Len(p) + 1  BY HeadOfLine
  <2> QED  BY <2>1
<1>q. PICK qt : qt \in Seq(S) /\ qt = q \o tail
  <2>1. q \o tail \in Seq(S)  BY ConcatProperties
  <2> QED  BY <2>1
<1>4. Swaps(ap, qt, u, v)
  <2>1. ap \in Seq(S) /\ qt \in Seq(S)  BY <1>p, <1>q, Zenon
  <2> QED  BY <2>1, SwapBetween
<1>5. Len(ap) + 1 = i
  <2>1. Len(p) \in Nat  BY LenProperties
  <2> QED  BY <1>p, <2>1
<1> QED  BY <1>3, <1>4, <1>5, <1>p, <1>q, Zenon DEF SwapsBehind, Swaps

LEMMA FlagsSwap ==
    ASSUME NEW line, NEW sub, NEW m, NEW tail, NEW b, CallLine(line, sub, m, tail, b),
           NEW i \in 2..(Len(Before(line)) - 1), (line[i][1].dashes = 0) # (line[i + 1][1].dashes = 0)
    PROVE  Run(Words(Swap(line, i))) = Run(Words(line))
<1>1. /\ sub \in Subcommand /\ Word(sub) \in Arg /\ m \in Seq(Known(sub, Names(sub)))
      /\ tail \in Seq(Seq(Arg)) /\ EndsWith(Words(tail), b)
      /\ Before(line) = << <<Word(sub)>> >> \o m /\ line = (<< <<Word(sub)>> >> \o m) \o tail
  BY Zenon DEF CallLine
<1>n. PICK n \in Nat : n = Len(m)  BY <1>1, LenProperties
<1>2. Len(Before(line)) = n + 1
  <2>a. PICK a \in Arg : a = Word(sub)  BY <1>1
  <2>m. PICK ms \in Seq(Seq(Arg)) : ms = m  BY <1>1, KnownUnits
  <2>1. Len(<< <<a>> >> \o ms) = Len(ms) + 1  BY SubcommandUnit
  <2> QED  BY <1>1, <1>n, <2>1, <2>a, <2>m, Zenon
<1>k. PICK k \in Nat : k = i - 2 /\ i = k + 2 /\ k + 2 <= Len(m)
  <2>1. i - 2 \in Nat /\ i = (i - 2) + 2 /\ (i - 2) + 2 <= n  BY <1>2
  <2> QED  BY <1>n, <2>1
<1>3. PICK p, q \in Seq(Known(sub, Names(sub))), u, v \in Known(sub, Names(sub)) :
         m = p \o (<<u, v>> \o q) /\ Len(p) = k
  <2>1. m \in Seq(Known(sub, Names(sub)))  BY <1>1
  <2>2. CutsPair(Known(sub, Names(sub)), m, k)  BY <1>k, <2>1, CutPair
  <2> QED  BY <2>2, Zenon DEF CutsPair
<1>a. PICK a \in Seq(Arg) : a = <<Word(sub)>>
  <2>1. <<Word(sub)>> \in Seq(Arg)  BY <1>1, SMT
  <2> QED  BY <2>1
<1>4. /\ line = (<<a>> \o p) \o (<<u, v>> \o (q \o tail))
      /\ Swap(line, i) = (<<a>> \o p) \o (<<v, u>> \o (q \o tail))
      /\ line[i] = u /\ line[i + 1] = v
  <2>1. p \in Seq(Seq(Arg)) /\ q \in Seq(Seq(Arg)) /\ u \in Seq(Arg) /\ v \in Seq(Arg)
    BY KnownUnits
  <2>2. i = Len(p) + 2  BY <1>3, <1>k, Zenon
  <2>3. line = (<<a>> \o (p \o (<<u, v>> \o q))) \o tail  BY <1>1, <1>3, <1>a, Zenon
  <2>4. tail \in Seq(Seq(Arg))  BY <1>1
  <2>5. SwapsBehind(line, i, a, p, q, tail, u, v)  BY <2>1, <2>2, <2>3, <2>4, SwapBehind
  <2> QED  BY <2>5, Zenon DEF SwapsBehind
<1>5. Run(Words((<< <<Word(sub)>> >> \o p) \o (<<v, u>> \o (q \o tail)))) =
         Run(Words((<< <<Word(sub)>> >> \o p) \o (<<u, v>> \o (q \o tail))))
  <2>1. (u[1].dashes = 0) # (v[1].dashes = 0)  BY <1>4, Zenon
  <2>2. sub \in Subcommand /\ Word(sub) \in Arg /\ tail \in Seq(Seq(Arg)) /\ EndsWith(Words(tail), b)
    BY <1>1, Zenon
  <2> QED  BY <2>1, <2>2, SwapUnits
<1> QED  BY <1>4, <1>5, <1>a, Zenon

(* What is known of the line of a call. *)
LEMMA CallLineIs ==
    ASSUME NEW line, NEW sub, NEW m, NEW tail, NEW b, CallLine(line, sub, m, tail, b)
    PROVE  /\ sub \in Subcommand /\ Word(sub) \in Arg /\ m \in Seq(Known(sub, Names(sub))) /\ m \in Seq(Seq(Arg))
           /\ tail \in Seq(Seq(Arg)) /\ EndsWith(Words(tail), b)
           /\ line = (<< <<Word(sub)>> >> \o m) \o tail /\ line \in Seq(Seq(Arg))
           /\ Len(m) \in Nat /\ Len(Before(line)) = Len(m) + 1 /\ <<Word(sub)>> \in Seq(Arg)
           /\ Submit(sub, Words(m) \o Words(tail)).verdict = "call"
<1>1. /\ sub \in Subcommand /\ Word(sub) \in Arg /\ m \in Seq(Known(sub, Names(sub)))
      /\ tail \in Seq(Seq(Arg)) /\ EndsWith(Words(tail), b)
      /\ Before(line) = << <<Word(sub)>> >> \o m /\ line = (<< <<Word(sub)>> >> \o m) \o tail
      /\ Submit(sub, Words(m) \o Words(tail)).verdict = "call"
  BY Zenon DEF CallLine
<1>m. PICK ms \in Seq(Seq(Arg)) : ms = m  BY <1>1, KnownUnits
<1>w. PICK w \in Arg : w = Word(sub)  BY <1>1
<1>2. Len(<< <<w>> >> \o ms) = Len(ms) + 1  BY SubcommandUnit
<1>3. (<< <<w>> >> \o ms) \o tail \in Seq(Seq(Arg))  BY <1>1, WordsOfLine
<1>4. <<w>> \in Seq(Arg)  BY SMT
<1>5. Len(ms) \in Nat  BY LenProperties
<1> QED  BY <1>1, <1>2, <1>3, <1>4, <1>5, <1>m, <1>w, Zenon

LEMMA HelpsInLine ==
    ASSUME NEW line, NEW sub, NEW m, NEW tail, NEW b, CallLine(line, sub, m, tail, b)
    PROVE  HelpsAnywhere(line)
<1> SUFFICES ASSUME NEW k \in 0..Len(Before(line))
             PROVE  Run(Words(Insert(line, k, <<Flag("help")>>))).verdict = "help"
  BY DEF HelpsAnywhere
<1>h. PICK h \in Seq(Arg) : h = <<Flag("help")>>
  <2>1. PICK f \in Arg : f = Flag("help")  BY HelpFacts
  <2>2. <<f>> \in Seq(Arg)  BY SMT
  <2> QED  BY <2>1, <2>2
<1>1. CASE k = 0
  <2>1. /\ sub \in Subcommand /\ Word(sub) \in Arg /\ m \in Seq(Seq(Arg)) /\ tail \in Seq(Seq(Arg))
        /\ line = (<< <<Word(sub)>> >> \o m) \o tail /\ line \in Seq(Seq(Arg))
    BY CallLineIs, SMTT(40)
  <2>2. Insert(line, 0, h) = <<h>> \o line  BY <2>1, InsertAtFront
  <2>3. Run(Words(<< <<Flag("help")>> >> \o ((<< <<Word(sub)>> >> \o m) \o tail))).verdict = "help"
    BY <2>1, HelpInFront
  <2> QED  BY <1>1, <1>h, <2>1, <2>2, <2>3, Zenon
<1>2. CASE k # 0
  <2>1. PICK j \in Nat : k = j + 1 /\ j <= Len(m)
    <3>1. Len(m) \in Nat /\ Len(Before(line)) = Len(m) + 1  BY CallLineIs
    <3>2. k - 1 \in Nat /\ k = (k - 1) + 1 /\ k - 1 <= Len(m)  BY <1>2, <3>1
    <3> QED  BY <3>2
  <2>2. PICK p, q \in Seq(Known(sub, Names(sub))) : m = p \o q /\ Len(p) = j
    <3>1. m \in Seq(Known(sub, Names(sub))) /\ j <= Len(m)  BY <2>1, CallLineIs
    <3>2. Cuts(Known(sub, Names(sub)), m, j)  BY <3>1, CutAt
    <3> QED  BY <3>2, Zenon DEF Cuts
  <2>3. sub \in Subcommand /\ Word(sub) \in Arg /\ tail \in Seq(Seq(Arg)) /\ <<Word(sub)>> \in Seq(Arg)
    BY CallLineIs
  <2>4. Run(Words((<< <<Word(sub)>> >> \o p) \o (<< <<Flag("help")>> >> \o (q \o tail)))).verdict = "help"
    BY <2>3, HelpBehind
  <2>a. PICK a \in Seq(Arg) : a = <<Word(sub)>>  BY <2>3
  <2>5. InsertsBehind(a, p, q, tail, h)
    <3>1. p \in Seq(Seq(Arg)) /\ q \in Seq(Seq(Arg))  BY KnownUnits
    <3> QED  BY <2>3, <3>1, InsertBehind
  <2>6. line = (<<a>> \o (p \o q)) \o tail
    <3>1. line = (<< <<Word(sub)>> >> \o m) \o tail  BY CallLineIs, SMTT(40)
    <3> QED  BY <2>2, <2>a, <3>1, Zenon
  <2> QED  BY <1>h, <2>1, <2>2, <2>4, <2>5, <2>6, <2>a, Zenon DEF InsertsBehind
<1> QED  BY <1>1, <1>2

LEMMA GlobalInLine ==
    ASSUME NEW line, NEW sub, NEW m, NEW tail, NEW b, CallLine(line, sub, m, tail, b),
           \A i \in 1..Len(Before(line)) : ~IsGlobalUnit(line[i])
    PROVE  GlobalAnywhere(line)
<1>0. m \in Seq(Known(sub, OwnFlags(sub)))  BY Zenon DEF CallLine
<1>x. PICK x \in Seq(Arg) : x = SocketUnit
  <2>1. SocketUnit \in Seq(Arg)  BY SocketFacts DEF Units
  <2> QED  BY <2>1
<1>f. PICK front : front = Submit(sub, (SocketUnit \o Words(m)) \o Words(tail))  OBVIOUS
<1>1. Run(Words(Insert(line, 0, SocketUnit))) = front
  <2>1. /\ sub \in Subcommand /\ Word(sub) \in Arg /\ m \in Seq(Seq(Arg)) /\ tail \in Seq(Seq(Arg))
        /\ line = (<< <<Word(sub)>> >> \o m) \o tail /\ line \in Seq(Seq(Arg))
    BY CallLineIs
  <2>2. Insert(line, 0, SocketUnit) = <<SocketUnit>> \o line  BY <2>1, InsertAtFront
  <2>3. Run(Words(<<SocketUnit>> \o ((<< <<Word(sub)>> >> \o m) \o tail))) =
           Submit(sub, (SocketUnit \o Words(m)) \o Words(tail))
    BY <2>1, SocketInFront
  <2> QED  BY <1>f, <2>1, <2>2, <2>3, Zenon
<1>2. ASSUME NEW j \in Nat, j <= Len(m)
      PROVE  Run(Words(Insert(line, j + 1, SocketUnit))) = front /\ front.verdict = "call"
  <2>1. PICK p, q \in Seq(Known(sub, OwnFlags(sub))) : m = p \o q /\ Len(p) = j
    <3>1. Cuts(Known(sub, OwnFlags(sub)), m, j)  BY <1>0, <1>2, CutAt
    <3> QED  BY <3>1, Zenon DEF Cuts
  <2>2. /\ sub \in Subcommand /\ Word(sub) \in Arg /\ tail \in Seq(Seq(Arg)) /\ EndsWith(Words(tail), b)
        /\ <<Word(sub)>> \in Seq(Arg)
    BY CallLineIs
  <2>3. /\ Run(Words((<< <<Word(sub)>> >> \o p) \o (<<SocketUnit>> \o (q \o tail)))) =
              Submit(sub, (SocketUnit \o Words(p \o q)) \o Words(tail))
        /\ Submit(sub, (SocketUnit \o Words(p \o q)) \o Words(tail)).verdict = "call"
    <3>1. Submit(sub, Words(m) \o Words(tail)).verdict = "call"  BY Zenon DEF CallLine
    <3>2. Submit(sub, Words(p \o q) \o Words(tail)).verdict = "call"  BY <2>1, <3>1, Zenon
    <3> QED  BY <2>2, <3>2, SocketBehind
  <2>a. PICK a \in Seq(Arg) : a = <<Word(sub)>>  BY <2>2
  <2>4. InsertsBehind(a, p, q, tail, x)
    <3>1. p \in Seq(Seq(Arg)) /\ q \in Seq(Seq(Arg))  BY KnownUnits
    <3> QED  BY <2>2, <3>1, InsertBehind
  <2>5. line = (<<a>> \o (p \o q)) \o tail
    <3>1. line = (<< <<Word(sub)>> >> \o m) \o tail  BY CallLineIs, SMTT(40)
    <3> QED  BY <2>1, <2>a, <3>1, Zenon
  <2> QED  BY <1>f, <1>x, <2>1, <2>3, <2>4, <2>5, <2>a, Zenon DEF InsertsBehind
<1>3. front.verdict = "call"
  <2>1. Len(m) \in Nat  BY CallLineIs
  <2>2. 0 \in Nat /\ 0 <= Len(m)  BY <2>1
  <2> QED  BY <1>2, <2>2, Zenon
<1>4. ASSUME NEW k \in 0..Len(Before(line)) PROVE Run(Words(Insert(line, k, SocketUnit))) = front
  <2>1. CASE k = 0  BY <1>1, <2>1, Zenon
  <2>2. CASE k # 0
    <3>1. Len(m) \in Nat /\ Len(Before(line)) = Len(m) + 1  BY CallLineIs
    <3>2. PICK j \in Nat : k = j + 1 /\ j <= Len(m)
      <4>1. k - 1 \in Nat /\ k = (k - 1) + 1 /\ k - 1 <= Len(m)  BY <2>2, <3>1
      <4> QED  BY <4>1
    <3> QED  BY <1>2, <3>2, Zenon
  <2> QED  BY <2>1, <2>2
<1> QED  BY <1>1, <1>3, <1>4, Zenon DEF GlobalAnywhere, Accepted

(* A flag has the same effect wherever it stands in front of the --. *)
LEMMA FlagsStandIn == RequestsInv => FlagsStandAnywhere
<1> SUFFICES ASSUME RequestsInv, NEW line \in Lines, Accepted(line), Divided(line), ~IsGlobalUnit(line[1])
             PROVE  /\ SwapsAlike(line) /\ HelpsAnywhere(line)
                    /\ (\A i \in 1..Len(Before(line)) : ~IsGlobalUnit(line[i])) => GlobalAnywhere(line)
  BY Zenon DEF FlagsStandAnywhere
<1>1. PICK sub, m, tail, b : CallLine(line, sub, m, tail, b)  BY LineCalls
<1>2. SwapsAlike(line)  BY <1>1, FlagsSwap DEF SwapsAlike
<1>3. HelpsAnywhere(line)  BY <1>1, HelpsInLine
<1> QED  BY <1>1, <1>2, <1>3, GlobalInLine

(* Theorem: on every accepted line that begins with its subcommand and     *)
(* whose flags have their values, a flag and the word next to it may       *)
(* change places, --help asks for help wherever it is put, and a global    *)
(* flag does at any place what it does in front, if there is no other      *)
(* (reorderArgs, app.go:193-235, extractGlobals, app.go:109-173).              *)
THEOREM FlagsStand == RequestsSpec => []FlagsStandAnywhere
BY RequestsInvAlways, FlagsStandIn, PTL
=============================================================================
