------------------------------ MODULE Connections ------------------------------
(***************************************************************************)
(* The memory and the sockets of the programs of one thread: a client like *)
(* test_post of simple_client.c and the server of simple_server.c.  Each   *)
(* function is a list of the calls it makes, in its order, with the list   *)
(* it goes on with when a call fails; a step is one call to the table of   *)
(* allocations or to the sockets.                                          *)
(***************************************************************************)
EXTENDS Sequences, SequencesExt, MemoryTable

CONSTANTS
  Descriptors,    \* BOUND: sockets that can be open
  Candidates(_),  \* BOUND: the free addresses malloc chooses from
  Forms           \* forms a client sends: which pairs have a value

ASSUME ConnAssumption == NULL \notin Descriptors

Idle == <<>>

VARIABLES
  program,  \* which program this process is
  doing,    \* the function it is in, or was in last
  ok,       \* that function has not failed
  code,     \* the calls it has still to make
  ptr,      \* for each pointer, the blocks it leads to: the pairs of a map are
            \* one pointer here, to all keys and values
  made,     \* the pointer each block was allocated for: file and line of an entry
  sock      \* *handle of a server and of a connection

connVars == <<program, doing, ok, code, ptr, made, sock>>
vars     == <<tableVars, connVars>>

-----------------------------------------------------------------------------
(* The functions *)

new(n)     == [op |-> "malloc", name |-> n, fail |-> <<>>]
more(n)    == [op |-> "strdup", name |-> n, fail |-> <<>>]
grow(n)    == [op |-> "realloc", name |-> n, fail |-> <<>>]
free(n)    == [op |-> "free", name |-> n, fail |-> <<>>]
clear(n)   == [op |-> "clear", name |-> n, fail |-> <<>>]
open(n, f) == [op |-> "open", name |-> n, fail |-> f]
try(n, f)  == [op |-> "try", name |-> n, fail |-> f]
close(n)   == [op |-> "close", name |-> n, fail |-> <<>>]
drop(ns)   == [op |-> "drop", name |-> ns, fail |-> <<>>]

Times(n, calls) == FlattenSeq([i \in 1 .. n |-> calls])

Server      == {"srv", "srv.host", "srv.handle"}
Conn        == {"conn", "conn.host", "conn.handle"}
Memory      == <<"ct", "headerbuf", "headerbuf.buf", "header", "body", "bodybuf",
                 "bodybuf.buf", "dict", "dict.values">>
ContentPtrs == ToSet(Memory) \cup {"dict.pairs"}
FormPtrs    == {"m", "m.values", "m.pairs"}
Handles     == {"srv.handle", "conn.handle"}
Pointers    == Server \cup Conn \cup ContentPtrs \cup FormPtrs
               \cup {"k", "v", "encoded_buf", "buffer", "request_path",
                     "request_host", "key", "value"}

\* httpd_destroy
DestroyCode == <<free("srv.host"), close("srv.handle"), free("srv.handle"),
                 free("srv"), drop(Server)>>

\* httpd_create, and what it does when bind or listen fails.
CreateFails == <<close("srv.handle"), free("srv.host"), free("srv.handle"),
                 free("srv"), drop(Server)>>

CreateCode ==
  <<new("srv"), new("srv.host"), new("srv.handle"),
    open("srv.handle", <<free("srv.host"), free("srv.handle"), free("srv"),
                         drop(Server)>>),
    try("bind", CreateFails), try("listen", CreateFails)>>

\* httpd_accept; conn->host is NULL while it may still fail.
AcceptCode ==
  <<new("conn"), new("conn.handle"),
    open("conn.handle", <<free("conn.host"), free("conn.handle"), free("conn"),
                          drop(Conn)>>),
    new("conn.host")>>

\* MUTANT: the socket is shut down but not destroyed.
CloseKeeps == <<free("conn.host"), free("conn.handle"), free("conn"), drop(Conn)>>

\* httpd_close and http_close, which differ in the place of the shutdown.
CloseCode == <<free("conn.host"), close("conn.handle"), free("conn.handle"),
               free("conn"), drop(Conn)>>

\* http_connect; the host is not freed when there is no socket.
ConnectCode ==
  <<new("conn"), new("conn.host"), new("conn.handle"),
    open("conn.handle", <<free("conn.handle"), free("conn"), drop(Conn)>>),
    try("connect", <<close("conn.handle"), free("conn.host"),
                     free("conn.handle"), free("conn"), drop(Conn)>>)>>

\* http_map_set of a new key, in a map with room for it, and of a key that has
\* a value (no key or value of these maps is NULL but what is said to be).
Adds(pairs, valued) ==
  <<more(pairs)>> \o (IF valued THEN <<more(pairs)>> ELSE <<>>)
Sets(pairs) == <<free(pairs), more(pairs)>>

\* http_content_new, with http_map_new, and http_content_delete, with
\* http_map_delete.
ContentNew == [i \in DOMAIN Memory |-> new(Memory[i])]
ContentDelete ==
  <<free("headerbuf.buf"), free("headerbuf"), free("header"), free("body"),
    free("bodybuf.buf"), free("bodybuf"), clear("dict.pairs"),
    free("dict.values"), free("dict"), free("ct"), drop(ContentPtrs)>>

\* http_recv_request and http_recv_response: a head may give more pairs than
\* the map has room for, and be refused after some.
ReceiveCode ==
  ContentNew \o <<try("http_recv_headers", ContentDelete)>>
  \o Adds("dict.pairs", TRUE)
  \o <<try("http_parse_headers", ContentDelete), grow("dict.values")>>
  \o Adds("dict.pairs", TRUE) \o Adds("dict.pairs", FALSE)

\* http_urldecode of a=b, of a=% and of a: what http_unquote has allocated for
\* an escape that is cut short is not freed.  The map is deleted.
FormMap    == <<new("m"), new("m.values")>>
FormDelete == <<clear("m.pairs"), free("m.values"), free("m"), drop(FormPtrs)>>

DecodeCode(cut) ==
  FormMap \o <<new("key"), new("value")>>
  \o (IF cut THEN <<drop({"value"})>> ELSE <<>>)
  \o Adds("m.pairs", ~cut)
  \o <<free("key"), free("value"), drop({"key", "value"})>> \o FormDelete

DecodeKey == FormMap \o <<new("key")>> \o Adds("m.pairs", TRUE)
             \o <<free("key"), drop({"key"})>> \o FormDelete

\* http_start_response, http_header, http_write and http_send_response, for a
\* body that is not empty.
AnswerCode ==
  ContentNew \o Times(5, Adds("dict.pairs", TRUE)) \o Adds("dict.pairs", TRUE)
  \o <<grow("bodybuf.buf")>> \o Adds("dict.pairs", TRUE)
  \o <<new("buffer"), free("buffer"), drop({"buffer"})>>

\* http_start_request, http_header, http_write and http_send_request with
\* _preprocess_request, which sets the path and the host anew.
RequestCode ==
  ContentNew \o Times(6, Adds("dict.pairs", TRUE)) \o Adds("dict.pairs", TRUE)
  \o <<grow("bodybuf.buf"), new("request_path"), new("request_host")>>
  \o Sets("dict.pairs") \o <<free("request_path")>>
  \o Sets("dict.pairs") \o <<free("request_host")>>
  \o Adds("dict.pairs", TRUE)
  \o <<new("buffer"), free("buffer"),
       drop({"request_path", "request_host", "buffer"})>>

\* One round of the loop of http_urlencode: line 167 says http_free(k) again.
PairCode(valued) ==
  <<new("k"), grow("encoded_buf"), free("k")>>
  \o (IF ~valued THEN <<>>
      ELSE <<new("v"), grow("encoded_buf"), free("k")>>)

\* The map of a form is filled and encoded.
FormCode(form) ==
  FormMap \o FlattenSeq([i \in DOMAIN form |-> Adds("m.pairs", form[i])])
  \o <<new("encoded_buf")>>
  \o FlattenSeq([i \in DOMAIN form |-> PairCode(form[i])]) \o <<drop({"k", "v"})>>

\* http_free(form_buf) and http_map_delete(m)
FormDone == <<free("encoded_buf"), drop({"encoded_buf"})>> \o FormDelete

-----------------------------------------------------------------------------
\* A server starts with httpd_create, a client with its form.
ConnInit ==
  /\ Init
  /\ ok = TRUE
  /\ ptr = [n \in Pointers |-> {}]
  /\ made = [p \in Blocks |-> "nothing"]
  /\ sock = [n \in Handles |-> NULL]
  /\ \/ program = "server" /\ doing = "create" /\ code = CreateCode
     \/ /\ program = "client" /\ doing = "form"
        /\ \E form \in Forms : code = FormCode(form)

OpenSockets == {sock[n] : n \in Handles} \ {NULL}

\* The next call is op.
At(op) == Runs /\ code # Idle /\ Head(code).op = op
Name   == Head(code).name
GoOn   == code' = Tail(code)

\* What a pointer leads to: one block, or one of the blocks of a map's pairs.
Target == IF ptr[Name] = {} THEN {NULL} ELSE Candidates(ptr[Name])

\* Entries of blocks that are gone say nothing.
Forget(p) == made' = [made EXCEPT ![p] = "nothing"]

DoMalloc ==
  /\ At("malloc") \/ At("strdup")
  /\ \E p \in Candidates(Blocks \ inUse) :
       /\ Malloc(p)
       /\ ptr' = [ptr EXCEPT ![Name] = IF At("strdup") THEN @ \cup {p} ELSE {p}]
       /\ made' = [made EXCEPT ![p] = Name]
  /\ GoOn
  /\ UNCHANGED <<program, doing, ok, sock>>

\* Only when there is not enough room.
DoRealloc ==
  /\ At("realloc")
  /\ \/ UNCHANGED <<tableVars, ptr, made>>
     \/ \E p \in Target : \E q \in Candidates(Blocks \ inUse) \cup {p} :
          /\ Realloc(p, q)
          /\ ptr' = [ptr EXCEPT ![Name] = {q}]
          /\ made' = [made EXCEPT ![p] = "nothing", ![q] = Name]
  /\ GoOn
  /\ UNCHANGED <<program, doing, ok, sock>>

\* The pointer of an object stays what it is; a value that is set anew, and the
\* pairs of a map that is deleted, are set to NULL.
DoFree ==
  /\ At("free")
  /\ \E p \in Target :
       /\ Free(p)
       /\ ptr' = IF Name \in {"dict.pairs", "m.pairs"}
                 THEN [ptr EXCEPT ![Name] = @ \ {p}] ELSE ptr
       /\ IF p = NULL THEN UNCHANGED made ELSE Forget(p)
  /\ GoOn
  /\ UNCHANGED <<program, doing, ok, sock>>

DoClear ==
  /\ At("clear")
  /\ IF ptr[Name] = {}
     THEN UNCHANGED <<tableVars, ptr, made>> /\ GoOn
     ELSE /\ UNCHANGED code
          /\ \E p \in Target :
               Free(p) /\ ptr' = [ptr EXCEPT ![Name] = @ \ {p}] /\ Forget(p)
  /\ UNCHANGED <<program, doing, ok, sock>>

\* socket_create or socket_accept
DoOpen ==
  /\ At("open")
  /\ \E d \in Descriptors \ OpenSockets : sock' = [sock EXCEPT ![Name] = d]
  /\ GoOn
  /\ UNCHANGED <<tableVars, program, doing, ok, ptr, made>>

\* Any call to the sockets may fail, and a message be cut or refused.
DoFail ==
  /\ At("open") \/ At("try")
  /\ code' = Head(code).fail
  /\ ok' = FALSE
  /\ UNCHANGED <<tableVars, program, doing, ptr, made, sock>>

\* socket_bind, socket_listen or socket_connect, or a head that arrives
DoTry ==
  /\ At("try")
  /\ GoOn
  /\ UNCHANGED <<tableVars, program, doing, ok, ptr, made, sock>>

\* socket_destroy
DoClose ==
  /\ At("close")
  /\ sock' = [sock EXCEPT ![Name] = NULL]
  /\ GoOn
  /\ UNCHANGED <<tableVars, program, doing, ok, ptr, made>>

\* The function returns, and the pointers its objects held are gone.
DoDrop ==
  /\ At("drop")
  /\ ptr' = [n \in Pointers |-> IF n \in Name THEN {} ELSE ptr[n]]
  /\ GoOn
  /\ UNCHANGED <<tableVars, program, doing, ok, made, sock>>

-----------------------------------------------------------------------------
(* What the programs call next *)

\* The program has returned from function d, which failed or not, and calls f.
Calls(p, d, result, f, calls) ==
  /\ Runs /\ code = Idle
  /\ program = p /\ doing = d /\ ok = result
  /\ doing' = f /\ ok' = TRUE
  /\ code' = calls
  /\ UNCHANGED <<tableVars, program, ptr, made, sock>>

\* server, thread and process of simple_server.c: one connection at a time,
\* until httpd_accept fails.  A request may have a form.
SimpleServer ==
  \/ Calls("server", "create", TRUE, "accept", AcceptCode)
  \/ Calls("server", "accept", TRUE, "receive", ReceiveCode)
  \/ Calls("server", "receive", TRUE, "delete", ContentDelete)
  \/ \E cut \in BOOLEAN :
       Calls("server", "receive", TRUE, "delete", DecodeCode(cut) \o ContentDelete)
  \/ Calls("server", "receive", TRUE, "delete", DecodeKey \o ContentDelete)
  \/ Calls("server", "receive", FALSE, "close", CloseCode)
  \/ Calls("server", "delete", TRUE, "answer", AnswerCode \o ContentDelete)
  \/ Calls("server", "answer", TRUE, "close", CloseCode)
  \/ Calls("server", "close", TRUE, "accept", AcceptCode)
  \/ Calls("server", "accept", FALSE, "destroy", DestroyCode)

\* test_post of simple_client.c.
SimpleClient ==
  \/ Calls("client", "form", TRUE, "connect", ConnectCode)
  \/ Calls("client", "connect", FALSE, "end", FormDone)
  \/ Calls("client", "connect", TRUE, "request",
           RequestCode \o ContentDelete \o FormDone)
  \/ Calls("client", "request", TRUE, "receive", ReceiveCode)
  \/ Calls("client", "receive", TRUE, "close", ContentDelete \o CloseCode)
  \/ Calls("client", "receive", FALSE, "close", CloseCode)

ConnNext ==
  \/ DoMalloc \/ DoRealloc \/ DoFree \/ DoClear
  \/ DoOpen \/ DoFail \/ DoTry \/ DoClose \/ DoDrop
  \/ SimpleServer \/ SimpleClient

ConnSpec == ConnInit /\ [][ConnNext]_vars

-----------------------------------------------------------------------------
\* The program returns, and prints what is in the table as a leak.
Ended ==
  \/ program = "client" /\ doing \in {"close", "end"}
  \/ program = "server" /\ doing = "destroy"
  \/ program = "server" /\ doing = "create" /\ ~ok

\* What the code forgets: the host of an http_connect that found no socket, and
\* what http_unquote allocated for an escape that is cut short.
Forgotten(p) ==
  \/ program = "client" /\ made[p] = "conn.host"
  \/ program = "server" /\ made[p] = "value"

\* Between two functions every block in use belongs to one object, every object
\* has its blocks and, if it has a handle, a socket, and at the end there is no
\* object: whichever calls have failed, what the programs take they give back,
\* but for the two pointers above (simple_client.c:128, simple_server.c:150).
BlocksOwned ==
  /\ \A p \in inUse : Forgotten(p) \/ \E n \in Pointers : p \in ptr[n] /\ made[p] = n
  /\ \A n \in Pointers : ptr[n] \subseteq inUse
  /\ \A n, m \in Pointers : ptr[n] \cap ptr[m] # {} => n = m

SocketsOwned ==
  /\ \A n \in Handles : sock[n] # NULL <=> ptr[n] # {}
  /\ \A n, m \in Handles : sock[n] = sock[m] /\ sock[n] # NULL => n = m

NoLeak ==
  Runs /\ code = Idle =>
    /\ BlocksOwned /\ SocketsOwned
    /\ Ended => \A n \in Pointers : ptr[n] = {}

\* http_free_ is only called with what is in the table: the check in it that
\* ends with the message "not exist in memory map!" (http_sys_linux.c:207) never
\* strikes.
FreesKnown == died # "unknown"
=============================================================================
