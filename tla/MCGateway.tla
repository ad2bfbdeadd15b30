------------------------------ MODULE MCGateway ------------------------------
(***************************************************************************)
(* Messages and settings for TLC.  Addressed are all short paths on three  *)
(* hosts; Traffic is what two senders do to the objects of two tenants.    *)
(***************************************************************************)
EXTENDS Gateway

CONSTANTS s1, s2

MCDecode == ("%2F" :> "/") @@ ("%61" :> "a") @@ ("%00" :> "NUL")

Keys2 == ("k1" :> "t1") @@ ("k2" :> "t2")
Setting(credentials, anonymous, hosts, cors) ==
  [credentials |-> credentials, anonymous |-> anonymous, virtualHosts |-> hosts,
   cors |-> cors, pprof |-> cors]

MCSettings == {Setting(Keys2, {"d"}, <<<<"h">>, <<"h", "i">>>>, TRUE), Setting(<<>>, {"d"}, <<<<"h">>>>, FALSE),
               Setting(<<>>, {}, <<>>, FALSE)}

Message(method, host, path) ==
  [method |-> method, host |-> host, path |-> path, query |-> "none", range |-> "none",
   origin |-> "none", signer |-> "k1", verifies |-> TRUE, length |-> "fits", body |-> "x",
   about |-> <<<<"a">>, <<"a">>>>]

Paths ==
  {<<"/">> \o p : p \in UNION {[1 .. n -> {"/", "a", "%2F", "-"}] : n \in 0 .. 4}}
    \cup {<<"/">> \o p : p \in {<<"a", "/", "%61">>, <<"a", "/", "%00">>, <<"A", "/", "a">>,
                               <<"a", ".", "-", "/", "a">>, <<"a", "/", "healthz">>}}
    \cup Probes \cup {pprofPrefix, pprofPrefix \o <<"/", "a">>, deltaAPIPrefix \o <<"a">>}

A == Message("PUT", <<"h">>, <<"/", "a", "/", "a">>)
As(method) == [A EXCEPT !.method = method]

Addressed ==
  {Message(method, host, path) : method \in {"PUT", "GET", "DELETE", "POST"}, path \in Paths,
                                 host \in {<<"h">>, <<"a", ".", "h">>, <<".", "h">>}}
  \cup {[A EXCEPT !.verifies = FALSE], [A EXCEPT !.signer = "none"],
        [A EXCEPT !.length = "longer"], [A EXCEPT !.length = "declared"],
        [A EXCEPT !.method = "GET", !.range = "bad"], [A EXCEPT !.method = "HEAD", !.range = "good"],
        [A EXCEPT !.method = "DELETE", !.query = "emptyId"],
        [A EXCEPT !.method = "OPTIONS", !.origin = "given", !.signer = "none"]}

Traffic ==
  {A, [A EXCEPT !.body = "y"], [A EXCEPT !.signer = "k2"],
   As("GET"), As("HEAD"), As("DELETE"), [A EXCEPT !.method = "GET", !.range = "good"],
   [A EXCEPT !.method = "GET", !.path = deltaAPIPrefix \o <<"manifest">>],
   [A EXCEPT !.method = "POST", !.path = deltaAPIPrefix \o <<"chunks">>, !.signer = "k2"],
   [A EXCEPT !.method = "POST", !.query = "uploads"]}
  \cup {[A EXCEPT !.method = method, !.query = "u1", !.signer = signer,
                  !.path = IF signer = "k1" THEN <<"/", "a", "/", "a", "a">> ELSE A.path] :
           method \in {"PUT", "POST", "DELETE"}, signer \in {"k1", "k2"}}

MCStores == {[o \in {Object("t1", <<"a">>, <<"a">>)} |-> "x"], [o \in {} |-> NoContent]}

(* Traffic, or one of the addressed messages alone.                        *)
MCGatewayInit ==
  \/ GatewayInit
  \/ Starts({[c \in Senders |-> IF c = s THEN Arrived(m) ELSE Quiet] : s \in Senders, m \in Addressed},
            MaxMessages)
=============================================================================
