----------------------------- MODULE MCRegistry -----------------------------
(* Instances of Registry for TLC. *)
EXTENDS Registry

HeaderNames == [n \in {"X-Key", "x-key", "X-Team", "authorization", "two\nlines", ZeroByte} |->
                   CASE n = "x-key" -> "X-Key"
                     [] n = "authorization" -> "Authorization"
                     [] OTHER -> n]

None == [n \in {} |-> ""]
SoundURL == [parses |-> TRUE, scheme |-> "https", host |-> "name",
             userinfo |-> FALSE, fragment |-> FALSE, length |-> 2]
Sound == [id |-> "crm", idLength |-> 1, method |-> "POST", url |-> SoundURL,
          timeout |-> <<2>>, lifetime |-> <<5>>, maxAttempts |-> 2,
          delays |-> <<<<1>>>>, concurrency |-> 1, static |-> None,
          secret |-> [n \in {"X-Key"} |-> "KEY"]]

(* A sound declaration that differs from the usual one. *)
SoundOnes ==
    {Sound, [Sound EXCEPT !.id = "erp", !.method = "put", !.secret = None]}
    \cup {[Sound EXCEPT !.id = "erp", !.secret = s] :
            s \in {[n \in {"X-Key", "x-key"} |-> IF n = "X-Key" THEN "KEY" ELSE "OTHER"],
                   [n \in {"X-Key", "X-Team"} |-> "KEY"]}}
    \cup {[Sound EXCEPT !.static = [n \in {"X-Key", "x-key"} |->
                                       IF n = "X-Key" THEN "a" ELSE "b"]]}

Retries ==
    {[Sound EXCEPT !.lifetime = l, !.maxAttempts = m, !.delays = d] :
        l \in {<<>>, <<0>>, <<3>>, <<6>>, <<7>>}, m \in {0, 1, 3, 4},
        d \in {<<>>, <<<<3>>>>, <<<<1>>, <<6>>>>, <<<<0>>, <<1>>>>, <<<<>>>>}}

Broken ==
    {[Sound EXCEPT !.id = "", !.idLength = 1], [Sound EXCEPT !.method = "GET"]}
    \cup {[Sound EXCEPT !.timeout = t] : t \in {<<>>, <<0>>, <<4>>}}
    \cup {[Sound EXCEPT !.concurrency = c] : c \in {0, 3}}
    \cup {[Sound EXCEPT !.url = u] :
            u \in {[SoundURL EXCEPT !.parses = FALSE], [SoundURL EXCEPT !.host = ""],
                   [SoundURL EXCEPT !.scheme = "http"], [SoundURL EXCEPT !.userinfo = TRUE],
                   [SoundURL EXCEPT !.fragment = TRUE],
                   [SoundURL EXCEPT !.host = "disallowed_ip"]}}
    \cup {[Sound EXCEPT !.static = [n \in {"authorization"} |-> "a"]],
          [Sound EXCEPT !.static = [n \in {"X-Team"} |-> "two\nlines"]],
          [Sound EXCEPT !.secret = [n \in {"X-Key"} |-> ""]],
          [Sound EXCEPT !.secret = [n \in {"two\nlines"} |-> "KEY"]]}

Long == {[Sound EXCEPT !.idLength = 3], [Sound EXCEPT !.url.length = 5]}

Zeros == {[Sound EXCEPT !.id = ZeroByte],
          [Sound EXCEPT !.static = [n \in {"X-Team"} |-> ZeroByte]],
          [Sound EXCEPT !.secret = [n \in {ZeroByte} |-> "KEY"]]}

Declarations == SoundOnes \cup Retries \cup Broken \cup Long \cup Zeros
=============================================================================
