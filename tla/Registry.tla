------------------------------ MODULE Registry ------------------------------
(***************************************************************************)
(* The destination registry: destination.Load reads the declarations of    *)
(* DESTINATIONS_FILE one by one when a process starts, and intake answers  *)
(* requests from what was loaded. The process restarts with the same file  *)
(* while the environment that holds the secrets changes.                   *)
(*                                                                         *)
(* Text is abstract: an id or a URL is its name ("" if blank) and length, a *)
(* duration is <<>> when it does not parse, a host is what net.ParseIP and  *)
(* disallowedIP make of it, a header is the name it is written with.       *)
(***************************************************************************)
EXTENDS RetryPolicy, FiniteSets

CONSTANTS
    Declaration,      \* declarations a file may hold
    MaxDeclarations,  \* bound: declarations of a file
    Canonical,        \* http.CanonicalHeaderKey: header name -> header
    EnvironmentName,  \* names of environment variables
    SecretValue,      \* values of environment variables
    MaxTimeout,       \* 30 * time.Second
    MaxLifetime,      \* 7 * 24 * time.Hour
    MaxMaxAttempts,   \* 32
    MaxConcurrency,   \* 1000
    MaxIdLength,      \* CHECK (length(destination_id) BETWEEN 1 AND 128)
    MaxURLLength      \* CHECK (length(url) BETWEEN 1 AND 2048)

ASSUME MaxDeclarationsAssumption == MaxDeclarations \in Nat
ASSUME LengthsAssumption == MaxIdLength \in Nat /\ MaxURLLength \in Nat
ASSUME MaxConcurrencyAssumption == MaxConcurrency \in Nat

(* The types of config.go; what is not blank has a length, and so has a    *)
(* URL with a host.                                                        *)
ASSUME DeclarationAssumption ==
    \A raw \in Declaration :
        /\ raw.timeout \in Seq(Int) /\ raw.lifetime \in Seq(Int)
        /\ raw.delays \in Seq(Seq(Int)) /\ raw.maxAttempts \in Int
        /\ raw.idLength \in Nat /\ (raw.id # "" => raw.idLength > 0)
        /\ raw.url.length \in Nat /\ (raw.url.host # "" => raw.url.length > 0)

Unset == "unset"
ASSUME UnsetAssumption == Unset \notin SecretValue

VARIABLES
    file,       \* the declarations, in order
    env,        \* the environment: name -> value, or Unset
    outcome,    \* "loading", "loaded" or "refused"
    next,       \* index of the declaration the loop looks at
    items,      \* Registry.items: id -> destination
    before,     \* history: <<items>> of the process before the restart
    answer      \* the last request and its HTTP status

registryVars == <<file, env, outcome, next, items, before, answer>>

NoItems == [id \in {} |-> 0]
NoAnswer == [id |-> "", status |-> 0]

RegistryInit ==
    /\ file \in UNION {[1 .. n -> Declaration] : n \in 0 .. MaxDeclarations}
    /\ env \in [EnvironmentName -> SecretValue \cup {Unset}]
    /\ outcome = "loading" /\ next = 1 /\ items = NoItems
    /\ before = <<>> /\ answer = NoAnswer

-----------------------------------------------------------------------------
(* parseDestination. *)

Within(duration, limit) ==
    duration # <<>> /\ duration[1] > 0 /\ duration[1] <= limit

ToUpper(method) ==
    CASE method = "post" -> "POST" [] method = "put" -> "PUT"
      [] method = "patch" -> "PATCH" [] OTHER -> method

URLAllowed(url) ==
    /\ url.parses /\ url.host # "" /\ url.scheme = "https"
    /\ ~url.userinfo /\ ~url.fragment
    /\ url.host # "disallowed_ip"

(* Mutant: delays are not required. *)
RetryAllowedWithoutDelays(raw) ==
    /\ Within(raw.lifetime, MaxLifetime)
    /\ raw.maxAttempts \in 1 .. MaxMaxAttempts
    /\ \A i \in DOMAIN raw.delays : Within(raw.delays[i], raw.lifetime[1])

RetryAllowed(raw) ==
    /\ Within(raw.lifetime, MaxLifetime)
    /\ raw.maxAttempts \in 1 .. MaxMaxAttempts
    /\ \A i \in DOMAIN raw.delays : Within(raw.delays[i], raw.lifetime[1])
    /\ raw.maxAttempts > 1 => raw.delays # <<>>

HeadersAllowed(raw) ==
    /\ \A name \in DOMAIN raw.static :
          Canonical[name] # "Authorization" /\ raw.static[name] # "two\nlines"
    /\ \A name \in DOMAIN raw.secret :
          /\ raw.secret[name] # ""
          /\ name # "two\nlines"
          /\ env[raw.secret[name]] # Unset

(* Mutant: the concurrency limit is not checked. *)
ParsesAnyConcurrency(raw) ==
    /\ raw.id # ""
    /\ ToUpper(raw.method) \in {"POST", "PUT", "PATCH"}
    /\ URLAllowed(raw.url)
    /\ Within(raw.timeout, MaxTimeout)
    /\ RetryAllowed(raw)
    /\ HeadersAllowed(raw)

Parses(raw) ==
    /\ raw.id # ""
    /\ ToUpper(raw.method) \in {"POST", "PUT", "PATCH"}
    /\ URLAllowed(raw.url)
    /\ Within(raw.timeout, MaxTimeout)
    /\ RetryAllowed(raw)
    /\ raw.concurrency \in 1 .. MaxConcurrency
    /\ HeadersAllowed(raw)

(* The loops over the header maps store under the canonical name, in the   *)
(* random order of a Go map: of names that mean one header any may win.    *)
Stored(headers) ==
    LET names == {Canonical[name] : name \in DOMAIN headers}
    IN  {f \in [names -> {headers[name] : name \in DOMAIN headers}] :
            \A c \in names : \E name \in DOMAIN headers :
                Canonical[name] = c /\ f[c] = headers[name]}

(* Mutant: the value of the secret is read when the file is loaded. *)
SecretsResolved(headers) ==
    {[c \in DOMAIN f |-> env[f[c]]] : f \in Stored(headers)}

(* A secret header keeps the name of its environment variable. *)
SecretReferences(headers) == Stored(headers)

Destinations(raw) ==
    {[method |-> ToUpper(raw.method), url |-> raw.url, idLength |-> raw.idLength,
      timeout |-> raw.timeout[1], concurrency |-> raw.concurrency,
      retry |-> [maxAttempts |-> raw.maxAttempts, lifetime |-> raw.lifetime[1],
                 delays |-> [i \in DOMAIN raw.delays |-> raw.delays[i][1]]],
      static |-> static, secret |-> secret] :
        static \in Stored(raw.static), secret \in SecretReferences(raw.secret)}

-----------------------------------------------------------------------------
(* Load. *)

Refuse ==
    /\ outcome = "loading"
    /\ \/ file = <<>>
       \/ /\ next <= Len(file)
          /\ file[next].id \in DOMAIN items \/ ~Parses(file[next])
    /\ outcome' = "refused"
    /\ UNCHANGED <<file, env, next, items, before, answer>>

(* Mutant: a declaration replaces an earlier one of the same id. *)
RegisterOver ==
    /\ outcome = "loading"
    /\ next <= Len(file)
    /\ Parses(file[next])
    /\ \E destination \in Destinations(file[next]) :
          items' = [id \in DOMAIN items \cup {file[next].id} |->
                       IF id = file[next].id THEN destination ELSE items[id]]
    /\ next' = next + 1
    /\ UNCHANGED <<file, env, outcome, before, answer>>

Register ==
    /\ outcome = "loading"
    /\ next <= Len(file)
    /\ file[next].id \notin DOMAIN items
    /\ Parses(file[next])
    /\ \E destination \in Destinations(file[next]) :
          items' = [id \in DOMAIN items \cup {file[next].id} |->
                       IF id = file[next].id THEN destination ELSE items[id]]
    /\ next' = next + 1
    /\ UNCHANGED <<file, env, outcome, before, answer>>

Loaded ==
    /\ outcome = "loading"
    /\ file # <<>> /\ next > Len(file)
    /\ outcome' = "loaded"
    /\ UNCHANGED <<file, env, next, items, before, answer>>

(* The process ends and is started again; the environment is its parent's, *)
(* where a secret is rotated or removed in between.                        *)
Restart ==
    /\ outcome # "loading"
    /\ before = <<>>
    /\ before' = IF outcome = "loaded" THEN <<items>> ELSE <<NoItems>>
    /\ env' \in [EnvironmentName -> SecretValue \cup {Unset}]
    /\ outcome' = "loading" /\ next' = 1 /\ items' = NoItems /\ answer' = NoAnswer
    /\ UNCHANGED file

-----------------------------------------------------------------------------
(* Intake: Registry.Get, then the insert of the snapshot, which the CHECKs *)
(* of notification_tasks refuse or let through; and neither TEXT nor JSONB *)
(* takes a text with a zero byte, which YAML can write and ZeroByte names. *)
ZeroByte == "zero byte"

HeaderTexts(destination) ==
    UNION {DOMAIN headers \cup {headers[name] : name \in DOMAIN headers} :
              headers \in {destination.static, destination.secret}}

Storable(id, destination) ==
    /\ destination.idLength \in 1 .. MaxIdLength
    /\ destination.url.length \in 1 .. MaxURLLength
    /\ destination.method \in {"POST", "PUT", "PATCH"}
    /\ destination.timeout > 0
    /\ destination.retry.lifetime > 0
    /\ destination.retry.maxAttempts \in 1 .. MaxMaxAttempts
    /\ destination.concurrency > 0
    /\ ZeroByte \notin {id} \cup HeaderTexts(destination)

Create(id) ==
    /\ outcome = "loaded"
    /\ answer' = [id |-> id, status |-> IF id \notin DOMAIN items THEN 422
                                        ELSE IF Storable(id, items[id]) THEN 202 ELSE 500]
    /\ UNCHANGED <<file, env, outcome, next, items, before>>

RegistryNext ==
    \/ Refuse \/ Register \/ Loaded \/ Restart
    \/ \E raw \in Declaration : Create(raw.id)

RegistrySpec == RegistryInit /\ [][RegistryNext]_registryVars

-----------------------------------------------------------------------------
(* Properties. *)

(* Loading is all or nothing: a process serves only a file in which every  *)
(* declaration passes validation and every id is declared once; it serves  *)
(* each of them as declared, and answers 422 exactly for the ids the file  *)
(* does not declare.                                                       *)
ServesWholeFile ==
    outcome = "loaded" =>
        LET declared == {file[i].id : i \in DOMAIN file} IN
        /\ Cardinality(declared) = Len(file)
        /\ DOMAIN items = declared
        /\ \A i \in DOMAIN file :
              Parses(file[i]) /\ items[file[i].id] \in Destinations(file[i])
        /\ answer # NoAnswer => (answer.status = 422 <=> answer.id \notin declared)

(* Validation and retry policy fit together: under the policy of every     *)
(* registered destination NextAttempt can name a moment after each failed  *)
(* attempt but the last, within the lifetime.                              *)
BudgetIsUsable ==
    \A id \in DOMAIN items :
        LET policy == items[id].retry
        IN  \A attempt \in 1 .. policy.maxAttempts - 1 :
                \E moment \in NextAttempt(policy, attempt, <<>>, 0) :
                    moment # <<>> /\ moment[1] <= policy.lifetime

(* No declaration writes one header in two ways. *)
HeadersDistinct ==
    \A i \in DOMAIN file : \A headers \in {file[i].static, file[i].secret} :
        \A a, b \in DOMAIN headers : Canonical[a] = Canonical[b] => a = b

(* Two processes that load one file hold the same destinations, and so     *)
(* snapshot the same delivery, whatever happened to the secrets in         *)
(* between; unless the file writes one header in two ways.                 *)
SameAfterRestart ==
    outcome = "loaded" /\ before # <<>> /\ HeadersDistinct
        => before[1] \in {items, NoItems}

(* Validation and the table agree on all but text: a request for a loaded  *)
(* destination is refused by the insert only if the id or the URL is too   *)
(* long for its column or the id or a header holds a zero byte, which      *)
(* validation does not look at. All that it does look at, the CHECK of the *)
(* second migration on the concurrency limit included, is stored.          *)
OnlyTextsRefused ==
    answer.status = 500 =>
        \/ items[answer.id].idLength > MaxIdLength
        \/ items[answer.id].url.length > MaxURLLength
        \/ ZeroByte \in {answer.id} \cup HeaderTexts(items[answer.id])
=============================================================================
