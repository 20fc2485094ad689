------------------------------- MODULE Policy -------------------------------
(* security/policy.py and resources.py: what a request is granted, and what of *)
(* it the container gets. An optional value is a set of at most one element;   *)
(* a refusal is the empty set.                                                 *)
EXTENDS Integers, FiniteSets, SequencesExt

CONSTANTS
  Malformed,       \* names of environment variables that are no identifiers
  Credentials      \* names that look like credentials

\* The value that is given, else the default.
OrElse(given, default) == IF given = {} THEN {default} ELSE given
-----------------------------------------------------------------------------
(* Resources. CPU is counted in half nanocores, memory in KiB.               *)

\* Faulty variant: a default is not clamped.
ClampAsked(given, default, ceiling) ==
  IF given = {} THEN {default}
  ELSE {IF n > ceiling THEN ceiling ELSE n : n \in {m \in given : m > 0}}

\* Nothing below one; what is above the ceiling becomes the ceiling.
Clamp(given, default, ceiling) ==
  {IF n > ceiling THEN ceiling ELSE n : n \in {m \in OrElse(given, default) : m > 0}}

MemoryUnits == [k |-> 1, m |-> 1024, g |-> 1024 * 1024]

MinMemory == 6 * 1024

\* parse_memory: an unknown unit and too little are refused.
ParseMemory(text) ==
  {n \in {text.amount * MemoryUnits[u] : u \in {text.unit} \cap DOMAIN MemoryUnits} :
     n >= MinMemory}

\* The ceiling is parsed like the limit.
ClampMemory(given, default, ceiling) ==
  {IF bytes > top THEN top ELSE bytes :
     bytes \in UNION {ParseMemory(t) : t \in OrElse(given, default)}, top \in ParseMemory(ceiling)}

BuildResourceLimits(request, settings) ==
  {[cpu |-> cpu, memory |-> memory, timeout |-> timeout, pids |-> pids] :
     cpu     \in Clamp(request.cpu, settings.cpu, settings.maxCpu),
     memory  \in ClampMemory(request.memory, settings.memory, settings.maxMemory),
     timeout \in Clamp(request.timeout, settings.timeout, settings.maxTimeout),
     pids    \in Clamp(request.pids, settings.pids, settings.maxPids)}

\* ExecutionManager.submit: the timeout of a single command, as it is asked for; without one,
\* or with 0, the experiment's.  (Nothing calls PolicyEngine.clamp_timeout.)
JobTimeout(given, own) == OrElse(given \ {0}, own)

\* _container_config: the limits as Docker gets them.
ContainerLimits(limits) ==
  [nanoCpus |-> limits.cpu \div 2, memory |-> limits.memory, memorySwap |-> limits.memory,
   pids |-> limits.pids]
-----------------------------------------------------------------------------
(* Images. A reference is a sequence of characters of which "/" and ":" count. *)

\* _IMAGE_REFERENCE: a repository, then possibly a tag; the digest is left out.
WellFormed(ref) ==
  /\ ref # <<>> /\ ref[1] \notin {"/", ":"}
  /\ \A i \in DOMAIN ref : ref[i] = ":" =>
       i < Len(ref) /\ \A j \in i + 1 .. Len(ref) : ref[j] \notin {"/", ":"}

Repository(ref) ==
  LET colon == SelectInSeq(ref, LAMBDA c : c = ":")
  IN IF colon = 0 THEN ref ELSE SubSeq(ref, 1, colon - 1)

\* Faulty variant: any continuation of a prefix will do.
StartsWith(repository, prefix) == IsPrefix(prefix, repository)

\* The allowlist accepts the prefix and what is below it.
Accepts(repository, prefix) ==
  repository = prefix \/ IsPrefix(prefix \o <<"/">>, repository)

ValidateImage(given, settings) ==
  {ref \in OrElse(given, settings.image) :
     WellFormed(ref) /\ (settings.anyImage
                         \/ \E prefix \in settings.prefixes : Accepts(Repository(ref), prefix))}
-----------------------------------------------------------------------------
(* Environment. An entry is a name with a literal or, without one, a wish to   *)
(* have the host's value.                                                      *)

Refuses(name, settings) == name \in Malformed \/ (settings.strict /\ name \in Credentials)

\* The variables, with one that is new or has a new value.
Sets(env, name, value) == [n \in DOMAIN env \cup {name} |-> IF n = name THEN value ELSE env[n]]

\* Faulty variant: a literal passes by the denylist.
TakesLiteral(env, entry, host, settings) ==
  IF entry.value # {} THEN Sets(env, entry.name, CHOOSE v \in entry.value : TRUE)
  ELSE IF Refuses(entry.name, settings) \/ entry.name \notin DOMAIN host THEN env
  ELSE Sets(env, entry.name, host[entry.name])

\* One entry of the allowlist, after those that gave `env`.
Takes(env, entry, host, settings) ==
  IF Refuses(entry.name, settings) THEN env
  ELSE IF entry.value # {} THEN Sets(env, entry.name, CHOOSE v \in entry.value : TRUE)
  ELSE IF entry.name \in DOMAIN host THEN Sets(env, entry.name, host[entry.name])
  ELSE env

FilterEnvironment(entries, host, settings) ==
  FoldLeft(LAMBDA env, entry : Takes(env, entry, host, settings), <<>>, entries)

Rejected(entries, settings) ==
  {name \in {entries[i].name : i \in DOMAIN entries} : Refuses(name, settings)}
-----------------------------------------------------------------------------
(* The request as a whole.                                                     *)

NetworkModes == {"none", "restricted", "enabled"}
Strategies == {"COPY_TO_SANDBOX", "READ_ONLY_BIND_MOUNT"}

ResolveNetworkMode(given, settings) == OrElse(given, settings.network) \cap NetworkModes

\* A writable bind mount is refused when the setting allows one, and else is read-only.
ResolveMountStrategy(given, writable, settings) ==
  {s \in OrElse(given, settings.strategy) \cap Strategies :
     ~(s = "READ_ONLY_BIND_MOUNT" /\ writable /\ settings.writableMounts)}

BuildSpec(request, host, settings) ==
  {[image |-> image, network |-> network, strategy |-> strategy, limits |-> limits,
    environment |-> FilterEnvironment(request.environment, host, settings)] :
     image    \in ValidateImage(request.image, settings),
     network  \in ResolveNetworkMode(request.network, settings),
     strategy \in ResolveMountStrategy(request.strategy, request.writable, settings),
     limits   \in BuildResourceLimits(request, settings)}
-----------------------------------------------------------------------------
(* What the policy promises of one request.                                    *)

\* config.py: "hard ceilings: a request may ask for less, never for more". Whatever is asked
\* for, and whatever the defaults are, the container is created with limits that are neither
\* above the ceilings nor absent (Docker takes 0 for no limit) as long as a nanocore is asked
\* for, and with what was asked for if that is below the ceiling.
WithinCeilings(request, settings) ==
  \A limits \in BuildResourceLimits(request, settings) :
    LET container == ContainerLimits(limits) IN
    /\ container.nanoCpus <= settings.maxCpu \div 2
    /\ limits.cpu >= 2 => container.nanoCpus > 0
    /\ \A top \in ParseMemory(settings.maxMemory) : container.memory <= top
    /\ container.memory >= MinMemory /\ container.memorySwap = container.memory
    /\ container.pids \in 1 .. settings.maxPids
    /\ limits.timeout \in 1 .. settings.maxTimeout
    /\ \A pids \in request.pids : pids <= settings.maxPids => container.pids = pids

\* A command that asks for no time of its own ends within the ceiling as well.
UnaskedWithinCeiling(given, request, settings) ==
  \A limits \in BuildResourceLimits(request, settings) :
    given \subseteq {0} => JobTimeout(given, limits.timeout) \subseteq 1 .. settings.maxTimeout

\* What the documentation of the ceilings says of every command and the code does not do:
\* "a request may ask for less, never for more".
CommandWithinCeiling(given, request, settings) ==
  \A limits \in BuildResourceLimits(request, settings) :
    \A seconds \in JobTimeout(given, limits.timeout) : seconds <= settings.maxTimeout

\* The parts of a sequence between the slashes.
Component(s, i) ==
  LET slashes == {0, Len(s) + 1} \cup {k \in DOMAIN s : s[k] = "/"}
      ends == {p \in slashes \X slashes :
                 p[1] < p[2] /\ \A k \in slashes : ~(p[1] < k /\ k < p[2])}
      part == CHOOSE p \in ends : Cardinality({q \in ends : q[1] < p[1]}) = i - 1
  IN SubSeq(s, part[1] + 1, part[2] - 1)

Components(s) == Cardinality({k \in DOMAIN s : s[k] = "/"}) + 1

\* "Component-wise match only": an image that is accepted from the allowlist has all the
\* components of some prefix as its first ones.
ImageBelowPrefix(given, settings) ==
  \A ref \in ValidateImage(given, settings) :
    settings.anyImage \/ \E prefix \in settings.prefixes :
      /\ Components(prefix) <= Components(Repository(ref))
      /\ \A i \in 1 .. Components(prefix) : Component(prefix, i) = Component(Repository(ref), i)

\* "Nothing else crosses the boundary": a variable is set in the sandbox exactly if the
\* allowlist names it, its name is acceptable and it has a value; the last entry with a value
\* counts; and what was refused is reported.
EnvironmentExact(entries, host, settings) ==
  LET env == FilterEnvironment(entries, host, settings)
      valued(n) == {i \in DOMAIN entries :
                      entries[i].name = n /\ (entries[i].value # {} \/ n \in DOMAIN host)}
      last(n) == entries[CHOOSE i \in valued(n) : \A j \in valued(n) : j <= i]
  IN /\ DOMAIN env = {n \in {entries[i].name : i \in DOMAIN entries} :
                        valued(n) # {} /\ n \notin Malformed
                        /\ (settings.strict => n \notin Credentials)}
     /\ \A n \in DOMAIN env :
          IF last(n).value # {} THEN env[n] \in last(n).value ELSE env[n] = host[n]
     /\ DOMAIN env \cap Rejected(entries, settings) = {}

\* build_spec "either returns an approved spec or raises": a request gets one specification, or
\* none when any part of it is refused, whatever the others are; and a writable mount of the
\* host's tree is in none, since a mount is read-only where its wish is not refused.
SpecIsWhole(request, host, settings) ==
  LET specs == BuildSpec(request, host, settings)
      refused == \/ ValidateImage(request.image, settings) = {}
                 \/ request.network \ NetworkModes # {}
                 \/ request.strategy \ Strategies # {}
                 \/ /\ request.writable /\ settings.writableMounts
                    /\ OrElse(request.strategy, settings.strategy) = {"READ_ONLY_BIND_MOUNT"}
                 \/ BuildResourceLimits(request, settings) = {}
  IN /\ Cardinality(specs) = IF refused THEN 0 ELSE 1
     /\ \A spec \in specs :
          /\ WellFormed(spec.image) /\ spec.limits \in BuildResourceLimits(request, settings)
          /\ request.network # {} => spec.network \in request.network
=============================================================================
