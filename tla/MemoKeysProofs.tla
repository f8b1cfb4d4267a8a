---------------------------- MODULE MemoKeysProofs ----------------------------
(* What default_keyfn of cache_fn makes of a call the function takes, for  *)
(* every signature, every cache_args and every call.                       *)
EXTENDS MemoKeys, TLAPS

(* inspect.signature lists each parameter once. *)
IsFunction(fn) ==
  /\ Len(fn.params) \in Nat /\ DOMAIN fn.params = 1..Len(fn.params)
  /\ \A i, j \in DOMAIN fn.params : fn.params[i] = fn.params[j] => i = j

(* A dict has each key once. *)
IsCall(call) ==
  /\ Len(call.args) \in Nat /\ DOMAIN call.args = 1..Len(call.args)
  /\ \A i, j \in DOMAIN call.kwargs :
       call.kwargs[i].name = call.kwargs[j].name => i = j

-----------------------------------------------------------------------------
(* The place of a parameter is where it stands in the signature. *)
LEMMA PlaceIsPosition ==
  ASSUME NEW fn, IsFunction(fn), NEW i \in DOMAIN fn.params
  PROVE  Place(fn, fn.params[i]) = i
<1>1. \E j \in DOMAIN fn.params : fn.params[j] = fn.params[i]
  OBVIOUS
<1>2. /\ Place(fn, fn.params[i]) \in DOMAIN fn.params
      /\ fn.params[Place(fn, fn.params[i])] = fn.params[i]
  BY <1>1 DEF Place
<1>3. QED
  BY <1>2 DEF IsFunction

(* kwargs.get finds the one value that was given for a name. *)
LEMMA GetFindsKeyword ==
  ASSUME NEW call, IsCall(call), NEW w \in Elements(call.kwargs), NEW default
  PROVE  Get(call, w.name, default) = w.value
<1>1. w \in Keyword(call, w.name)
  BY DEF Keyword
<1>2. ASSUME NEW v \in Keyword(call, w.name)
      PROVE  v = w
  <2>1. PICK i \in DOMAIN call.kwargs : w = call.kwargs[i]
    BY DEF Elements
  <2>2. PICK j \in DOMAIN call.kwargs : v = call.kwargs[j] /\ v.name = w.name
    BY <1>2 DEF Elements, Keyword
  <2>3. QED
    BY <2>1, <2>2 DEF IsCall
<1>3. (CHOOSE v \in Keyword(call, w.name) : TRUE) = w
  BY <1>1, <1>2
<1>4. QED
  BY <1>1, <1>3 DEF Get

(* default_keyfn gives each parameter the value Python binds it to, when the *)
(* function takes the call.                                                  *)
LEMMA OutIsBinding ==
  ASSUME NEW fn, NEW call, NEW b, IsFunction(fn), IsCall(call),
         Accepts(fn, call), Binds(fn, call, b), NEW n \in Params(fn)
  PROVE  Out(fn, call)[n] = b[n]
<1>1. PICK i \in DOMAIN fn.params : n = fn.params[i]
  BY DEF Params, Elements
<1>2. Place(fn, n) = i
  BY <1>1, PlaceIsPosition
<1>3. CASE i <= Len(call.args)
  <2>1. i \in DOMAIN call.args
    BY <1>3 DEF IsCall, IsFunction
  <2>2. b[n] = call.args[i]
    BY <1>1, <2>1 DEF Binds
  <2>3. QED
    BY <1>2, <1>3, <2>2 DEF Out
<1>4. CASE ~(i <= Len(call.args)) /\ Keyword(call, n) # {}
  <2>1. PICK w \in Elements(call.kwargs) : w.name = n
    BY <1>4 DEF Keyword
  <2>2. b[n] = w.value
    BY <2>1 DEF Binds
  <2>3. Get(call, n, fn.default[n]) = w.value
    BY <2>1, GetFindsKeyword
  <2>4. QED
    BY <1>2, <1>4, <2>2, <2>3 DEF Out
<1>5. CASE ~(i <= Len(call.args)) /\ Keyword(call, n) = {}
  <2>1. n \notin {fn.params[j] : j \in DOMAIN call.args}
    <3>1. SUFFICES ASSUME NEW j \in DOMAIN call.args, n = fn.params[j]
                   PROVE  FALSE
      OBVIOUS
    <3>2. j \in DOMAIN fn.params
      BY DEF Accepts, IsCall, IsFunction
    <3>3. i = j
      BY <1>1, <3>1, <3>2 DEF IsFunction
    <3>4. j <= Len(call.args)
      BY DEF IsCall
    <3>5. QED
      BY <1>5, <3>3, <3>4
  <2>2. b[n] = fn.default[n]
    BY <1>5, <2>1 DEF Binds
  <2>3. QED
    BY <1>2, <1>5, <2>2 DEF Out, Get
<1>6. QED
  BY <1>3, <1>4, <1>5

(* What Python binds the parameters to, it finds in the call or in the signature. *)
LEMMA ArgumentsBind ==
  ASSUME NEW fn, NEW call, IsFunction(fn), IsCall(call), Accepts(fn, call)
  PROVE  Binds(fn, call, Arguments(fn, call))
<1> DEFINE b == Out(fn, call)
           values == Elements(call.args) \cup {w.value : w \in Elements(call.kwargs)}
                       \cup {fn.default[n] : n \in Params(fn)}
<1>1. ASSUME NEW i \in DOMAIN call.args
      PROVE  i \in DOMAIN fn.params /\ Place(fn, fn.params[i]) = i /\ i <= Len(call.args)
  <2>1. i \in DOMAIN fn.params /\ i <= Len(call.args)
    BY DEF Accepts, IsCall, IsFunction
  <2> QED BY <2>1, PlaceIsPosition
<1>2. ASSUME NEW n \in Params(fn)
      PROVE  Place(fn, n) \in DOMAIN fn.params /\ fn.params[Place(fn, n)] = n
  <2>1. PICK i \in DOMAIN fn.params : n = fn.params[i]
    BY DEF Params, Elements
  <2> QED BY <2>1, PlaceIsPosition
<1>3. ASSUME NEW n \in Params(fn)
      PROVE  Place(fn, n) <= Len(call.args) => Place(fn, n) \in DOMAIN call.args
  BY <1>2 DEF IsCall, IsFunction
<1>4. ASSUME NEW n \in Params(fn)
      PROVE  b[n] \in values
  <2>1. CASE Place(fn, n) <= Len(call.args)
    <3>1. b[n] = call.args[Place(fn, n)]
      BY <2>1 DEF Out
    <3> QED BY <1>3, <2>1, <3>1 DEF Elements
  <2>2. CASE ~(Place(fn, n) <= Len(call.args)) /\ Keyword(call, n) = {}
    BY <2>2 DEF Out, Get
  <2>3. CASE ~(Place(fn, n) <= Len(call.args)) /\ Keyword(call, n) # {}
    <3>1. PICK w \in Elements(call.kwargs) : w.name = n
      BY <2>3 DEF Keyword
    <3>2. b[n] = w.value
      BY <2>3, <3>1, GetFindsKeyword DEF Out
    <3> QED BY <3>2
  <2> QED BY <2>1, <2>2, <2>3
<1>5. b \in [Params(fn) -> values]
  BY <1>4 DEF Out
<1>6. Binds(fn, call, b)
  <2>1. DOMAIN b = Params(fn)
    BY DEF Out
  <2>2. ASSUME NEW i \in DOMAIN call.args
        PROVE  b[fn.params[i]] = call.args[i]
    BY <1>1 DEF Out, Params, Elements
  <2>3. ASSUME NEW w \in Elements(call.kwargs)
        PROVE  b[w.name] = w.value
    <3>1. w.name \in Params(fn) /\ Place(fn, w.name) > Len(call.args)
      BY DEF Accepts
    <3>2. Place(fn, w.name) \in Nat /\ Len(call.args) \in Nat
      BY <1>2, <3>1 DEF IsFunction, IsCall
    <3>3. ~(Place(fn, w.name) <= Len(call.args))
      BY <3>1, <3>2
    <3> QED BY <3>1, <3>3, GetFindsKeyword DEF Out
  <2>4. ASSUME NEW n \in Params(fn), n \notin {fn.params[i] : i \in DOMAIN call.args},
               Keyword(call, n) = {}
        PROVE  b[n] = fn.default[n]
    <3>1. ~(Place(fn, n) <= Len(call.args))
      BY <1>2, <1>3, <2>4
    <3> QED BY <2>4, <3>1 DEF Out, Get
  <2> QED BY <2>1, <2>2, <2>3, <2>4 DEF Binds
<1> HIDE DEF b, values
<1>7. Arguments(fn, call) = CHOOSE c \in [Params(fn) -> values] : Binds(fn, call, c)
  BY DEF Arguments, values
<1> QED BY <1>5, <1>6, <1>7

(* The key of a call that the function takes consists of the values its     *)
(* selected parameters have in it, in whatever form the caller wrote them.  *)
THEOREM KeyIsSelection ==
  ASSUME NEW fn, NEW call, NEW b, IsFunction(fn), IsCall(call),
         KeyNames(fn) \subseteq Params(fn), Accepts(fn, call), Binds(fn, call, b)
  PROVE  DefaultKey(fn, call) = [n \in KeyNames(fn) |-> b[n]]
<1>1. \A n \in KeyNames(fn) : Out(fn, call)[n] = b[n]
  BY OutIsBinding
<1>2. QED
  BY <1>1 DEF DefaultKey

(* Two calls that the function takes share a row of cache_fn's table if and *)
(* only if their selected parameters have the same values.                  *)
THEOREM SameKeySameArguments ==
  ASSUME NEW fn, IsFunction(fn), KeyNames(fn) \subseteq Params(fn),
         NEW c, NEW b, IsCall(c), Accepts(fn, c), Binds(fn, c, b),
         NEW d, NEW e, IsCall(d), Accepts(fn, d), Binds(fn, d, e)
  PROVE  DefaultKey(fn, c) = DefaultKey(fn, d) <=> \A n \in KeyNames(fn) : b[n] = e[n]
<1>1. DefaultKey(fn, c) = [n \in KeyNames(fn) |-> b[n]]
  BY KeyIsSelection
<1>2. DefaultKey(fn, d) = [n \in KeyNames(fn) |-> e[n]]
  BY KeyIsSelection
<1>3. ASSUME DefaultKey(fn, c) = DefaultKey(fn, d), NEW n \in KeyNames(fn)
      PROVE  b[n] = e[n]
  <2>1. [m \in KeyNames(fn) |-> b[m]][n] = [m \in KeyNames(fn) |-> e[m]][n]
    BY <1>1, <1>2, <1>3
  <2>2. QED
    BY <2>1
<1>4. ASSUME \A n \in KeyNames(fn) : b[n] = e[n]
      PROVE  DefaultKey(fn, c) = DefaultKey(fn, d)
  BY <1>1, <1>2, <1>4
<1>5. QED
  BY <1>3, <1>4
=============================================================================
