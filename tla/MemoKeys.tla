------------------------------- MODULE MemoKeys -------------------------------
(***************************************************************************)
(* The keys under which memoized functions keep their results:             *)
(* default_keyfn of SqliteDict.cache_fn (src/hugedict/sqlite.py) and the   *)
(* key of LazyDBCacheFn (src/hugedict/parallel.py).                        *)
(*                                                                         *)
(* A call is what the caller wrote: args, a sequence, and kwargs, a        *)
(* sequence of names with values (a dict keeps its order).  A memoized     *)
(* function is its parameters in their order, their defaults and the       *)
(* cache_args of its decorator; None selects all, like the parameters      *)
(* themselves.                                                             *)
(***************************************************************************)
EXTENDS Naturals, Sequences

CONSTANTS
  Empty,  \* Parameter.empty, the default of a parameter that has none
  Opaque  \* what orjson cannot serialize

ASSUME EmptyAssumption == Empty \in Opaque

Elements(s) == {s[i] : i \in DOMAIN s}

Params(fn) == Elements(fn.params)

Place(fn, n) == CHOOSE i \in DOMAIN fn.params : fn.params[i] = n

Keyword(call, n) == {w \in Elements(call.kwargs) : w.name = n}

-----------------------------------------------------------------------------
(* What Python makes of a call *)

(* No argument too many, no keyword that is unknown or given twice, none missing *)
Accepts(fn, call) ==
  /\ Len(call.args) <= Len(fn.params)
  /\ \A w \in Elements(call.kwargs) :
       w.name \in Params(fn) /\ Place(fn, w.name) > Len(call.args)
  /\ \A n \in Params(fn) :
       Place(fn, n) <= Len(call.args) \/ Keyword(call, n) # {} \/ fn.default[n] # Empty

(* The parameters of fn have the values b in the call. *)
Binds(fn, call, b) ==
  /\ DOMAIN b = Params(fn)
  /\ \A i \in DOMAIN call.args : b[fn.params[i]] = call.args[i]
  /\ \A w \in Elements(call.kwargs) : b[w.name] = w.value
  /\ \A n \in Params(fn) :
       n \in {fn.params[i] : i \in DOMAIN call.args} \/ Keyword(call, n) # {}
         \/ b[n] = fn.default[n]

Arguments(fn, call) ==
  LET values == Elements(call.args) \cup {w.value : w \in Elements(call.kwargs)}
                  \cup {fn.default[n] : n \in Params(fn)}
  IN CHOOSE b \in [Params(fn) -> values] : Binds(fn, call, b)

(* The arguments the result is memoized for *)
Selected(fn, b) == [n \in Elements(fn.cache_args) |-> b[n]]

-----------------------------------------------------------------------------
(* default_keyfn of cache_fn *)

(* Mutant: a default counts for more than a keyword. *)
GetDefaultFirst(call, n, default) ==
  IF Keyword(call, n) = {} \/ default # Empty THEN default
  ELSE (CHOOSE w \in Keyword(call, n) : TRUE).value

(* kwargs.get(n, default) *)
Get(call, n, default) ==
  IF Keyword(call, n) = {} THEN default ELSE (CHOOSE w \in Keyword(call, n) : TRUE).value

(* zip(fnargs, args), then kwargs.get(name, default) for the names after them. *)
(* Positional arguments beyond the parameters and keywords that are unknown or *)
(* given twice are passed over.                                                *)
Out(fn, call) ==
  [n \in Params(fn) |-> IF Place(fn, n) <= Len(call.args)
                        THEN call.args[Place(fn, n)] ELSE Get(call, n, fn.default[n])]

(* cache_args of the length of the parameters count as all of them. *)
KeyNames(fn) ==
  IF Len(fn.cache_args) = Len(fn.params) THEN Params(fn) ELSE Elements(fn.cache_args)

(* KeyError for a name that is no parameter, TypeError of orjson *)
KeyRaises(fn, call) ==
  \/ ~ KeyNames(fn) \subseteq Params(fn)
  \/ \E n \in KeyNames(fn) : Out(fn, call)[n] \in Opaque

DefaultKey(fn, call) == [n \in KeyNames(fn) |-> Out(fn, call)[n]]

-----------------------------------------------------------------------------
(* self.key of LazyDBCacheFn *)

(* What CompressKey makes of the key function takes one argument; run passes *)
(* three.  default_key serializes whatever the caller wrote.                 *)
CacheKeyRaises(compress, call) ==
  \/ "key" \in compress
  \/ Elements(call.args) \cap Opaque # {}
  \/ \E w \in Elements(call.kwargs) : w.value \in Opaque

(* CacheFnKey.default_key *)
CacheKey(fn_name, call) == <<fn_name, call.args, call.kwargs>>
=============================================================================
