----------------------------- MODULE MCJsonText -----------------------------
EXTENDS CJsonText

(* Byte strings up to a length, and the strings put in front of and behind. *)
Strings(alphabet, n) == UNION {[1..k -> alphabet] : k \in 0..n}
Around(front, strings, back) == {front \o s \o back : s \in strings}

(* What JSON is made of: [ ] { } , : " a 1 space. *)
Structure == {91, 93, 123, 125, 44, 58, 34, 97, 49, 32}
Quoted == Around(<<91, 34>>, Strings({92, 34, 117, 48}, 6), <<93>>)

(* \uXXXX, surrogates among them: high, low, neither, no number. *)
U == {<<92, 117>> \o x : x \in
       {<<100, 56, 51, 68>>, <<68, 69, 48, 48>>, <<50, 48, 97, 99>>, <<48, 48, 101, 57>>, <<48, 48, 103, 57>>}}
Escapes == U \union {u \o w : u, w \in U}
Wide == Around(<<91, 34>>, Escapes \union {SubSeq(e, 1, Len(e) - 1) : e \in Escapes}, <<34, 93>>)

(* [{"a":null},[true ,  false]] with and without a byte order mark, and cut. *)
Mixed == <<91, 123, 34, 97, 34, 58>> \o Word.null \o <<125, 44, 91>> \o Word.true \o
         <<32, 44, 10, 32>> \o Word.false \o <<93, 93>>
Marked == {m \o t : m \in {<<>>, <<239, 187, 191>>, <<239, 187>>},
                    t \in {SubSeq(Mixed, 1, n) : n \in 0..Len(Mixed)}} \ {<<>>}

MCTexts == (Around(<<91>>, Strings(Structure, 4), <<>>) \union Quoted \union Wide \union Marked
            \union {<<91, 48, 48, 55, 93>>, <<91, 48, 48, 93, 93>>})

(* A job as demo_add_job_to_ctx builds it, the keys cut to a letter. *)
Job(type, path) ==
  Obj(<<[key |-> <<116>>, val |-> Num(<<49, 55, 48>>)], [key |-> <<121>>, val |-> Num(type)],
        [key |-> <<112>>, val |-> Str(path)]>>)

(* Paths of a b " \ newline 0x1f / and a byte of UTF-8. *)
Paths == Strings({97, 34, 92, 10, 31, 47, 233}, 2)
MCValues == {Arr(<<>>)} \union {Arr(<<Job(<<48>>, p)>>) : p \in Paths}
            \union {Arr(<<Job(<<49>>, p), Job(<<48>>, <<97>>)>>) : p \in Strings({97, 31, 92}, 1)}
=============================================================================
