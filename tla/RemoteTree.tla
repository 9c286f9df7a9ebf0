----------------------------- MODULE RemoteTree -----------------------------
(***************************************************************************)
(* Rmdir and RedirAll (app/sshd/sftp.go): a directory of a remote host is  *)
(* emptied and removed by recursive calls, one remote request at a time,   *)
(* while the remote host may refuse a request and others may change the    *)
(* tree.                                                                   *)
(*                                                                         *)
(* The remote file system says what is at each place, a sequence of names  *)
(* from its top.  Every request names a path, and the remote host follows  *)
(* the path anew each time: through the links on the way, and for a        *)
(* listing through a link at the end, but a removal takes the link itself. *)
(***************************************************************************)
EXTENDS Naturals, SequencesExt

CONSTANTS
  Name,        \* names of files and directories
  Place,       \* the places of the remote host
  Targets,     \* the places that links may lead to
  StartTree,   \* what is there when rmdir is called
  MaxMeddles   \* bound: changes others make meanwhile

Absent == [kind |-> "none", to |-> <<>>]
Plain == [kind |-> "file", to |-> <<>>]
Directory == [kind |-> "dir", to |-> <<>>]
Thing == {Absent, Plain, Directory} \cup [kind : {"link"}, to : Targets]

\* What is there is in a directory; a chain of links is taken as one link to its end.
IsTree(f) ==
  /\ f \in [Place -> Thing] /\ f[<<>>] = Directory
  /\ \A p, q \in Place : f[p] # Absent /\ IsStrictPrefix(q, p) => f[q] = Directory
  /\ \A p \in Place : f[p].kind = "link" => f[f[p].to].kind # "link"

ASSUME TreeAssumption ==
  /\ Place \subseteq Seq(Name) /\ <<>> \in Place /\ Targets \subseteq Place
  /\ \A p \in Place : \A n \in 0..Len(p) : SubSeq(p, 1, n) \in Place
  /\ IsTree(StartTree) /\ MaxMeddles \in Nat

VARIABLES
  tree,      \* what the remote host holds
  root,      \* the path the user's rmdir names
  calls,     \* the calls of RedirAll that have not returned, the innermost last:
             \*   path what it removes, todo what is left of its listing
  err,       \* "none" while the outermost call runs, then what it returned
  refused,   \* the remote host refused a request
  meddles,   \* changes made by others
  diverted   \* a path of the walk has come to lead elsewhere than before

treeVars == <<tree, root, calls, err, refused, meddles, diverted>>

Item == [name : Name, dir : BOOLEAN]
Listing == [listed : BOOLEAN, path : Seq(Name), todo : SUBSET Item]

\* A call removes what its caller has listed.
TreeTypeOK ==
  /\ IsTree(tree) /\ root \in Place \ {<<>>} /\ calls \in Seq(Listing)
  /\ calls # <<>> => calls[1].path = root
  /\ \A i \in 1..Len(calls) : ~calls[i].listed => i = Len(calls) /\ calls[i].todo = {}
  /\ \A i \in 2..Len(calls) :
       calls[i].path # <<>> /\ Front(calls[i].path) = calls[i - 1].path
  /\ err \in {"none", "nil", "error"} /\ (err # "none") = (calls = <<>>)
  /\ refused \in BOOLEAN /\ meddles \in 0..MaxMeddles /\ diverted \in BOOLEAN

Call(path) == [listed |-> FALSE, path |-> path, todo |-> {}]

\* Rmdir, once it has the connection, calls RedirAll(c, repath).
TreeInit ==
  /\ tree = StartTree
  /\ root \in {p \in Place \ {<<>>} : StartTree[p] # Absent}
  /\ calls = <<Call(root)>> /\ err = "none"
  /\ refused = FALSE /\ meddles = 0 /\ diverted = FALSE

-----------------------------------------------------------------------------
(* The remote host. *)

Follow(f, p) == IF p \in Place /\ f[p].kind = "link" THEN f[p].to ELSE p

\* The places that a path runs through, from the top to what opening it opens.
Route(f, path) ==
  LET r[i \in 0..Len(path)] ==
        IF i = 0 THEN <<>> ELSE Follow(f, Append(r[i - 1], path[i]))
  IN r
Opens(f, path) == Route(f, path)[Len(path)]

\* The place of what the path names, which may be a link.
Entry(f, path) == Append(Opens(f, Front(path)), Last(path))

Children(p) == {q \in Place : q # <<>> /\ Front(q) = p /\ tree[q] # Absent}

ReadableDir(p) == p \in Place /\ tree[p] = Directory
RemovableDir(p) == ReadableDir(p) /\ Children(p) = {}
Removable(p) == RemovableDir(p) \/ (p \in Place /\ tree[p] \notin {Absent, Directory})

\* The paths the walk has in hand: of its calls, and of the directories they have listed.
InHand ==
  UNION {{c.path} \cup {Append(c.path, x.name) : x \in {y \in c.todo : y.dir}} : c \in Range(calls)}

Becomes(f) ==
  /\ tree' = f
  /\ diverted' = (diverted \/ \E d \in InHand : Opens(f, d) # Opens(tree, d))

\* Another client of the remote host puts something else at a place: it adds it,
\* removes it with all that is in it, or replaces it, by a link to elsewhere too.  To
\* move something is to remove it at one place and to add it, piece by piece, at another.
Meddle(p, x) ==
  LET f == [q \in Place |-> IF q = p THEN x
                            ELSE IF IsStrictPrefix(p, q) THEN Absent ELSE tree[q]]
  IN /\ meddles < MaxMeddles /\ meddles' = meddles + 1
     /\ f # tree /\ IsTree(f) /\ Becomes(f)
     /\ UNCHANGED <<root, calls, err, refused>>

-----------------------------------------------------------------------------
(* The innermost call of RedirAll. *)

Running == calls # <<>>
Inner == calls[Len(calls)]
Outer == SubSeq(calls, 1, Len(calls) - 1)
Proceed(c) == calls' = Append(Outer, c)

\* A request failed, because of the tree or because the remote host refused it:
\* every call returns the error.
ReturnError ==
  /\ calls' = <<>> /\ err' = "error"
  /\ UNCHANGED <<tree, root, meddles, diverted>>

FailsOr(possible) == \/ refused' = TRUE
                     \/ ~possible /\ refused' = refused

IsDirFollowing(p) == tree[Follow(tree, p)] = Directory
\* item.IsDir(), of the listing: a link is not a directory.
IsDir(p) == tree[p] = Directory

JoinNot(path, n) == <<n>>                     \* the name alone
\* filepath.Join(repath, item.Name())
Join(path, n) == Append(path, n)

Here == Opens(tree, Inner.path)

\* files, err = c.ReadDir(repath)
List ==
  /\ Running /\ ~Inner.listed /\ ReadableDir(Here)
  /\ Proceed([Inner EXCEPT !.listed = TRUE,
                           !.todo = {[name |-> Last(q), dir |-> IsDir(q)] : q \in Children(Here)}])
  /\ UNCHANGED <<tree, root, err, refused, meddles, diverted>>

ListFails ==
  /\ Running /\ ~Inner.listed /\ FailsOr(ReadableDir(Here))
  /\ ReturnError

DescendNot(x) ==                              \* continue before the recursion
  /\ Running /\ x \in Inner.todo /\ x.dir
  /\ Proceed([Inner EXCEPT !.todo = @ \ {x}])
  /\ UNCHANGED <<tree, root, err, refused, meddles, diverted>>

\* err = RedirAll(c, jPath)
Descend(x) ==
  /\ Running /\ x \in Inner.todo /\ x.dir
  /\ calls' = Append(Append(Outer, [Inner EXCEPT !.todo = @ \ {x}]),
                     Call(Join(Inner.path, x.name)))
  /\ UNCHANGED <<tree, root, err, refused, meddles, diverted>>

\* err = c.Remove(jPath), which removes an empty directory too
RemoveItem(x) ==
  /\ Running /\ x \in Inner.todo /\ ~x.dir
  /\ LET p == Entry(tree, Join(Inner.path, x.name))
     IN Removable(p) /\ Becomes([tree EXCEPT ![p] = Absent])
  /\ Proceed([Inner EXCEPT !.todo = @ \ {x}])
  /\ UNCHANGED <<root, err, refused, meddles>>

RemoveItemFailsRetried(x) ==                  \* the same item again
  /\ Running /\ x \in Inner.todo /\ ~x.dir
  /\ FailsOr(Removable(Entry(tree, Join(Inner.path, x.name))))
  /\ UNCHANGED <<tree, root, calls, err, meddles, diverted>>
RemoveItemFails(x) ==
  /\ Running /\ x \in Inner.todo /\ ~x.dir
  /\ FailsOr(Removable(Entry(tree, Join(Inner.path, x.name))))
  /\ ReturnError

\* return c.RemoveDirectory(repath)
RemoveDirectory ==
  /\ Running /\ Inner.listed /\ Inner.todo = {}
  /\ LET p == Entry(tree, Inner.path)
     IN RemovableDir(p) /\ Becomes([tree EXCEPT ![p] = Absent])
  /\ calls' = Outer
  /\ err' = IF Outer = <<>> THEN "nil" ELSE err
  /\ UNCHANGED <<root, refused, meddles>>

RemoveDirectoryFailsUnseen ==                 \* its error is not returned
  /\ Running /\ Inner.listed /\ Inner.todo = {}
  /\ FailsOr(RemovableDir(Entry(tree, Inner.path)))
  /\ calls' = Outer
  /\ err' = IF Outer = <<>> THEN "nil" ELSE err
  /\ UNCHANGED <<tree, root, meddles, diverted>>
RemoveDirectoryFails ==
  /\ Running /\ Inner.listed /\ Inner.todo = {}
  /\ FailsOr(RemovableDir(Entry(tree, Inner.path)))
  /\ ReturnError

Walk ==
  \/ List \/ ListFails
  \/ \E x \in Item : Descend(x) \/ RemoveItem(x) \/ RemoveItemFails(x)
  \/ RemoveDirectory \/ RemoveDirectoryFails

TreeNext ==
  \/ Walk
  \/ \E p \in Place \ {<<>>}, x \in Thing : Meddle(p, x)

TreeSpec == TreeInit /\ [][TreeNext]_treeVars

\* Every remote request is answered, or the connection ends and it fails.
TreeFairSpec == TreeSpec /\ WF_treeVars(Walk)

-----------------------------------------------------------------------------
(* Properties *)

Under(p) == {q \in Place : IsStrictPrefix(p, q)}

\* The walk removes what the named path names and what is in it, and nothing that is
\* only linked from there (of a link, if one is named, it removes what its target
\* holds).  This fails once a path of the walk has come to lead elsewhere: IsDir is of
\* the listing, and when a link has since taken the place of a listed directory, or of
\* one on the way to it, RedirAll follows the link and removes what is there.
OnlyInside ==
  [][ Walk /\ ~diverted =>
        \A p \in Place : tree[p] # Absent /\ tree'[p] = Absent =>
          p = Entry(tree, root) \/ p \in Under(Opens(tree, root)) ]_treeVars

\* When Rmdir reports success, nothing is left where its path led, nor below.
SuccessMeansGone ==
  [][ err' = "nil" /\ err = "none" =>
        \A p \in {Entry(tree, root)} \cup Under(Entry(tree, root)) : tree'[p] = Absent ]_treeVars

\* An error of Rmdir has a cause outside: a refused request, a change by another
\* client, or a path that is not a directory.
ErrorHasCause ==
  err = "error" => refused \/ meddles > 0 \/ StartTree[root] # Directory

\* RedirAll returns, if others make no end of changes.
Returns == <>(err # "none")
=============================================================================
