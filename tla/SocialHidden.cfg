\* Requests are finite: a behaviour ends when each of them has run.
SPECIFICATION SocialSpec
CHECK_DEADLOCK FALSE
CONSTANTS
  o = o v = v a = a x = x
  None = None
  Users = {o, v}
  Pets = {a}
  Born = {a}
  Posts = {x}
  Media = {}
  Carousels = {}
  Requests = {1, 2}
  OwnerOf <- MCOwnerOf
  StartPosts <- MCStartPosts
  Work <- MCWork
INVARIANT HiddenPetsAreNotServed
