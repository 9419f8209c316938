\* Requests are finite: a behaviour ends when each of them has run.
SPECIFICATION MCSpec
CHECK_DEADLOCK FALSE
CONSTANTS
  o = o v = v a = a b = b x = x y = y photo = photo film = film
  None = None
  Nobody = Nobody
  Users = {o, v}
  Pets = {a, b}
  Born = {a}
  Posts = {x, y}
  Media = {photo, film}
  Requests = {1, 2, 3}
  OwnerOf <- MCOwnerOf
  Carousels <- MCCarousels
  StartPosts <- MCStartPosts
  Work <- MCWork
  People = {o, v}
  Names = {a}
  Events = {x}
  Listings = {b}
  Calls = {1, 2, 3}
INVARIANTS
  CarouselIsOneRequest EveryFollowIsTold BlocksHold OwnersBelong
PROPERTY DeletedPostsAreFrozen
