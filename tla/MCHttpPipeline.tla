--------------------------- MODULE MCHttpPipeline ---------------------------
(* Filters: security, one without a category, two of one category.  Routes: *)
(* two of one key in different categories, one with another method.         *)
EXTENDS HttpPipeline

CONSTANTS security, plain, log, trace, getOne, getTwo, getAll, postOne, A, B

MCCategory ==
    [x \in Filters \cup RouteInfos |->
        CASE x \in {log, trace, getOne, getAll} -> A
          [] x = plain -> NoCategory
          [] OTHER -> B]
MCKey == [x \in RouteInfos |-> CASE x \in {getOne, getTwo} -> <<"one", "get">>
                                 [] x = getAll -> <<"all", "get">>
                                 [] x = postOne -> <<"one", "post">>]
MCInitialSort == [f \in Filters |-> CASE f = security -> -1 [] f = log -> -2 [] OTHER -> 0]
MCStartFilters == <<log>>
MCStartRoutes == <<getOne, postOne>>
=============================================================================
