-------------------------- MODULE SubscriptionCache --------------------------
(* The subscriptions of one user, in subscription/data.go. *)
EXTENDS CachePlans

\* The goroutines of the rows queue their commands on one pipeline, which may
\* be executed before a goroutine has queued all of its own.
SubscriptionFamilies ==
  <<"user_subscription", "user_subscription_keys", "user_subscription_type">>
LoadUserSubscriptions == {PerRow(SubscriptionFamilies, i) : i \in Rows}

GetUserSubscriptionsFromCache ==
  FromCache("GetSubscriptionsForUser", Rows, Family("user_subscription"))

GetSubscriptionsForUser(err) ==
  IF ~err /\ <<"user_subscription", 1>> \in cache
  THEN GetUserSubscriptionsFromCache
  ELSE FromTable("GetSubscriptionsForUser", Rows, Rows, LoadUserSubscriptions)

GetSubscription(i, err) ==
  Plan("GetSubscription", Known(i),
       IF ~err /\ <<"user_subscription_keys", i>> \in cache
       THEN {<<"user_subscription", i>>} ELSE {},
       Known(i), IF i \in Rows THEN LoadUserSubscriptions ELSE {})

\* The key whose existence is asked for has no user in its name and is never
\* written: the table answers, and the cache is not filled.
GetUserSubscriptionsByType ==
  FromTable("GetUserSubscriptionsByType", Rows, Rows, {})

SubscriptionPlans(err) ==
  {GetSubscriptionsForUser(err), GetUserSubscriptionsByType} \union
  {GetSubscription(i, err) : i \in Ids}
==============================================================================
